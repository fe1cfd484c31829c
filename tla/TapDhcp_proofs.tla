--------------------------- MODULE TapDhcp_proofs ---------------------------
(***************************************************************************)
(* Proofs about TapDhcp, for any number of handlers, callers and           *)
(* addresses.  The configuration in use by the conversation is shown to    *)
(* implement TapConfig, and what is proved of that holds here too.         *)
(***************************************************************************)
EXTENDS TapDhcp, TapConfig_proofs

\* A step of the conversation.
Talk ==
  \/ \E h \in Handlers : Handle(h) \/ Send(h)
  \/ TakeOffer \/ TakeAck \/ TakeNak \/ TimeOut \/ Restart

-----------------------------------------------------------------------------
(* Types                                                                   *)

DhcpTypes ==
  /\ hpc \in [Handlers -> HandlerLabels]
  /\ msg \in [Handlers -> [type : {"discover", "request"}, ciaddr : AnyAddress]]
  /\ answer \in [Handlers -> {"offer", "ack", "nak"}]
  /\ seen \in [Handlers -> 0 .. BAD_DHCPREQUEST_NAK_THRESHOLD]
  /\ client \in {"init", "selecting", "offered", "requesting", "bound", "renewing"}
  /\ lease \in AnyAddress
  /\ wire \in [type : {"none", "offer", "ack", "nak"}, yiaddr : AnyAddress]

\* The conversation writes its two notes and nothing else of the configuration.
LEMMA TalkNotes ==
  ASSUME ConfigTypeOK, DhcpTypes, Talk
  PROVE  /\ UNCHANGED callVars
         /\ \/ UNCHANGED cfg
            \/ cfg' = [cfg EXCEPT !.received_discover = TRUE]
            \/ \E n \in 0 .. BAD_DHCPREQUEST_NAK_THRESHOLD : cfg' = [cfg EXCEPT !.bad_requests = n]
<1>1. ASSUME NEW h \in Handlers, CountBad(h)
      PROVE  /\ UNCHANGED callVars
             /\ \E n \in 0 .. BAD_DHCPREQUEST_NAK_THRESHOLD : cfg' = [cfg EXCEPT !.bad_requests = n]
  <2> DEFINE n == IF seen[h] = BAD_DHCPREQUEST_NAK_THRESHOLD THEN seen[h] ELSE seen[h] + 1
  <2>1. seen[h] \in 0 .. BAD_DHCPREQUEST_NAK_THRESHOLD
    BY DEF DhcpTypes
  <2>2. n \in 0 .. BAD_DHCPREQUEST_NAK_THRESHOLD
    BY <2>1, ConfigAssumption
  <2> QED
    BY <1>1, <2>2 DEF CountBad
<1>2. ASSUME NEW h \in Handlers, RememberDiscover(h)
      PROVE  UNCHANGED callVars /\ cfg' = [cfg EXCEPT !.received_discover = TRUE]
  BY <1>2 DEF RememberDiscover
<1>3. ASSUME NEW h \in Handlers,
             \/ ProcessDHCP(h) \/ SendNothing(h) \/ RememberRequest(h)
             \/ \E type \in ReplyTypes : SendDHCPMsg(h, type)
             \/ Send(h)
      PROVE  UNCHANGED <<cfg, callVars>>
  BY <1>3 DEF ProcessDHCP, SendNothing, RememberRequest, SendDHCPMsg, Send, SendDhcp, Discover, Request,
              Renew
<1>4. ASSUME TakeOffer \/ TakeAck \/ TakeNak \/ TimeOut \/ Restart
      PROVE  UNCHANGED <<cfg, callVars>>
  BY <1>4 DEF TakeOffer, TakeAck, TakeNak, TimeOut, Restart
<1> QED
  BY <1>1, <1>2, <1>3, <1>4 DEF Talk, Handle

\* The program points of ProcessDHCP and SendDHCPMsg.
LEMMA LabelsOfHandlers ==
  /\ "idle" \in HandlerLabels /\ "process" \in HandlerLabels /\ "discovered" \in HandlerLabels
  /\ "counted" \in HandlerLabels /\ "reply" \in HandlerLabels /\ "remember" \in HandlerLabels
  /\ "count" \in HandlerLabels
BY DEF HandlerLabels

\* The conversation's own variables keep their types.
LEMMA TalkTypes ==
  ASSUME ConfigTypeOK, DhcpTypes, Talk
  PROVE  DhcpTypes'
<1> USE LabelsOfHandlers DEF DhcpTypes, HandlerAt, HandlerReturns, Discovery, NoReply
<1>0. cfg.dhcp_addr \in AnyAddress /\ cfg.bad_requests \in 0 .. BAD_DHCPREQUEST_NAK_THRESHOLD
  BY DEF ConfigTypeOK, ConfigTypes
<1>1. NoAddress \in AnyAddress /\ 0 \in 0 .. BAD_DHCPREQUEST_NAK_THRESHOLD
  BY ConfigAssumption DEF AnyAddress
<1>2. ASSUME NEW h \in Handlers, ProcessDHCP(h) PROVE DhcpTypes'
  BY <1>2 DEF ProcessDHCP, Decide, AskNext
<1>3. ASSUME NEW h \in Handlers, NEW type \in ReplyTypes, SendDHCPMsg(h, type) PROVE DhcpTypes'
  BY <1>0, <1>1, <1>3 DEF SendDHCPMsg, ReplyTypes
<1>4. ASSUME NEW h \in Handlers, SendNothing(h) PROVE DhcpTypes'
  BY <1>4 DEF SendNothing
<1>5. ASSUME NEW h \in Handlers, RememberDiscover(h) \/ RememberRequest(h) \/ CountBad(h)
      PROVE  DhcpTypes'
  <2>1. /\ hpc' = [hpc EXCEPT ![h] = "idle"] \/ hpc' = [hpc EXCEPT ![h] = "count"]
        /\ msg' = [msg EXCEPT ![h] = Discovery] \/ UNCHANGED msg
        /\ seen' = [seen EXCEPT ![h] = 0] \/ seen' = [seen EXCEPT ![h] = cfg.bad_requests]
        /\ UNCHANGED <<answer, client, lease, wire>>
    BY <1>5 DEF RememberDiscover, RememberRequest, CountBad
  <2>2. Discovery \in [type : {"discover", "request"}, ciaddr : AnyAddress]
    BY <1>1
  <2>3. hpc' \in [Handlers -> HandlerLabels]
    BY <2>1
  <2>4. msg' \in [Handlers -> [type : {"discover", "request"}, ciaddr : AnyAddress]]
    BY <2>1, <2>2
  <2>5. seen' \in [Handlers -> 0 .. BAD_DHCPREQUEST_NAK_THRESHOLD]
    BY <1>0, <1>1, <2>1
  <2> QED
    BY <2>1, <2>3, <2>4, <2>5
<1>6. ASSUME NEW h \in Handlers, NEW a \in AnyAddress, NEW dest, SendDhcp(h, RequestOf(a), dest)
      PROVE  hpc' \in [Handlers -> HandlerLabels]
             /\ msg' \in [Handlers -> [type : {"discover", "request"}, ciaddr : AnyAddress]]
             /\ UNCHANGED <<answer, seen>>
  BY <1>6 DEF SendDhcp, RequestOf
<1>7. ASSUME NEW h \in Handlers, Discover(h) PROVE DhcpTypes'
  BY <1>1, <1>7 DEF Discover, SendDhcp
<1>8. ASSUME NEW h \in Handlers, Request(h) PROVE DhcpTypes'
  BY <1>1, <1>6, <1>8 DEF Request
<1>9. ASSUME NEW h \in Handlers, NEW dest \in Destinations, Renew(h, dest) PROVE DhcpTypes'
  BY <1>6, <1>9 DEF Renew
<1>10. ASSUME TakeOffer \/ TakeAck \/ TakeNak \/ TimeOut \/ Restart PROVE DhcpTypes'
  BY <1>1, <1>10 DEF TakeOffer, TakeAck, TakeNak, TimeOut, Restart
<1> QED
  BY <1>2, <1>3, <1>4, <1>5, <1>7, <1>8, <1>9, <1>10 DEF Talk, Handle, Send

\* The types of the configuration after a step of the conversation.
LEMMA TalkConfigTypes ==
  ASSUME ConfigTypeOK, DhcpTypes, Talk
  PROVE  cfg' \in ConfigTypes
<1>1. CASE UNCHANGED cfg
  BY <1>1 DEF ConfigTypeOK
<1>2. CASE cfg' = [cfg EXCEPT !.received_discover = TRUE]
  BY <1>2 DEF ConfigTypeOK, ConfigTypes
<1>3. ASSUME NEW n \in 0 .. BAD_DHCPREQUEST_NAK_THRESHOLD, cfg' = [cfg EXCEPT !.bad_requests = n]
      PROVE  cfg' \in ConfigTypes
  BY <1>3 DEF ConfigTypeOK, ConfigTypes
<1> QED
  BY <1>1, <1>2, <1>3, TalkNotes

DhcpTypeInv == TypeInv /\ DhcpTypes

LEMMA DhcpTypeInvCorrect == Spec => []DhcpTypeInv
<1>1. Init => DhcpTypeInv
  BY TypeInvInit, ConfigAssumption, LabelsOfHandlers
  DEF Init, DhcpTypeInv, DhcpTypes, Discovery, NoReply, AnyAddress
<1>2. DhcpTypeInv /\ [Next]_vars => DhcpTypeInv'
  <2> SUFFICES ASSUME DhcpTypeInv, [Next]_vars PROVE DhcpTypeInv'
    OBVIOUS
  <2> USE DEF DhcpTypeInv
  <2>1. CASE Configure
    <3>1. TypeInv'
      BY <2>1, TypeInvStep DEF Configure
    <3>2. DhcpTypes'
      BY <2>1 DEF Configure, dhcpVars, DhcpTypes
    <3> QED
      BY <3>1, <3>2
  <2>2. CASE Talk
    <3>1. UNCHANGED callVars /\ cfg' \in ConfigTypes
      BY <2>2, TalkNotes, TalkConfigTypes DEF TypeInv
    <3>2. TypeInv'
      BY <3>1 DEF TypeInv, ConfigTypeOK, CallInv, callVars
    <3> QED
      BY <2>2, <3>2, TalkTypes DEF TypeInv
  <2>3. CASE UNCHANGED vars
    BY <2>3 DEF vars, dhcpVars, callVars, TypeInv, ConfigTypeOK, CallInv, DhcpTypes
  <2> QED
    BY <2>1, <2>2, <2>3 DEF Next, Talk
<1> QED
  BY <1>1, <1>2, PTL DEF Spec

\* Types: of the configuration, of the handlers and of the client.
THEOREM DhcpTypeCorrect == Spec => []TypeOK
<1>1. DhcpTypeInv => TypeOK
  BY DEF DhcpTypeInv, TypeInv, DhcpTypes, TypeOK
<1> QED
  BY <1>1, DhcpTypeInvCorrect, PTL

-----------------------------------------------------------------------------
(* The configuration that the application made                             *)

\* TapConfig and what is proved of it, for the configuration without the two notes.
Plain == INSTANCE TapConfig_proofs WITH cfg <- Settings

\* An assignment means the same with and without the notes.
LEMMA SameAssigns ==
  ASSUME cfg \in ConfigTypes, NEW k, NEW i, Assigns(k, i)
  PROVE  Plain!Assigns(k, i)
<1> USE DEF ConfigTypes, Settings
<1>1. ASSUME NEW a, TunAssign(a, i) PROVE Plain!TunAssign(a, i)
  BY <1>1 DEF TunAssign, Plain!TunAssign
<1>2. ASSUME NEW a, DhcpAssign(a, i) PROVE Plain!DhcpAssign(a, i)
  BY <1>2 DEF DhcpAssign, Plain!DhcpAssign
<1>3. ASSUME NEW n, OptAssign(n, i) PROVE Plain!OptAssign(n, i)
  BY <1>3 DEF OptAssign, Plain!OptAssign
<1>4. ASSUME ResetAssign(i) PROVE Plain!ResetAssign(i)
  BY <1>4 DEF ResetAssign, Plain!ResetAssign, AnyAddress, Plain!AnyAddress
<1> QED
  BY <1>1, <1>2, <1>3, <1>4 DEF Assigns, Plain!Assigns

\* What a call of the configuration reads is the same too, and so is what it does.
LEMMA SameCalls ==
  ASSUME ConfigTypeOK, ConfigNext
  PROVE  Plain!ConfigNext
<1> USE DEF Busy, Plain!Busy, Begin, Plain!Begin, Return, Plain!Return, NoCall, Plain!NoCall,
            NewSession, Plain!NewSession, Encloses, Plain!Encloses
<1>1. /\ Settings.m_tun = cfg.m_tun /\ Settings.dhcp_enabled = cfg.dhcp_enabled
      /\ Settings.remote = cfg.remote /\ Settings.dhcp_server_ip = cfg.dhcp_server_ip
      /\ Settings.TapToUser = cfg.TapToUser
  BY DEF ConfigTypeOK, ConfigTypes, Settings
<1>2. UNCHANGED cfg => UNCHANGED Settings
  BY DEF Settings
<1>3. \A k, i : Assigns(k, i) => Plain!Assigns(k, i)
  BY SameAssigns DEF ConfigTypeOK
<1>4. ASSUME NEW c PROVE Refused(c) <=> Plain!Refused(c)
  BY <1>1 DEF Refused, Plain!Refused
<1>5. ASSUME NEW c, LastAssign(c) PROVE Plain!LastAssign(c)
  BY <1>3, <1>5 DEF LastAssign, Plain!LastAssign, LastOf, Plain!LastOf
<1>6. ASSUME Close PROVE Plain!Close
  BY <1>2, <1>6 DEF Close, Plain!Close
<1>7. ASSUME NEW c, NEW k, Ioctl(c, k) PROVE Plain!Ioctl(c, k)
  BY <1>1, <1>2, <1>7 DEF Ioctl, Plain!Ioctl, UpToTwo, Plain!UpToTwo,
     DHCP_USER_SUPPLIED_OPTIONS_BUFFER_SIZE, Plain!DHCP_USER_SUPPLIED_OPTIONS_BUFFER_SIZE
<1>8. ASSUME NEW c, Open(c) PROVE Plain!Open(c)
  BY <1>2, <1>8 DEF Open, Plain!Open
<1>9. ASSUME NEW c, Cleanup(c) PROVE Plain!Cleanup(c)
  BY <1>2, <1>9 DEF Cleanup, Plain!Cleanup
<1>10. ASSUME NEW c, RefuseTun(c) PROVE Plain!RefuseTun(c)
  BY <1>2, <1>4, <1>10 DEF RefuseTun, Plain!RefuseTun
<1>11. ASSUME NEW c, Assign(c) PROVE Plain!Assign(c)
  BY <1>3, <1>4, <1>11 DEF Assign, Plain!Assign, LastOf, Plain!LastOf
<1>12. ASSUME NEW c, FinishConfig(c) \/ FinishOpt(c) \/ FinishOpen(c) \/ FinishCleanup(c)
       PROVE  Plain!FinishConfig(c) \/ Plain!FinishOpt(c) \/ Plain!FinishOpen(c) \/ Plain!FinishCleanup(c)
  BY <1>5, <1>12 DEF FinishConfig, Plain!FinishConfig, FinishOpt, Plain!FinishOpt,
     FinishOpen, Plain!FinishOpen, FinishCleanup, Plain!FinishCleanup
<1>13. ASSUME NEW c, CheckModes(c) \/ CompareSubnet(c)
       PROVE  Plain!CheckModes(c) \/ Plain!CompareSubnet(c)
  BY <1>1, <1>2, <1>13 DEF CheckModes, Plain!CheckModes, CheckTun, Plain!CheckTun,
     CheckDhcp, Plain!CheckDhcp, CompareSubnet, Plain!CompareSubnet
<1>14. ASSUME NEW c, CopyMac(c) PROVE Plain!CopyMac(c)
  BY <1>1, <1>14 DEF CopyMac, Plain!CopyMac, Settings, ConfigTypeOK, ConfigTypes
<1>15. ASSUME NEW c, ClearArp(c) PROVE Plain!ClearArp(c)
  BY <1>15 DEF ClearArp, Plain!ClearArp, Settings, ConfigTypeOK, ConfigTypes
<1>16. Requests = Plain!Requests
  BY DEF Requests, Plain!Requests
<1> HIDE DEF Busy, Begin, Return, NoCall, NewSession, Encloses
<1> QED
  BY <1>6, <1>7, <1>8, <1>9, <1>10, <1>11, <1>12, <1>13, <1>14, <1>15, <1>16
  DEF ConfigNext, Plain!ConfigNext, CallStep, Plain!CallStep

\* The two instances of TapConfig are one.
LEMMA SameSpec == Plain!ConfigSpec <=> Config!ConfigSpec
<1>1. Plain!ConfigInit <=> Config!ConfigInit
  BY DEF Plain!ConfigInit, Config!ConfigInit, Plain!PlainConfig, Config!PlainConfig, Plain!NoCall,
         Config!NoCall, Plain!NewSession, Config!NewSession, Plain!AnyAddress, Config!AnyAddress
<1>2. Plain!ConfigNext <=> Config!ConfigNext
  BY
  DEF Plain!ConfigNext, Config!ConfigNext, Plain!Close, Config!Close, Plain!Ioctl, Config!Ioctl, 
      Plain!Open, Config!Open, Plain!Cleanup, Config!Cleanup, Plain!CallStep, Config!CallStep, 
      Plain!RefuseTun, Config!RefuseTun, Plain!Assign, Config!Assign, Plain!FinishConfig, 
      Config!FinishConfig, Plain!FinishOpt, Config!FinishOpt, Plain!FinishOpen, 
      Config!FinishOpen, Plain!FinishCleanup, Config!FinishCleanup, Plain!CheckModes, 
      Config!CheckModes, Plain!CheckTun, Config!CheckTun, Plain!CheckDhcp, Config!CheckDhcp,
      Plain!CompareSubnet, Config!CompareSubnet, Plain!CopyMac, 
      Config!CopyMac, Plain!ClearArp, Config!ClearArp, Plain!Requests, Config!Requests, 
      Plain!Begin, Config!Begin, Plain!Busy, Config!Busy, Plain!UpToTwo, Config!UpToTwo, 
      Plain!NewSession, Config!NewSession, Plain!Return, Config!Return, Plain!Refused, 
      Config!Refused, Plain!LastOf, Config!LastOf, Plain!Assigns, Config!Assigns, 
      Plain!TunAssign, Config!TunAssign, Plain!DhcpAssign, Config!DhcpAssign, Plain!OptAssign, 
      Config!OptAssign, Plain!ResetAssign, Config!ResetAssign, Plain!LastAssign, 
      Config!LastAssign, Plain!NoCall, Config!NoCall, Plain!Encloses, Config!Encloses, 
      Plain!AnyAddress, Config!AnyAddress, Plain!DHCP_USER_SUPPLIED_OPTIONS_BUFFER_SIZE, 
      Config!DHCP_USER_SUPPLIED_OPTIONS_BUFFER_SIZE
<1>3. Plain!callVars = Config!callVars
  BY DEF Plain!callVars, Config!callVars
<1>4. [Plain!ConfigNext]_<<Settings, Plain!callVars>> <=> [Config!ConfigNext]_<<Settings, Config!callVars>>
  BY <1>2, <1>3 DEF Plain!callVars, Config!callVars
<1> QED
  BY <1>1, <1>4, PTL DEF Plain!ConfigSpec, Config!ConfigSpec

LEMMA PlainSpec == Spec => Plain!ConfigSpec
<1>1. Init => Plain!ConfigInit
  <2>1. [PlainConfig EXCEPT !.received_discover = FALSE, !.bad_requests = 0] = PlainConfig
    <3>1. \A r \in ConfigTypes : ~r.received_discover /\ r.bad_requests = 0 =>
            [r EXCEPT !.received_discover = FALSE, !.bad_requests = 0] = r
      BY DEF ConfigTypes
    <3>2. PlainConfig \in ConfigTypes
      BY ConfigAssumption DEF PlainConfig, ConfigTypes, AnyAddress, Macs
    <3> QED
      BY <3>1, <3>2 DEF PlainConfig
  <2>2. PlainConfig = Plain!PlainConfig
    BY DEF PlainConfig, Plain!PlainConfig, AnyAddress, Plain!AnyAddress
  <2> QED
    BY <2>1, <2>2 DEF Init, ConfigInit, Plain!ConfigInit, Settings, NoCall, Plain!NoCall,
       NewSession, Plain!NewSession
<1>2. DhcpTypeInv /\ [Next]_vars => [Plain!ConfigNext]_<<Settings, Plain!callVars>>
  <2> SUFFICES ASSUME DhcpTypeInv, [Next]_vars
               PROVE  Plain!ConfigNext \/ UNCHANGED <<Settings, Plain!callVars>>
    OBVIOUS
  <2> USE DEF DhcpTypeInv, TypeInv
  <2>1. CASE Configure
    BY <2>1, SameCalls DEF Configure
  <2>2. CASE Talk
    <3>1. UNCHANGED Settings
      BY <2>2, TalkNotes DEF Settings, ConfigTypeOK, ConfigTypes
    <3> QED
      BY <2>2, <3>1, TalkNotes DEF callVars, Plain!callVars
  <2>3. CASE UNCHANGED vars
    BY <2>3 DEF vars, callVars, Plain!callVars, Settings
  <2> QED
    BY <2>1, <2>2, <2>3 DEF Next, Talk
<1> QED
  BY <1>1, <1>2, DhcpTypeInvCorrect, PTL DEF Spec, Plain!ConfigSpec

\* The conversation with the DHCP client does not disturb the configuration.
THEOREM ConfigImplemented == Spec => ConfigRefinement
  BY PlainSpec, SameSpec, PTL DEF ConfigRefinement

LEMMA PlainAssumption == Plain!ConfigAssumption
  BY ConfigAssumption
  DEF Plain!ConfigAssumption, Plain!TunArg, Plain!DhcpArg, Plain!AnyAddress, TunArg, DhcpArg, AnyAddress

\* Frames find whole configurations while they write its notes.
THEOREM WholeWhileTalking == Spec => []PublishedWhole
<1>1. Plain!ConfigSpec => []Plain!PublishedWhole
  BY ONLY PlainAssumption, Plain!WholePublished, PTL
<1>2. ConfigTypeOK /\ Plain!PublishedWhole => PublishedWhole
  BY DEF ConfigTypeOK, ConfigTypes, Settings, Plain!PublishedWhole, PublishedWhole
<1>3. DhcpTypeInv => ConfigTypeOK
  BY DEF DhcpTypeInv, TypeInv
<1> QED
  BY <1>1, <1>2, <1>3, PlainSpec, DhcpTypeInvCorrect, PTL

\* An open finds a plain configuration, whatever the frames of the session before it noted.
THEOREM OpensPlainWhileTalking == Spec => []OpenStartsPlain
<1>1. Plain!ConfigSpec => []Plain!OpenStartsPlain
  BY ONLY PlainAssumption, Plain!OpensPlain, PTL
<1>2. ConfigTypeOK /\ Plain!OpenStartsPlain => OpenStartsPlain
  BY DEF ConfigTypeOK, ConfigTypes, Settings, Plain!OpenStartsPlain, OpenStartsPlain, Plain!PlainConfig,
         PlainConfig, NewSession, Plain!NewSession, AnyAddress, Plain!AnyAddress
<1>3. DhcpTypeInv => ConfigTypeOK
  BY DEF DhcpTypeInv, TypeInv
<1> QED
  BY <1>1, <1>2, <1>3, PlainSpec, DhcpTypeInvCorrect, PTL

\* The host finds the server and the peers in the middle of its conversation.
THEOREM PeersReachedWhileTalking == Spec => []PeersReachable
<1>1. Plain!ConfigSpec => []Plain!PeersReachable
  BY ONLY PlainAssumption, Plain!PeersReached, PTL
<1>2. ConfigTypeOK /\ Plain!PeersReachable => PeersReachable
  <2> SUFFICES ASSUME ConfigTypeOK, Plain!PeersReachable PROVE PeersReachable
    OBVIOUS
  <2>1. /\ Settings.m_tun = cfg.m_tun /\ Settings.dhcp_enabled = cfg.dhcp_enabled
        /\ Settings.remote = cfg.remote /\ Settings.dhcp_server_ip = cfg.dhcp_server_ip
        /\ Settings.TapToUser = cfg.TapToUser /\ Settings.dhcp_server_mac = cfg.dhcp_server_mac
        /\ Settings.dhcp_server_arp = cfg.dhcp_server_arp /\ Settings.dhcp_addr = cfg.dhcp_addr
        /\ Settings.localIP = cfg.localIP
    BY DEF ConfigTypeOK, ConfigTypes, Settings
  <2>2. \A src, dst : Plain!ArpReply(src, dst) = ArpReply(src, dst)
    BY <2>1 DEF ArpReply, Plain!ArpReply, Answers, Plain!Answers, Encloses, Plain!Encloses
  <2>3. (Quiet <=> Plain!Quiet) /\ (Once <=> Plain!Once)
    BY DEF Quiet, Plain!Quiet, Busy, Plain!Busy, Once, Plain!Once
  <2> QED
    BY <2>1, <2>2, <2>3 DEF PeersReachable, ServerReachable, SubnetReachable, Plain!PeersReachable,
       Plain!ServerReachable, Plain!SubnetReachable
<1>3. DhcpTypeInv => ConfigTypeOK
  BY DEF DhcpTypeInv, TypeInv
<1> QED
  BY <1>1, <1>2, <1>3, PlainSpec, DhcpTypeInvCorrect, PTL

\* No offer and no acknowledgement goes out without an address while the masquerade is on.
THEOREM OffersAreWhole == Spec => OffersWhole
<1>1. ASSUME PublishedWhole, NEW h \in Handlers, NEW type \in {"offer", "ack"}, SendDHCPMsg(h, type),
             cfg.dhcp_enabled, ~session.raced
      PROVE  wire'.yiaddr # NoAddress
  BY <1>1 DEF SendDHCPMsg, PublishedWhole
<1>2. PublishedWhole /\ [Next]_vars =>
        [\A h \in Handlers, type \in {"offer", "ack"} :
           SendDHCPMsg(h, type) /\ cfg.dhcp_enabled /\ ~session.raced => wire'.yiaddr # NoAddress]_vars
  BY <1>1
<1> QED
  BY <1>2, WholeWhileTalking, PTL DEF Spec, OffersWhole

-----------------------------------------------------------------------------
(* The room in a reply                                                     *)

Options == [optlen : Nat, overflow : BOOLEAN]

\* o bytes of options are in m, and all of them that were to be.
Written(m, o) == m \in Options /\ m.optlen = o /\ ~m.overflow

\* An option is appended while there is room for it.
LEMMA OptionAppended ==
  ASSUME NEW m, NEW o \in Nat, NEW len \in Nat, Written(m, o), o + len <= 256
  PROVE  Written(SetDHCPOpt(m, len), o + len)
<1> DEFINE appended == [m EXCEPT !.optlen = @ + len]
<1>0. m \in Options /\ m.optlen = o /\ ~m.overflow
  BY DEF Written
<1>1. SetDHCPOpt(m, len) = appended
  BY <1>0 DEF SetDHCPOpt, DHCP_OPTIONS_BUFFER_SIZE
<1>2. appended \in Options
  BY <1>0 DEF Options
<1>3. appended.optlen = o + len
  BY <1>0 DEF Options
<1>4. ~appended.overflow
  BY <1>0 DEF Options
<1> QED
  BY <1>1, <1>2, <1>3, <1>4, Zenon DEF Written

\* An option that does not fit is recorded as such.
LEMMA OptionRefused ==
  ASSUME NEW m, NEW o \in Nat, NEW len \in Nat, Written(m, o), o + len > 256
  PROVE  SetDHCPOpt(m, len).overflow
<1>0. m \in Options /\ m.optlen = o /\ ~m.overflow
  BY DEF Written
<1>1. SetDHCPOpt(m, len) = [m EXCEPT !.overflow = TRUE]
  <2>1. ~(m.optlen + len <= DHCP_OPTIONS_BUFFER_SIZE)
    BY <1>0 DEF DHCP_OPTIONS_BUFFER_SIZE
  <2> QED
    BY <1>0, <2>1, Zenon DEF SetDHCPOpt
<1>2. [m EXCEPT !.overflow = TRUE].overflow
  BY <1>0 DEF Options
<1> QED
  BY <1>1, <1>2, Zenon

\* And the record stays.
LEMMA OptionsEnd == ASSUME NEW m, NEW len, m.overflow PROVE SetDHCPOpt(m, len).overflow
BY Zenon DEF SetDHCPOpt

\* The options that DHCP_SET_OPT supplied fit in a reply up to 234 bytes, whatever
\* else it says, and a refusal never lacks room.
THEOREM RoomForOptions ==
  \A n \in Nat :
    /\ Overflows("offer", n) <=> n > 234
    /\ Overflows("ack", n) <=> n > 234
    /\ ~Overflows("nak", n)
<1> TAKE n \in Nat
<1> DEFINE start == [optlen |-> 0, overflow |-> FALSE]
           head == SetDHCPOpt(SetDHCPOpt(start, 3), 6)
           offered == SetDHCPOpt(SetDHCPOpt(head, 6), 6)
           full == SetDHCPOpt(offered, n)
<1>1. Written(head, 9)
  <2>1. Written(start, 0)
    BY DEF Written, Options
  <2>2. Written(SetDHCPOpt(start, 3), 3)
    BY <2>1, OptionAppended
  <2> QED
    BY <2>2, OptionAppended
<1> HIDE DEF head
<1>2. Written(offered, 21)
  <2>1. Written(SetDHCPOpt(head, 6), 15)
    BY <1>1, OptionAppended
  <2> QED
    BY <2>1, OptionAppended
<1> HIDE DEF offered
<1>3. ~SetDHCPOpt(head, 1).overflow
  BY <1>1, OptionAppended DEF Written
<1>4. SetDHCPOpt(full, 1).overflow <=> n > 234
  <2>1. CASE n <= 235
    <3>1. Written(full, 21 + n)
      BY <1>2, <2>1, OptionAppended
    <3> HIDE DEF full
    <3>2. CASE n <= 234
      BY <3>1, <3>2, OptionAppended DEF Written
    <3>3. CASE n > 234
      BY <3>1, <3>3, OptionRefused
    <3> QED
      BY <3>2, <3>3
  <2>2. CASE n > 235
    <3>1. full.overflow
      BY <1>2, <2>2, OptionRefused
    <3> HIDE DEF full
    <3> QED
      BY <2>2, <3>1, OptionsEnd
  <2> QED
    BY <2>1, <2>2
<1>5. /\ ReplyOptions("offer", n) = SetDHCPOpt(full, 1)
      /\ ReplyOptions("ack", n) = SetDHCPOpt(full, 1)
      /\ ReplyOptions("nak", n) = SetDHCPOpt(head, 1)
  BY Zenon DEF ReplyOptions, head, offered
<1> QED
  BY <1>3, <1>4, <1>5 DEF Overflows
=============================================================================
