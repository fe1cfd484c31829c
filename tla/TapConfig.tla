------------------------------ MODULE TapConfig ------------------------------
(***************************************************************************)
(* The configuration of the TAP adapter: point-to-point ("tun") mode and   *)
(* the DHCP masquerade, as the application's IOCTLs set them and as every  *)
(* open and cleanup of the TAP device resets them.                         *)
(*                                                                         *)
(* Nothing is locked.  A call makes its assignments one after the other,   *)
(* each a step here, and the send path (module TapDhcp) reads the fields   *)
(* in between.  The addresses of a call are assigned in one step, and so   *)
(* are the headers made from the adapter's MAC: no property looks between. *)
(***************************************************************************)
EXTENDS Naturals

CONSTANTS
  Addresses,   \* IPv4 addresses
  NoAddress,   \* 0.0.0.0
  Callers,     \* threads that call into the device
  TunArgs,     \* inputs of CONFIG_TUN and CONFIG_POINT_TO_POINT
  DhcpArgs,    \* inputs of CONFIG_DHCP_MASQ
  OptLengths,  \* lengths of the inputs of DHCP_SET_OPT
  BAD_DHCPREQUEST_NAK_THRESHOLD, \* bad requests after which all are refused
  MaxCalls     \* bound: how many IOCTLs a behaviour has

DHCP_USER_SUPPLIED_OPTIONS_BUFFER_SIZE == 256

\* A remote network and netmask stand for the addresses they enclose; a network
\* with bits outside its mask encloses none, and 0/0 encloses all.  "masked" is
\* CONFIG_TUN, which is given a mask; CONFIG_POINT_TO_POINT has one peer.
AnyAddress == Addresses \cup {NoAddress}
TunArg == [local : Addresses, remote : SUBSET AnyAddress, masked : BOOLEAN]
DhcpArg == [addr : Addresses, server : Addresses]

ASSUME ConfigAssumption ==
  /\ NoAddress \notin Addresses
  /\ TunArgs \subseteq TunArg
  /\ DhcpArgs \subseteq DhcpArg
  /\ OptLengths \subseteq Nat
  /\ BAD_DHCPREQUEST_NAK_THRESHOLD \in Nat
  /\ MaxCalls \in Nat

\* The MAC addresses made from the adapter's own by GenerateRelatedMAC, and zero.
Macs == {"none", "peer", "server"}

VARIABLES
  cfg,      \* the fields of the adapter context
  call,     \* what each caller is doing
  at,       \* where it is in it
  next,     \* the number of its next assignment
  file,     \* the state of the TAP device's file object
  calls,    \* history, bounded by MaxCalls: IOCTLs so far
  session   \* history of this open: how often it was configured, up to twice,
            \* and whether its cleanup came while an IOCTL was at work

callVars == <<call, at, next, file, calls, session>>

NoCall == [kind |-> "none"]
NewSession == [tuns |-> 0, dhcps |-> 0, raced |-> FALSE]

PlainConfig ==
  [m_tun |-> FALSE, localIP |-> NoAddress, remote |-> AnyAddress, TapToUser |-> "none",
   dhcp_enabled |-> FALSE, dhcp_server_arp |-> FALSE, options_len |-> 0,
   dhcp_addr |-> NoAddress, dhcp_server_ip |-> NoAddress, dhcp_server_mac |-> "none",
   received_discover |-> FALSE, bad_requests |-> 0]

-----------------------------------------------------------------------------
(* The assignments of each call, in the order of the source                *)

\* CONFIG_TUN, CONFIG_POINT_TO_POINT
TunAssign(a, i) ==
  \/ i = 1 /\ cfg' = [cfg EXCEPT !.m_tun = FALSE]
  \/ i = 2 /\ cfg' = [cfg EXCEPT !.localIP = a.local, !.remote = a.remote]
  \/ i = 3 /\ cfg' = [cfg EXCEPT !.TapToUser = "peer"]
  \/ i = 4 /\ cfg' = [cfg EXCEPT !.m_tun = TRUE]

\* Mutant: the masquerade is switched on before its addresses are there.
DhcpAssignEarly(a, i) ==
  \/ i \in {1, 6} /\ cfg' = [cfg EXCEPT !.dhcp_enabled = TRUE]
  \/ i = 2 /\ cfg' = [cfg EXCEPT !.dhcp_server_arp = FALSE]
  \/ i = 3 /\ cfg' = [cfg EXCEPT !.options_len = 0]
  \/ i = 4 /\ cfg' = [cfg EXCEPT !.dhcp_addr = a.addr, !.dhcp_server_ip = a.server]
  \/ i = 5 /\ cfg' = [cfg EXCEPT !.dhcp_server_mac = "server"]
  \/ i = 7 /\ cfg' = [cfg EXCEPT !.dhcp_server_arp = TRUE]

\* CONFIG_DHCP_MASQ
DhcpAssign(a, i) ==
  \/ i = 1 /\ cfg' = [cfg EXCEPT !.dhcp_enabled = FALSE]
  \/ i = 2 /\ cfg' = [cfg EXCEPT !.dhcp_server_arp = FALSE]
  \/ i = 3 /\ cfg' = [cfg EXCEPT !.options_len = 0]
  \/ i = 4 /\ cfg' = [cfg EXCEPT !.dhcp_addr = a.addr, !.dhcp_server_ip = a.server]
  \/ i = 5 /\ cfg' = [cfg EXCEPT !.dhcp_server_mac = "server"]
  \/ i = 6 /\ cfg' = [cfg EXCEPT !.dhcp_enabled = TRUE]
  \/ i = 7 /\ cfg' = [cfg EXCEPT !.dhcp_server_arp = TRUE]

\* CONFIG_DHCP_SET_OPT
OptAssign(n, i) ==
  \/ i = 1 /\ cfg' = [cfg EXCEPT !.options_len = 0]
  \/ i = 2 /\ cfg' = [cfg EXCEPT !.options_len = n]

\* tapResetAdapterState
ResetAssign(i) ==
  \/ i = 1 /\ cfg' = [cfg EXCEPT !.m_tun = FALSE]
  \/ i = 2 /\ cfg' = [cfg EXCEPT !.localIP = NoAddress, !.remote = AnyAddress, !.TapToUser = "none"]
  \/ i = 3 /\ cfg' = [cfg EXCEPT !.dhcp_enabled = FALSE]
  \/ i = 4 /\ cfg' = [cfg EXCEPT !.dhcp_server_arp = FALSE, !.options_len = 0,
                                !.dhcp_addr = NoAddress, !.dhcp_server_ip = NoAddress]
  \/ i = 5 /\ cfg' = [cfg EXCEPT !.received_discover = FALSE]
  \/ i = 6 /\ cfg' = [cfg EXCEPT !.bad_requests = 0, !.dhcp_server_mac = "none"]

Assigns(k, i) ==
  \/ k.kind = "tun" /\ TunAssign(k.arg, i)
  \/ k.kind = "dhcp" /\ DhcpAssign(k.arg, i)
  \/ k.kind = "opt" /\ OptAssign(k.arg, i)
  \/ k.kind \in {"open", "cleanup"} /\ ResetAssign(i)

\* How many assignments a call makes.
LastOf(k) == [tun |-> 4, dhcp |-> 7, opt |-> 2, open |-> 6, cleanup |-> 6][k.kind]

-----------------------------------------------------------------------------
(* The calls                                                               *)

Busy(c) == at[c] # "idle"
UpToTwo(n) == IF n = 2 THEN 2 ELSE n + 1

Begin(c, k) ==
  /\ ~Busy(c)
  /\ call' = [call EXCEPT ![c] = k]
  /\ at' = [at EXCEPT ![c] = "assign"]
  /\ next' = [next EXCEPT ![c] = 1]

\* IOCTLs come by an open handle.  One with too short an input, or with options
\* that are too long or come before the masquerade is on, changes nothing.
Ioctl(c, k) ==
  /\ file = "open"
  /\ calls < MaxCalls
  /\ k.kind = "opt" => cfg.dhcp_enabled /\ k.arg <= DHCP_USER_SUPPLIED_OPTIONS_BUFFER_SIZE
  /\ Begin(c, k)
  /\ calls' = calls + 1
  /\ session' = [session EXCEPT !.tuns = IF k.kind = "tun" THEN UpToTwo(@) ELSE @,
                               !.dhcps = IF k.kind = "dhcp" THEN UpToTwo(@) ELSE @]
  /\ UNCHANGED <<cfg, file>>

\* Mutant: an open leaves the configuration as it finds it.
OpenUnreset(c) ==
  /\ file = "closed"
  /\ ~Busy(c)
  /\ file' = "open"
  /\ session' = NewSession
  /\ UNCHANGED <<cfg, call, at, next, calls>>

\* TapDeviceCreate has exclusive access and resets the configuration.
Open(c) ==
  /\ file = "closed"
  /\ Begin(c, [kind |-> "open"])
  /\ file' = "opening"
  /\ UNCHANGED <<cfg, calls, session>>

\* The last handle is closed: TapDeviceCleanup, whatever IOCTLs are at work.
Cleanup(c) ==
  /\ file = "open"
  /\ Begin(c, [kind |-> "cleanup"])
  /\ file' = "cleaning"
  /\ session' = [NewSession EXCEPT !.raced = \E d \in Callers : Busy(d)]
  /\ UNCHANGED <<cfg, calls>>

\* TapDeviceClose, once every request made by the file is complete.
Close ==
  /\ file = "cleaned"
  /\ \A c \in Callers : ~Busy(c)
  /\ file' = "closed"
  /\ UNCHANGED <<cfg, call, at, next, calls, session>>

Return(c) ==
  /\ call' = [call EXCEPT ![c] = NoCall]
  /\ at' = [at EXCEPT ![c] = "idle"]
  /\ next' = [next EXCEPT ![c] = 1]

\* CONFIG_TUN refuses a network that its mask does not cover, half of its work done.
Refused(c) ==
  call[c].kind = "tun" /\ next[c] = 3 /\ call[c].arg.masked /\ cfg.remote = {}

RefuseTun(c) ==
  /\ at[c] = "assign"
  /\ Refused(c)
  /\ Return(c)
  /\ UNCHANGED <<cfg, file, calls, session>>

\* One assignment but the last.
Assign(c) ==
  /\ at[c] = "assign"
  /\ next[c] < LastOf(call[c])
  /\ ~Refused(c)
  /\ Assigns(call[c], next[c])
  /\ next' = [next EXCEPT ![c] = @ + 1]
  /\ UNCHANGED <<call, at, file, calls, session>>

LastAssign(c) ==
  /\ at[c] = "assign"
  /\ next[c] = LastOf(call[c])
  /\ Assigns(call[c], next[c])

\* CONFIG_TUN and CONFIG_DHCP_MASQ go on with CheckIfDhcpAndTunMode.
FinishConfig(c) ==
  /\ call[c].kind \in {"tun", "dhcp"}
  /\ LastAssign(c)
  /\ at' = [at EXCEPT ![c] = "check"]
  /\ UNCHANGED <<call, next, file, calls, session>>

FinishOpt(c) ==
  /\ call[c].kind = "opt"
  /\ LastAssign(c)
  /\ Return(c)
  /\ UNCHANGED <<file, calls, session>>

FinishOpen(c) ==
  /\ call[c].kind = "open"
  /\ LastAssign(c)
  /\ Return(c)
  /\ file' = "open"
  /\ session' = NewSession
  /\ UNCHANGED calls

FinishCleanup(c) ==
  /\ call[c].kind = "cleanup"
  /\ LastAssign(c)
  /\ Return(c)
  /\ file' = "cleaned"
  /\ UNCHANGED <<calls, session>>

-----------------------------------------------------------------------------
(* CheckIfDhcpAndTunMode                                                   *)

\* The two flags are read one after the other.
CheckTun(c) ==
  /\ at[c] = "check"
  /\ IF cfg.m_tun
     THEN at' = [at EXCEPT ![c] = "checkDhcp"] /\ UNCHANGED <<call, next>>
     ELSE Return(c)
  /\ UNCHANGED <<cfg, file, calls, session>>

CheckDhcp(c) ==
  /\ at[c] = "checkDhcp"
  /\ IF cfg.dhcp_enabled
     THEN at' = [at EXCEPT ![c] = "compare"] /\ UNCHANGED <<call, next>>
     ELSE Return(c)
  /\ UNCHANGED <<cfg, file, calls, session>>

CheckModes(c) == CheckTun(c) \/ CheckDhcp(c)

Encloses(remote, ip) == ip \in remote

CompareSubnet(c) ==
  /\ at[c] = "compare"
  /\ IF Encloses(cfg.remote, cfg.dhcp_server_ip)
     THEN at' = [at EXCEPT ![c] = "copyMac"] /\ UNCHANGED <<call, next>>
     ELSE Return(c)
  /\ UNCHANGED <<cfg, file, calls, session>>

\* Mutant: the wrong field is copied.
CopyMacOfAddress(c) ==
  /\ at[c] = "copyMac"
  /\ cfg' = [cfg EXCEPT !.dhcp_server_mac = cfg.dhcp_server_ip]
  /\ at' = [at EXCEPT ![c] = "clearArp"]
  /\ UNCHANGED <<call, next, file, calls, session>>

\* Mutant: the server keeps a MAC address of its own.
CopyMacNot(c) ==
  /\ at[c] = "copyMac"
  /\ at' = [at EXCEPT ![c] = "clearArp"]
  /\ UNCHANGED <<cfg, call, next, file, calls, session>>

CopyMac(c) ==
  /\ at[c] = "copyMac"
  /\ cfg' = [cfg EXCEPT !.dhcp_server_mac = cfg.TapToUser]
  /\ at' = [at EXCEPT ![c] = "clearArp"]
  /\ UNCHANGED <<call, next, file, calls, session>>

ClearArp(c) ==
  /\ at[c] = "clearArp"
  /\ cfg' = [cfg EXCEPT !.dhcp_server_arp = FALSE]
  /\ Return(c)
  /\ UNCHANGED <<file, calls, session>>

-----------------------------------------------------------------------------
\* What the host learns when it asks for the MAC address of dst (ProcessARP, as
\* tapAdapterTransmit calls it for the masquerade and then for the tunnel).
Answers(own, network, mac, src, dst) ==
  IF src = own /\ Encloses(network, dst) /\ dst # own THEN mac ELSE "none"

ArpReply(src, dst) ==
  LET masq == IF cfg.dhcp_enabled /\ cfg.dhcp_server_arp
              THEN Answers(cfg.dhcp_addr, {cfg.dhcp_server_ip}, cfg.dhcp_server_mac, src, dst)
              ELSE "none"
  IN  IF masq # "none" THEN masq
      ELSE IF cfg.m_tun THEN Answers(cfg.localIP, cfg.remote, cfg.TapToUser, src, dst)
      ELSE "none"

-----------------------------------------------------------------------------
ConfigInit ==
  /\ cfg = PlainConfig
  /\ call = [c \in Callers |-> NoCall]
  /\ at = [c \in Callers |-> "idle"]
  /\ next = [c \in Callers |-> 1]
  /\ file = "closed"
  /\ calls = 0
  /\ session = NewSession

Requests ==
  [kind : {"tun"}, arg : TunArgs] \cup [kind : {"dhcp"}, arg : DhcpArgs]
    \cup [kind : {"opt"}, arg : OptLengths]

CallStep(c) ==
  \/ RefuseTun(c) \/ Assign(c) \/ FinishConfig(c) \/ FinishOpt(c)
  \/ FinishOpen(c) \/ FinishCleanup(c)
  \/ CheckModes(c) \/ CompareSubnet(c) \/ CopyMac(c) \/ ClearArp(c)

ConfigNext ==
  \/ Close
  \/ \E c \in Callers :
       \/ \E k \in Requests : Ioctl(c, k)
       \/ Open(c) \/ Cleanup(c)
       \/ CallStep(c)

ConfigSpec == ConfigInit /\ [][ConfigNext]_<<cfg, callVars>>

-----------------------------------------------------------------------------
(* Correctness                                                             *)

ConfigTypes ==
  [m_tun : BOOLEAN, localIP : AnyAddress, remote : SUBSET AnyAddress, TapToUser : Macs,
   dhcp_enabled : BOOLEAN, dhcp_server_arp : BOOLEAN, options_len : Nat,
   dhcp_addr : AnyAddress, dhcp_server_ip : AnyAddress, dhcp_server_mac : Macs,
   received_discover : BOOLEAN, bad_requests : 0 .. BAD_DHCPREQUEST_NAK_THRESHOLD]

\* The type of every variable.
ConfigTypeOK ==
  /\ cfg \in ConfigTypes
  /\ call \in [Callers -> Requests \cup {NoCall, [kind |-> "open"], [kind |-> "cleanup"]}]
  /\ at \in [Callers -> {"idle", "assign", "check", "checkDhcp", "compare", "copyMac", "clearArp"}]
  /\ next \in [Callers -> 1 .. 7]
  /\ file \in {"closed", "opening", "open", "cleaning", "cleaned"}
  /\ calls \in 0 .. MaxCalls
  /\ session \in [tuns : 0 .. 2, dhcps : 0 .. 2, raced : BOOLEAN]

Quiet == \A c \in Callers : ~Busy(c)
Once == session.tuns <= 1 /\ session.dhcps <= 1

\* What a frame finds once a mode is switched on is a whole configuration, at every
\* instant: the flag goes up last and down first in each call, and calls that come on
\* top of one another keep it so, unless a cleanup overtakes an IOCTL.
PublishedWhole ==
  ~session.raced =>
    /\ cfg.dhcp_enabled =>
         cfg.dhcp_addr # NoAddress /\ cfg.dhcp_server_ip # NoAddress /\ cfg.dhcp_server_mac # "none"
    /\ cfg.m_tun => cfg.localIP # NoAddress /\ cfg.TapToUser = "peer"

\* An open finds nothing of the session before it, even where an IOCTL of that session
\* went on after the cleanup had reset the configuration.  (What the DHCP conversation
\* remembers is left out: a frame that is still being handled may write it.)
OpenStartsPlain ==
  file = "open" /\ session = NewSession =>
    [cfg EXCEPT !.received_discover = FALSE, !.bad_requests = 0] = PlainConfig

\* A host that asks for the address of the DHCP server learns the MAC address that
\* DHCPMessageOurs wants its renewals sent to.
ServerReachable ==
  /\ file = "open" /\ Quiet /\ Once
  /\ cfg.dhcp_enabled /\ cfg.dhcp_addr # cfg.dhcp_server_ip
  /\ cfg.m_tun => cfg.localIP = cfg.dhcp_addr
  => ArpReply(cfg.dhcp_addr, cfg.dhcp_server_ip) = cfg.dhcp_server_mac

\* In tunnel mode the whole remote subnet is behind the peer, the DHCP server too if it
\* is in it: the driver passes IPv4 frames on only to the peer's MAC address.
SubnetReachable ==
  file = "open" /\ Quiet /\ Once /\ cfg.m_tun =>
    \A ip \in cfg.remote \ {cfg.localIP} : ArpReply(cfg.localIP, ip) = cfg.TapToUser

\* The answers to ARP lead the host to the DHCP server and to every peer, in whatever
\* order the tunnel and the masquerade were configured, or both at once: the last of
\* the two calls of CheckIfDhcpAndTunMode sees both, and gives the server the peer's MAC
\* address if it is in the tunnel's subnet.
PeersReachable == ServerReachable /\ SubnetReachable
=============================================================================
