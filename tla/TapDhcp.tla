------------------------------- MODULE TapDhcp -------------------------------
(***************************************************************************)
(* The DHCP masquerade: the driver answers the DHCP client of the host in  *)
(* the name of a server that does not exist, while the application         *)
(* configures it (module TapConfig) and opens and closes the device.       *)
(*                                                                         *)
(* The client's frames are handled on the threads that send them.  An      *)
(* answer reaches the client before the call that made it has returned, so *)
(* that its next message can overtake the end of the handling of the last. *)
(***************************************************************************)
EXTENDS TapConfig

CONSTANT Handlers  \* threads in tapAdapterTransmit

DHCP_OPTIONS_BUFFER_SIZE == 256

VARIABLES
  hpc,     \* where each handler is
  msg,     \* the message it handles
  answer,  \* the type of the answer to it
  seen,    \* m_dhcp_bad_requests as read for its increment
  client,  \* the state of the host's DHCP client
  lease,   \* the address it has
  wire     \* the answer on its way to it

dhcpVars == <<hpc, msg, answer, seen, client, lease, wire>>
vars == <<cfg, callVars, dhcpVars>>

ReplyTypes == {"offer", "ack", "nak"}
Discovery == [type |-> "discover", ciaddr |-> NoAddress]
RequestOf(a) == [type |-> "request", ciaddr |-> a]
NoReply == [type |-> "none", yiaddr |-> NoAddress]

-----------------------------------------------------------------------------
(* The options of a reply                                                  *)

\* SetDHCPOpt, for an option of len bytes.
SetDHCPOpt(m, len) ==
  IF m.overflow THEN m
  ELSE IF m.optlen + len <= DHCP_OPTIONS_BUFFER_SIZE THEN [m EXCEPT !.optlen = @ + len]
  ELSE [m EXCEPT !.overflow = TRUE]

\* Type and server; lease time, netmask and what the application supplied; end.
ReplyOptions(type, supplied) ==
  LET head == SetDHCPOpt(SetDHCPOpt([optlen |-> 0, overflow |-> FALSE], 3), 6)
      offered == SetDHCPOpt(SetDHCPOpt(SetDHCPOpt(head, 6), 6), supplied)
  IN  SetDHCPOpt(IF type = "nak" THEN head ELSE offered, 1)

Overflows(type, supplied) == ReplyOptions(type, supplied).overflow

-----------------------------------------------------------------------------
(* ProcessDHCP                                                             *)

HandlerAt(h, from, to) == hpc[h] = from /\ hpc' = [hpc EXCEPT ![h] = to]

\* A call returns, and its local variables are gone.
HandlerReturns(h) ==
  /\ hpc' = [hpc EXCEPT ![h] = "idle"]
  /\ msg' = [msg EXCEPT ![h] = Discovery]
  /\ seen' = [seen EXCEPT ![h] = 0]

\* tapAdapterTransmit takes the message for the masquerade if it is on and the
\* message is for its server (DHCPMessageOurs); else it is a frame like any other.
SendDhcp(h, m, dest) ==
  /\ hpc[h] = "idle"
  /\ IF cfg.dhcp_enabled /\ dest \in {"broadcast", cfg.dhcp_server_mac}
     THEN /\ hpc' = [hpc EXCEPT ![h] = "process"]
          /\ msg' = [msg EXCEPT ![h] = m]
     ELSE UNCHANGED <<hpc, msg>>
  /\ UNCHANGED <<cfg, callVars, answer, seen>>

WrongAddress(m) == m.ciaddr # NoAddress /\ m.ciaddr # cfg.dhcp_addr

Decide(h, type) ==
  /\ hpc' = [hpc EXCEPT ![h] = "reply"]
  /\ answer' = [answer EXCEPT ![h] = type]

AskNext(h, label) == hpc' = [hpc EXCEPT ![h] = label] /\ UNCHANGED answer

\* What is wrong with a request is looked for in one field after the other.
ProcessDHCP(h) ==
  /\ \/ /\ hpc[h] = "process"
        /\ IF msg[h].type = "discover" THEN Decide(h, "offer")
           ELSE IF WrongAddress(msg[h]) THEN Decide(h, "nak")
           ELSE AskNext(h, "discovered")
     \/ /\ hpc[h] = "discovered"
        /\ IF cfg.received_discover THEN AskNext(h, "counted") ELSE Decide(h, "nak")
     \/ /\ hpc[h] = "counted"
        /\ Decide(h, IF cfg.bad_requests >= BAD_DHCPREQUEST_NAK_THRESHOLD THEN "nak" ELSE "ack")
  /\ UNCHANGED <<cfg, callVars, msg, seen, client, lease, wire>>

\* SendDHCPMsg.  The addresses are read now, not when the answer was decided.
SendDHCPMsg(h, type) ==
  /\ HandlerAt(h, "reply", "remember")
  /\ answer[h] = type
  /\ ~Overflows(type, cfg.options_len)
  /\ answer' = [answer EXCEPT ![h] = "nak"]
  /\ wire' = [type |-> type, yiaddr |-> IF type = "nak" THEN NoAddress ELSE cfg.dhcp_addr]
  /\ UNCHANGED <<cfg, callVars, msg, seen, client, lease>>

\* There is no reply if its options do not fit, and none for want of memory or
\* because IndicateReceivePacket finds the miniport paused.
SendNothing(h) ==
  /\ HandlerAt(h, "reply", "remember")
  /\ answer' = [answer EXCEPT ![h] = "nak"]
  /\ UNCHANGED <<cfg, callVars, msg, seen, client, lease, wire>>

\* Mutant: the discover is not remembered.
RememberDiscoverNot(h) ==
  /\ hpc[h] = "remember"
  /\ msg[h].type = "discover"
  /\ HandlerReturns(h)
  /\ UNCHANGED <<cfg, callVars, answer, client, lease, wire>>

\* Mutant: a new conversation starts without the options that the application supplied.
RememberDiscoverOnly(h) ==
  /\ hpc[h] = "remember"
  /\ msg[h].type = "discover"
  /\ HandlerReturns(h)
  /\ cfg' = [cfg EXCEPT !.received_discover = TRUE, !.options_len = 0]
  /\ UNCHANGED <<callVars, answer, client, lease, wire>>

RememberDiscover(h) ==
  /\ hpc[h] = "remember"
  /\ msg[h].type = "discover"
  /\ HandlerReturns(h)
  /\ cfg' = [cfg EXCEPT !.received_discover = TRUE]
  /\ UNCHANGED <<callVars, answer, client, lease, wire>>

RememberRequest(h) ==
  /\ hpc[h] = "remember"
  /\ msg[h].type = "request"
  /\ IF WrongAddress(msg[h])
     THEN /\ hpc' = [hpc EXCEPT ![h] = "count"]
          /\ seen' = [seen EXCEPT ![h] = cfg.bad_requests]
          /\ UNCHANGED msg
     ELSE HandlerReturns(h)
  /\ UNCHANGED <<cfg, callVars, answer, client, lease, wire>>

\* The second half of the increment.  Counts above the threshold are not told apart.
CountBad(h) ==
  /\ hpc[h] = "count"
  /\ HandlerReturns(h)
  /\ cfg' = [cfg EXCEPT !.bad_requests =
               IF seen[h] = BAD_DHCPREQUEST_NAK_THRESHOLD THEN seen[h] ELSE seen[h] + 1]
  /\ UNCHANGED <<callVars, answer, client, lease, wire>>

-----------------------------------------------------------------------------
(* The DHCP client of the host, one exchange at a time                     *)

Waiting == client \in {"selecting", "requesting", "renewing"}
Answering(h) == hpc[h] \in {"process", "discovered", "counted", "reply"}

Discover(h) ==
  /\ client = "init"
  /\ SendDhcp(h, Discovery, "broadcast")
  /\ client' = "selecting"
  /\ lease' = NoAddress
  /\ UNCHANGED wire

\* The request for the address that was offered has no ciaddr, and neither has the
\* request for a remembered one after a restart of the client or of its medium.
Request(h) ==
  /\ \/ client = "offered"
     \/ client = "init" /\ lease # NoAddress
  /\ SendDhcp(h, RequestOf(NoAddress), "broadcast")
  /\ client' = "requesting"
  /\ UNCHANGED <<lease, wire>>

\* A renewal goes to the MAC address the client once learned, or is broadcast.
Renew(h, dest) ==
  /\ client = "bound"
  /\ SendDhcp(h, RequestOf(lease), dest)
  /\ client' = "renewing"
  /\ UNCHANGED <<lease, wire>>

TakeOffer ==
  /\ client = "selecting"
  /\ wire.type = "offer" /\ wire.yiaddr # NoAddress
  /\ client' = "offered"
  /\ wire' = NoReply
  /\ UNCHANGED <<cfg, callVars, hpc, msg, answer, seen, lease>>

TakeAck ==
  /\ client \in {"requesting", "renewing"}
  /\ wire.type = "ack" /\ wire.yiaddr # NoAddress
  /\ client' = "bound"
  /\ lease' = wire.yiaddr
  /\ wire' = NoReply
  /\ UNCHANGED <<cfg, callVars, hpc, msg, answer, seen>>

TakeNak ==
  /\ client \in {"requesting", "renewing"}
  /\ wire.type = "nak"
  /\ client' = "init"
  /\ lease' = NoAddress
  /\ wire' = NoReply
  /\ UNCHANGED <<cfg, callVars, hpc, msg, answer, seen>>

\* A client's timers are long against a call, so that it gives up only what no
\* handler will answer; an answer without an address is no answer to it.
TimeOut ==
  /\ Waiting
  /\ \A h \in Handlers : ~Answering(h)
  /\ wire.type # "nak" /\ wire.yiaddr = NoAddress
  /\ client' = IF client = "renewing" THEN "bound" ELSE "init"
  /\ wire' = NoReply
  /\ UNCHANGED <<cfg, callVars, hpc, msg, answer, seen, lease>>

\* The lease runs out, or the client is restarted and may remember it.
Restart ==
  /\ client = "bound"
  /\ client' = "init"
  /\ lease' \in {lease, NoAddress}
  /\ UNCHANGED <<cfg, callVars, hpc, msg, answer, seen, wire>>

-----------------------------------------------------------------------------
Init ==
  /\ ConfigInit
  /\ hpc = [h \in Handlers |-> "idle"]
  /\ msg = [h \in Handlers |-> Discovery]
  /\ answer = [h \in Handlers |-> "nak"]
  /\ seen = [h \in Handlers |-> 0]
  /\ client = "init"
  /\ lease = NoAddress
  /\ wire = NoReply

Configure == ConfigNext /\ UNCHANGED dhcpVars

Handle(h) ==
  \/ ProcessDHCP(h)
  \/ \E type \in ReplyTypes : SendDHCPMsg(h, type)
  \/ SendNothing(h)
  \/ RememberDiscover(h) \/ RememberRequest(h) \/ CountBad(h)

Destinations == {"broadcast", "peer", "server"}

Send(h) ==
  \/ Discover(h) \/ Request(h)
  \/ \E dest \in Destinations : Renew(h, dest)

Next ==
  \/ Configure
  \/ \E h \in Handlers : Handle(h) \/ Send(h)
  \/ TakeOffer \/ TakeAck \/ TakeNak \/ TimeOut \/ Restart

Spec == Init /\ [][Next]_vars

\* Some handler goes on while any has begun.  A client that can send does, and broadcasts
\* its renewals in the end.  Memory is not short, nor the miniport paused, at every
\* reply of a type.  Nothing makes the application configure or close anything.
Fairness ==
  /\ WF_vars(\E h \in Handlers : Handle(h))
  /\ \A type \in ReplyTypes : SF_vars(\E h \in Handlers : SendDHCPMsg(h, type))
  /\ SF_vars(\E h \in Handlers : Discover(h) \/ Request(h) \/ Renew(h, "broadcast"))
  /\ WF_vars(TakeOffer \/ TakeAck \/ TakeNak \/ TimeOut)

FairSpec == Spec /\ Fairness

-----------------------------------------------------------------------------
(* Correctness                                                             *)

HandlerLabels == {"idle", "process", "discovered", "counted", "reply", "remember", "count"}

\* The type of every variable.
TypeOK ==
  /\ ConfigTypeOK
  /\ hpc \in [Handlers -> HandlerLabels]
  /\ msg \in [Handlers -> [type : {"discover", "request"}, ciaddr : AnyAddress]]
  /\ answer \in [Handlers -> {"offer", "ack", "nak"}]
  /\ seen \in [Handlers -> 0 .. BAD_DHCPREQUEST_NAK_THRESHOLD]
  /\ client \in {"init", "selecting", "offered", "requesting", "bound", "renewing"}
  /\ lease \in AnyAddress
  /\ wire \in [type : {"none", "offer", "ack", "nak"}, yiaddr : AnyAddress]

\* The device is open and configured for good, the options fit, and fewer bad requests
\* were counted than make the driver refuse every request until the next open.
Serving ==
  /\ file = "open" /\ Quiet
  /\ cfg.dhcp_enabled
  /\ cfg.bad_requests < BAD_DHCPREQUEST_NAK_THRESHOLD
  /\ ~Overflows("ack", cfg.options_len)

\* The client gets the configured address again and again, whatever address it had, however
\* its messages overtook the handling of earlier ones, and whatever went on in the
\* sessions before; in particular a request that overtakes the note of the discover is
\* refused once, not for ever.
ClientBound == <>[]Serving => []<>(client = "bound" /\ lease = cfg.dhcp_addr)

\* An offer or an acknowledgement that is sent while the masquerade is on carries an address,
\* although the address is read long after the answer was decided, maybe in another session:
\* only an IOCTL that a cleanup has overtaken can switch on a masquerade without one.
OffersWhole ==
  [][\A h \in Handlers, type \in {"offer", "ack"} :
       SendDHCPMsg(h, type) /\ cfg.dhcp_enabled /\ ~session.raced => wire'.yiaddr # NoAddress]_vars

\* The configuration without what the conversation notes in it.
Settings == [cfg EXCEPT !.received_discover = FALSE, !.bad_requests = 0]

Config == INSTANCE TapConfig WITH cfg <- Settings

\* Messages, in whatever order they are handled and answered, leave the configuration to the
\* application: seen without the two notes, it behaves as it does with no frame at all.
ConfigRefinement == Config!ConfigSpec

\* "How many bad DHCPREQUESTs do we receive before we return a NAK" (dhcp.h) has it that
\* fewer are not refused for being bad.  The code refuses the first one, and what it
\* does from the third one on is to refuse all.
BadRequestsTolerated ==
  \A h \in Handlers :
    hpc[h] = "reply" /\ answer[h] = "nak" /\ WrongAddress(msg[h])
      => cfg.bad_requests >= BAD_DHCPREQUEST_NAK_THRESHOLD

\* Whatever length DHCP_SET_OPT accepts, replies can be built.  They cannot: 22 bytes of
\* the buffer are the driver's own.
AcceptedOptionsFit == ~Overflows("ack", cfg.options_len)
=============================================================================
