------------------------------ MODULE Datagram ------------------------------
(* Sockets that are not streams (socket.c, syscall_net.c): UDP, raw ICMP   *)
(* and netlink sockets, the receive queues all sockets of a kind share,    *)
(* and the IPv4 configuration that netlink requests and ioctls change.     *)
(* Every call runs with interrupts masked until it sleeps; receiving       *)
(* drains the card first, which is one delivery at a time here.            *)
EXTENDS Integers, FiniteSets, FiniteSetsExt

CONSTANTS
    DSocks,        \* entries of s_sockets
    DProcs,        \* processes; the descriptors are shared by all
    UdpQueue,      \* SOCKET_UDP_QUEUE_MAX
    NetlinkQueue,  \* SOCKET_NETLINK_QUEUE_MAX
    Ports,         \* ports a program binds by number
    EphemeralLo, EphemeralHi,   \* SOCKET_UDP_EPHEMERAL_FIRST, _LAST
    Remotes,       \* remote endpoints: address and port in one
    DgramOps       \* bound: calls and deliveries

VARIABLES
    dg,      \* the static variables of socket.c and net.c
    dgProc,  \* what each process waits for
    dgLeft   \* what is left of DgramOps

dgVars == <<dg, dgProc, dgLeft>>

NoOne == "none"
UnusedSock == [kind |-> "none", state |-> "free", port |-> 0, remote |-> NoOne, reuse |-> FALSE]
NoPacket == [to |-> 0, from |-> NoOne]
NoAnswer == [owner |-> 0, about |-> {}]
Unconfigured == [ip |-> 0, mask |-> 0, gateway |-> 0]

DgInit ==
    /\ dg = [sock |-> [s \in DSocks |-> UnusedSock],
             udp |-> [i \in 1..UdpQueue |-> NoPacket],
             netlink |-> [i \in 1..NetlinkQueue |-> NoAnswer],
             raw |-> FALSE, next |-> EphemeralLo, config |-> Unconfigured]
    /\ dgProc = [p \in DProcs |-> 0]
    /\ dgLeft = DgramOps

DgCall == dgLeft > 0 /\ dgLeft' = dgLeft - 1
DgAwake(p) == dgProc[p] = 0
OpenSock(s, kind) == dg.sock[s].kind = kind
DgWake(socks) == [p \in DProcs |-> IF dgProc[p] \in socks THEN 0 ELSE dgProc[p]]
FirstOf(S) == Min(S)

-----------------------------------------------------------------------------
(* Ports.                                                                  *)

HasPort(s, port) ==
    /\ OpenSock(s, "udp") /\ dg.sock[s].port = port
    /\ dg.sock[s].state \in {"bound", "connected"}

MutUdpPortInUse(port, except) ==
    \E s \in DSocks \ {except} : HasPort(s, port) /\ ~dg.sock[except].reuse
UdpPortInUse(port, except) ==
    \E s \in DSocks \ {except} :
        HasPort(s, port) /\ ~(dg.sock[except].reuse /\ dg.sock[s].reuse)

(* The first port that is free, from the last one given out and around.    *)
Ephemeral == EphemeralLo..EphemeralHi
FromNext(port) == IF port >= dg.next THEN port - dg.next ELSE port - dg.next + 1000
UdpAllocPort(s) ==
    LET free == {port \in Ephemeral : ~UdpPortInUse(port, s)}
    IN  IF free = {} THEN 0
        ELSE CHOOSE port \in free : \A q \in free : FromNext(port) <= FromNext(q)
NextAfter(port) == IF port = EphemeralHi THEN EphemeralLo ELSE port + 1

(* socket_bind_udp; port 0 asks for one, and 0 is returned for failure.    *)
BindPort(s, port) ==
    IF port = 0 THEN UdpAllocPort(s)
    ELSE IF UdpPortInUse(port, s) THEN 0 ELSE port
DgBound(s, port, got) ==
    [dg EXCEPT !.sock[s].port = got, !.sock[s].state = "bound",
               !.next = IF port = 0 THEN NextAfter(got) ELSE @]

(* socket_udp_ensure_bound: the state after it, or dg if no port is left.  *)
EnsureBound(s) ==
    IF dg.sock[s].state = "open"
    THEN LET got == BindPort(s, 0) IN IF got = 0 THEN dg ELSE DgBound(s, 0, got)
    ELSE dg

-----------------------------------------------------------------------------
(* Creating, naming and closing sockets.                                   *)

DgSocket(p, kind) ==
    /\ DgAwake(p) /\ DgCall
    /\ LET free == {s \in DSocks : OpenSock(s, "none")}
       IN  /\ free # {}
           /\ dg' = [dg EXCEPT !.sock[FirstOf(free)] =
                         [UnusedSock EXCEPT !.kind = kind, !.state = "open"]]
    /\ UNCHANGED dgProc

DgBind(p, s, port) ==
    /\ DgAwake(p) /\ OpenSock(s, "udp") /\ dg.sock[s].state = "open" /\ DgCall
    /\ \E got \in {BindPort(s, port)} : got # 0 /\ dg' = DgBound(s, port, got)
    /\ UNCHANGED dgProc

BindNetlink(p, s) ==
    /\ DgAwake(p) /\ OpenSock(s, "netlink") /\ dg.sock[s].state = "open" /\ DgCall
    /\ dg' = [dg EXCEPT !.sock[s].state = "bound"]
    /\ UNCHANGED dgProc

ConnectUdp(p, s, r) ==
    /\ DgAwake(p) /\ OpenSock(s, "udp") /\ DgCall
    /\ EnsureBound(s).sock[s].state # "open"
    /\ dg' = [EnsureBound(s) EXCEPT !.sock[s].remote = r, !.sock[s].state = "connected"]
    /\ UNCHANGED dgProc

SetReuseAddr(p, s) ==
    /\ DgAwake(p) /\ OpenSock(s, "udp") /\ ~dg.sock[s].reuse /\ DgCall
    /\ dg' = [dg EXCEPT !.sock[s].reuse = TRUE]
    /\ UNCHANGED dgProc

(* socket_release of the last reference.  A netlink answer goes with its   *)
(* socket; datagrams stay in the queue until a socket with their port      *)
(* reads them.                                                             *)
CloseDgram(p, s) ==
    /\ DgAwake(p) /\ ~OpenSock(s, "none") /\ DgCall
    /\ dg' = [dg EXCEPT !.sock[s] = UnusedSock,
                        !.netlink = [i \in DOMAIN @ |->
                            IF @[i].owner = s THEN NoAnswer ELSE @[i]]]
    /\ dgProc' = DgWake({s})

-----------------------------------------------------------------------------
(* Datagrams.                                                              *)

(* A connected socket takes what its peer sends, and a bound one on the    *)
(* same port only what no connected one takes.                             *)
PacketMatches(d, s, pkt) ==
    /\ pkt # NoPacket /\ d.sock[s].kind = "udp"
    /\ d.sock[s].port # 0 /\ pkt.to = d.sock[s].port
    /\ CASE d.sock[s].state = "connected" -> pkt.from = d.sock[s].remote
         [] d.sock[s].state = "bound" ->
                ~ \E o \in DSocks \ {s} :
                    /\ d.sock[o].kind = "udp" /\ d.sock[o].state = "connected"
                    /\ d.sock[o].port = d.sock[s].port
                    /\ d.sock[o].remote = pkt.from
         [] OTHER -> TRUE

(* socket_udp_deliver: dropped when no socket listens or no slot is free.  *)
UdpDeliver(port, from) ==
    /\ \E s \in DSocks :
          HasPort(s, port) /\ (dg.sock[s].state = "connected" => dg.sock[s].remote = from)
    /\ DgCall
    /\ LET slots == {i \in 1..UdpQueue : dg.udp[i] = NoPacket}
           d == [dg EXCEPT !.udp[FirstOf(slots)] = [to |-> port, from |-> from]]
       IN  /\ slots # {}
           /\ dg' = d
           /\ dgProc' = DgWake({s \in DSocks : PacketMatches(d, s, d.udp[FirstOf(slots)])})

UdpReady(s) == {i \in 1..UdpQueue : PacketMatches(dg, s, dg.udp[i])}

(* The first slot that matches is read; a peek leaves it there.            *)
UdpTake(s, peek) ==
    IF peek THEN dg ELSE [dg EXCEPT !.udp[FirstOf(UdpReady(s))] = NoPacket]
UdpRecv(p, s, peek) ==
    /\ DgAwake(p) /\ OpenSock(s, "udp") /\ DgCall
    /\ UdpReady(s) # {}
    /\ dg' = UdpTake(s, peek)
    /\ UNCHANGED dgProc

(* socket_raw_icmp_deliver keeps the last ICMP packet, for every raw       *)
(* socket and whether or not there is one.                                 *)
RawDeliver ==
    /\ ~dg.raw /\ DgCall
    /\ dg' = [dg EXCEPT !.raw = TRUE]
    /\ dgProc' = DgWake({s \in DSocks : OpenSock(s, "raw")})
RawRecv(p, s) ==
    /\ DgAwake(p) /\ OpenSock(s, "raw") /\ dg.raw /\ DgCall
    /\ dg' = [dg EXCEPT !.raw = FALSE]
    /\ UNCHANGED dgProc

NetlinkSlots(s) == {i \in 1..NetlinkQueue : dg.netlink[i].owner = s}
NetlinkTake(s, peek) ==
    IF peek THEN dg ELSE [dg EXCEPT !.netlink[FirstOf(NetlinkSlots(s))] = NoAnswer]
NetlinkRecv(p, s, peek) ==
    /\ DgAwake(p) /\ OpenSock(s, "netlink") /\ NetlinkSlots(s) # {} /\ DgCall
    /\ dg' = NetlinkTake(s, peek)
    /\ UNCHANGED dgProc

(* Nothing to receive: the process joins the read queue of the socket and  *)
(* sleeps until a delivery or a close wakes it; it then looks again.       *)
DgReady(s) ==
    CASE dg.sock[s].kind = "udp"     -> UdpReady(s) # {}
      [] dg.sock[s].kind = "raw"     -> dg.raw
      [] dg.sock[s].kind = "netlink" -> NetlinkSlots(s) # {}
RecvWaits(p, s) ==
    /\ DgAwake(p) /\ ~OpenSock(s, "none") /\ ~DgReady(s)
    /\ dgProc' = [dgProc EXCEPT ![p] = s]
    /\ UNCHANGED <<dg, dgLeft>>

(* recv and recvfrom, by the kind of the socket.                           *)
Recvfrom(p, s, peek) ==
    \/ UdpRecv(p, s, peek)
    \/ NetlinkRecv(p, s, peek)
    \/ ~peek /\ RawRecv(p, s)
    \/ ~peek /\ RecvWaits(p, s)

(* sys_udp_send_socket: an unbound socket gets a port even if the datagram *)
(* then fails for want of a route.                                         *)
UdpSend(p, s) ==
    /\ DgAwake(p) /\ OpenSock(s, "udp") /\ dg.config.ip # 0 /\ DgCall
    /\ dg' = EnsureBound(s)
    /\ UNCHANGED dgProc

-----------------------------------------------------------------------------
(* Configuration.  An address of 0 makes the interface unconfigured; the   *)
(* mask and gateway stay.                                                  *)

Configured == dg.config.ip # 0
NetConfigure(ip, mask, gateway) == [ip |-> ip, mask |-> mask, gateway |-> gateway]
DefaultMask == IF dg.config.mask = 0 THEN 24 ELSE dg.config.mask

(* net_apply_ifreq_setter, net_ioctl_route and SYS_NET_OP: the             *)
(* configuration each request leaves, for a value v where it takes one.    *)
IfreqSetter(req, v) ==
    CASE req = "address" -> NetConfigure(v, DefaultMask, dg.config.gateway)
      [] req = "netmask" -> NetConfigure(dg.config.ip, v, dg.config.gateway)
      [] OTHER -> dg.config
IoctlRoute(req, v) ==
    CASE ~Configured -> dg.config
      [] req = "add gateway" -> [dg.config EXCEPT !.gateway = v]
      [] req = "delete gateway" -> [dg.config EXCEPT !.gateway = 0]
NetOp(req, v) == IF req = "configure" THEN NetConfigure(v, v, v) ELSE Unconfigured
IfreqRequests == {"address", "netmask", "flags"}
RouteRequests == {"add gateway", "delete gateway"}
Ioctl(p, req, v) ==
    /\ DgAwake(p) /\ DgCall
    /\ dg' = [dg EXCEPT !.config =
                  IF req \in IfreqRequests THEN IfreqSetter(req, v)
                  ELSE IF req \in RouteRequests THEN IoctlRoute(req, v)
                  ELSE NetOp(req, v)]
    /\ UNCHANGED dgProc

(* nl_apply_addr and nl_apply_route: the configuration a netlink request   *)
(* leaves.  Deleting an address that is not the interface's is refused.    *)
ApplyAddr(req, v) ==
    CASE req = "new address" -> NetConfigure(v, v, dg.config.gateway)
      [] req = "delete address" ->
             IF v = dg.config.ip THEN [dg.config EXCEPT !.ip = 0, !.mask = DefaultMask]
                                 ELSE dg.config
ApplyRoute(req, v) ==
    CASE ~Configured -> dg.config
      [] req = "new route" -> [dg.config EXCEPT !.gateway = v]
      [] req = "delete route" -> [dg.config EXCEPT !.gateway = 0]

AddrRequests == {"new address", "delete address"}
NlRouteRequests == {"new route", "delete route"}
DumpRequests == {"links", "addresses", "routes", "neighbours"}

(* What an answer lists: the two links, the addresses, the route to the    *)
(* network and the one through the gateway, under the configuration c; an  *)
(* acknowledgement for a request that changes something.                   *)
PutLinks == {<<"eth0", 0>>, <<"lo", 0>>}
PutAddrs(c) == {<<"lo", 0>>} \union (IF c.ip = 0 THEN {} ELSE {<<"eth0", c.ip>>})
PutRoutes(c) ==
    IF c.ip = 0 THEN {}
    ELSE {<<"network", mask>> : mask \in {c.mask} \ {0}}
         \union {<<"default", g>> : g \in {c.gateway} \ {0}}
Answer(req, c) ==
    CASE req = "links"     -> PutLinks
      [] req = "addresses" -> PutAddrs(c)
      [] req = "routes"    -> PutRoutes(c)
      [] OTHER             -> {<<"ack", 0>>}

(* sys_netlink_send_user: the request takes effect, then its answer is     *)
(* queued, in the slot the socket already has if it has not read it, else  *)
(* in a free one; without a slot the call fails, the effect remains.       *)
BuildResponse(req, v) ==
    CASE req \in AddrRequests -> [dg EXCEPT !.config = ApplyAddr(req, v)]
      [] req \in NlRouteRequests -> [dg EXCEPT !.config = ApplyRoute(req, v)]
      [] OTHER -> dg
NetlinkSlot(s) ==
    IF NetlinkSlots(s) # {} THEN NetlinkSlots(s)
    ELSE {i \in 1..NetlinkQueue : dg.netlink[i] = NoAnswer}
NetlinkSend(p, s, req, v) ==
    /\ DgAwake(p) /\ OpenSock(s, "netlink") /\ DgCall
    /\ IF NetlinkSlot(s) = {}
       THEN dg' = BuildResponse(req, v) /\ UNCHANGED dgProc
       ELSE /\ dg' = [BuildResponse(req, v) EXCEPT
                         !.netlink[FirstOf(NetlinkSlot(s))] = [owner |-> s, about |-> Answer(req, dg.config)]]
            /\ dgProc' = DgWake({s})

DgNext ==
    \/ \E p \in DProcs :
          \/ \E kind \in {"udp", "raw", "netlink"} : DgSocket(p, kind)
          \/ \E req \in IfreqRequests \union RouteRequests \union {"configure", "clear"},
                v \in 1..2 : Ioctl(p, req, v)
          \/ \E s \in DSocks :
                \/ \E port \in Ports \union {0} : DgBind(p, s, port)
                \/ BindNetlink(p, s)
                \/ \E r \in Remotes : ConnectUdp(p, s, r)
                \/ SetReuseAddr(p, s)
                \/ CloseDgram(p, s)
                \/ \E peek \in BOOLEAN : Recvfrom(p, s, peek)
                \/ UdpSend(p, s)
                \/ \E req \in AddrRequests \union NlRouteRequests \union DumpRequests,
                      v \in 1..2 : NetlinkSend(p, s, req, v)
    \/ \E port \in Ports \union Ephemeral, r \in Remotes : UdpDeliver(port, r)
    \/ RawDeliver

DgSpec == DgInit /\ [][DgNext]_dgVars

-----------------------------------------------------------------------------
(* Two UDP sockets have the same port only if both asked for sharing with  *)
(* SO_REUSEADDR, whichever of bind, connect, sendto and setsockopt came    *)
(* first on each.                                                          *)
PortsExclusive ==
    \A s, t \in DSocks :
        s # t /\ (\E port \in Ports \union Ephemeral : HasPort(s, port) /\ HasPort(t, port))
            => dg.sock[s].reuse /\ dg.sock[t].reuse

(* A queued netlink answer belongs to an open netlink socket that sent the *)
(* request, so no later socket reads another's answer and a closed one     *)
(* leaves no slot occupied.                                                *)
AnswersOwned ==
    \A i \in 1..NetlinkQueue :
        dg.netlink[i].owner # 0 => OpenSock(dg.netlink[i].owner, "netlink")
=============================================================================
