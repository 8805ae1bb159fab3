-------------------------------- MODULE Lan ---------------------------------
(* The protocols below the sockets: receiving frames (net.c), ARP (arp.c), *)
(* ping (ipv4.c), the DHCP client (dhcp.c) and NTP (ntp.c).  Each protocol *)
(* keeps one set of static variables, whoever calls it, and each caller    *)
(* waits by polling the card itself: net_poll_once hands whatever frame    *)
(* comes next to its handler, on behalf of all of them.                    *)
(*                                                                         *)
(* A caller inside a system call runs with interrupts masked except in     *)
(* "sti; hlt; cli", which it executes when a poll finds nothing; the boot  *)
(* task starts with interrupts on and leaves them masked after its first   *)
(* such wait; the TCP task always runs with interrupts on.  cpu names the  *)
(* task that runs masked, so that no other task takes a step.              *)
(*                                                                         *)
(* The module holds two state machines: the cards (nicVars), which take    *)
(* and give frames, and the protocols (lanVars), which share them.         *)
EXTENDS Integers, Sequences, SequencesExt, FiniteSets

(* The network cards: choosing the driver (nic.c), and the transmit and    *)
(* receive rings of e1000.c and rtl8139.c, with the card at the other end  *)
(* of each.  Frames are numbered in the order they are handed over.        *)
(*                                                                         *)
(* Sends are made by system calls, with interrupts masked, and by the TCP  *)
(* task, which a system call may interrupt between any two of its steps.   *)
(* Receptions are serialised by net_poll_once (below).                     *)

CONSTANTS
    TxRing,       \* E1000_TX_DESC_COUNT, RTL8139_TX_DESC_COUNT
    RxRing,       \* E1000_RX_DESC_COUNT
    RxBytes,      \* RTL8139_RX_BUF_SIZE, in the units of PacketLens
    PacketLens,   \* lengths a received packet takes with its header
    MaxTx,        \* bound: frames sent
    MaxRx         \* bound: frames the card receives

VARIABLES
    nic,       \* driver variables
    card,      \* registers and buffers the card works on
    txTask,    \* the TCP task inside a send
    nicLog     \* frames accepted, sent, stored and received

nicVars == <<nic, card, txTask, nicLog>>

Slots == 0..(TxRing - 1)
Descs == 0..(RxRing - 1)

-----------------------------------------------------------------------------
(* e1000_alloc_rings and rtl8139_alloc_buffers: the blocks allocated, with *)
(* got those the page allocator has room for; all of them or none is kept. *)
AllocAll(blocks, got) == IF got = blocks THEN blocks ELSE {}

E1000Blocks == {"rx desc", "tx desc", "rx buf", "tx buf"}
RtlBlocks == {"rx", "tx"}

E1000SetupRings ==
    [tail |-> 0, head |-> 0,
     dd |-> [i \in Slots |-> TRUE], tx |-> [i \in Slots |-> 0], tdh |-> 0, tdt |-> 0,
     full |-> [i \in Descs |-> FALSE], rx |-> [i \in Descs |-> 0],
     rdh |-> 0, rdt |-> RxRing - 1]

RtlSetup ==
    [tail |-> 0, head |-> 0, own |-> [i \in Slots |-> FALSE],
     tx |-> [i \in Slots |-> 0], next |-> 0,
     ring |-> <<>>, cbr |-> 0, capr |-> 0]

(* The driver fields of the two records above go to nic, the rest to card. *)
Start(driver, held, r) ==
    /\ nic = [driver |-> driver, held |-> held, tail |-> r.tail, head |-> r.head]
    /\ card = r

(* nic_init: e1000 first, then rtl8139; each fails when its card is absent *)
(* or memory is short, rtl8139 also when its reset does not finish.        *)
NicInit ==
    /\ \E e, r \in BOOLEAN, ge \in SUBSET E1000Blocks, gr \in SUBSET RtlBlocks :
          LET e1000 == e /\ AllocAll(E1000Blocks, ge) # {}
              rtl == r /\ AllocAll(RtlBlocks, gr) # {}
          IN  IF e1000 THEN Start("e1000", E1000Blocks, E1000SetupRings)
              ELSE IF rtl THEN Start("rtl8139", RtlBlocks, RtlSetup)
              ELSE Start("none", AllocAll(E1000Blocks, {}), RtlSetup)
    /\ txTask = [pc |-> "idle", next |-> 0, frame |-> 0]
    /\ nicLog = [asked |-> 0, accepted |-> <<>>, sent |-> <<>>, stored |-> 0, received |-> <<>>]

-----------------------------------------------------------------------------
(* Sending.                                                                *)

After(i, n) == (i + 1) % n
NextFrame == nicLog.asked + 1
MaySend == nicLog.asked < MaxTx

(* The descriptor is free: only the e1000 driver looks.                    *)
TxFree(i) == IF nic.driver = "e1000" THEN card.dd[i] ELSE TRUE

(* Writing the descriptor and the tail register.                           *)
E1000Queue(i) == [card EXCEPT !.dd[i] = FALSE, !.tdt = After(i, TxRing)]
RtlQueue(i) == [card EXCEPT !.own[i] = TRUE]
Queue(i) == IF nic.driver = "e1000" THEN E1000Queue(i) ELSE RtlQueue(i)

NicSend ==
    /\ MaySend /\ nic.driver # "none"
    /\ \/ /\ TxFree(nic.tail)
          /\ card' = [Queue(nic.tail) EXCEPT !.tx[nic.tail] = NextFrame]
          /\ nic' = [nic EXCEPT !.tail = After(@, TxRing)]
          /\ nicLog' = [nicLog EXCEPT !.asked = @ + 1,
                                      !.accepted = Append(@, NextFrame)]
       \/ /\ ~TxFree(nic.tail)
          /\ nicLog' = [nicLog EXCEPT !.asked = @ + 1]
          /\ UNCHANGED <<nic, card>>
    /\ UNCHANGED txTask

(* The same by the TCP task, one access to the shared state at a time.     *)
TaskChecks ==
    /\ txTask.pc = "idle" /\ MaySend /\ nic.driver # "none"
    /\ nicLog' = [nicLog EXCEPT !.asked = @ + 1]
    /\ txTask' = [pc |-> IF TxFree(nic.tail) THEN "copy" ELSE "idle",
                  next |-> nic.tail, frame |-> NextFrame]
    /\ UNCHANGED <<nic, card>>
TaskCopies ==
    /\ txTask.pc = "copy"
    /\ card' = [card EXCEPT !.tx[txTask.next] = txTask.frame]
    /\ txTask' = [txTask EXCEPT !.pc = "queue"]
    /\ UNCHANGED <<nic, nicLog>>
TaskQueues ==
    /\ txTask.pc = "queue"
    /\ card' = Queue(txTask.next)
    /\ nic' = [nic EXCEPT !.tail = After(txTask.next, TxRing)]
    /\ nicLog' = [nicLog EXCEPT !.accepted = Append(@, txTask.frame)]
    /\ txTask' = [pc |-> "idle", next |-> 0, frame |-> 0]

(* The card sends the descriptors up to the tail (e1000), or the one whose *)
(* turn it is once its status was written (rtl8139).                       *)
CardSends ==
    /\ \/ /\ nic.driver = "e1000" /\ card.tdh # card.tdt
          /\ nicLog' = [nicLog EXCEPT !.sent = Append(@, card.tx[card.tdh])]
          /\ card' = [card EXCEPT !.dd[card.tdh] = TRUE, !.tdh = After(@, TxRing)]
       \/ /\ nic.driver = "rtl8139" /\ card.own[card.next]
          /\ nicLog' = [nicLog EXCEPT !.sent = Append(@, card.tx[card.next])]
          /\ card' = [card EXCEPT !.own[card.next] = FALSE, !.next = After(@, TxRing)]
    /\ UNCHANGED <<nic, txTask>>

-----------------------------------------------------------------------------
(* Receiving.                                                              *)

Arrives == nicLog.stored < MaxRx
Stored == nicLog' = [nicLog EXCEPT !.stored = @ + 1]

(* The card stores a frame in the next descriptor it owns.                 *)
E1000Stores ==
    /\ nic.driver = "e1000" /\ Arrives /\ card.rdh # card.rdt
    /\ card' = [card EXCEPT !.full[card.rdh] = TRUE,
                            !.rx[card.rdh] = nicLog.stored + 1,
                            !.rdh = After(@, RxRing)]
    /\ Stored
    /\ UNCHANGED <<nic, txTask>>

E1000Recv ==
    /\ nic.driver = "e1000" /\ card.full[nic.head]
    /\ nicLog' = [nicLog EXCEPT !.received = Append(@, card.rx[nic.head])]
    /\ card' = [card EXCEPT !.full[nic.head] = FALSE, !.rdt = nic.head]
    /\ nic' = [nic EXCEPT !.head = After(@, RxRing)]
    /\ UNCHANGED txTask

(* The rtl8139 card writes packets one after the other in a ring of bytes; *)
(* ring holds those the driver has not consumed, with where each starts.   *)
(* A packet that leaves no room before the reader is dropped.  One in      *)
(* error is stored too, and counted, but not received.                     *)
Used == FoldLeft(LAMBDA n, p : n + p.len, 0, card.ring)
RtlStores(len, ok) ==
    /\ nic.driver = "rtl8139" /\ Arrives /\ Used + len < RxBytes
    /\ card' = [card EXCEPT
           !.ring = Append(@, [frame |-> nicLog.stored + 1, ok |-> ok, len |-> len,
                               at |-> card.cbr]),
           !.cbr = (@ + len) % RxBytes]
    /\ Stored
    /\ UNCHANGED <<nic, txTask>>

(* The driver reads the header at its own offset, and moves that offset    *)
(* and CAPR past the packet, whether or not it was in order.               *)
RtlRecv ==
    /\ nic.driver = "rtl8139" /\ card.ring # <<>>
    /\ LET p == Head(card.ring)
           next == (nic.head + p.len) % RxBytes
       IN  /\ nic' = [nic EXCEPT !.head = next]
           /\ card' = [card EXCEPT !.ring = Tail(@), !.capr = next]
           /\ nicLog' = IF p.ok /\ p.at = nic.head
                        THEN [nicLog EXCEPT !.received = Append(@, p.frame)]
                        ELSE nicLog
    /\ UNCHANGED txTask

NicNext ==
    \/ NicSend \/ TaskChecks \/ TaskCopies \/ TaskQueues \/ CardSends
    \/ E1000Stores \/ E1000Recv \/ RtlRecv
    \/ \E len \in PacketLens, ok \in BOOLEAN : RtlStores(len, ok)

NicSpec == NicInit /\ [][NicNext]_nicVars

-----------------------------------------------------------------------------
(* Received frames keep the order in which the card stored them and none  *)
(* is delivered twice, and a driver that has read every frame has given    *)
(* the card a descriptor to store the next one in.                         *)
RxRingSound ==
    /\ \A i \in 1..(Len(nicLog.received) - 1) :
           nicLog.received[i] < nicLog.received[i + 1]
    /\ nic.driver = "e1000" =>
           ((\A i \in Descs : ~card.full[i]) => card.rdh # card.rdt)

-----------------------------------------------------------------------------
(* The protocols.                                                          *)

CONSTANTS
    Servers,        \* DHCP servers; each leases its own network's address
    Stations,       \* hosts that answer ARP, echo and NTP requests
    Callers,        \* processes that make the calls
    BootTask,       \* bootnet: DHCP, then NTP through the gateway
    NetTask,        \* the TCP task, which polls the card
    DhcpAttempts,   \* DHCP_ATTEMPTS
    PingAttempts,   \* IPV4_PING_ATTEMPTS
    LanCalls,       \* bound: calls the processes make
    LanFaults       \* bound: frames lost or repeated, sends refused

VARIABLES
    lan,       \* the static variables of the drivers
    air,       \* frames on their way to the card
    task,      \* where each task is
    cpu,       \* the task running with interrupts masked, or Nobody
    lanLeft    \* what is left of LanCalls and LanFaults

lanVars == <<lan, air, task, cpu, lanLeft>>

Nobody == "nobody"
NoAddr == "none"
Workers == Callers \union {BootTask}
LanTasks == Workers \union {NetTask}

Frame(type, from, to, xid) == [type |-> type, from |-> from, to |-> to, xid |-> xid]
NoFrame == Frame("none", NoAddr, NoAddr, 0)

AtRest == [pc |-> "idle", call |-> "none", peer |-> NoAddr, then |-> "none",
           mine |-> NoAddr, tries |-> 0, irqs |-> FALSE, took |-> NoFrame]
NoLease == [ip |-> NoAddr, opts |-> NoAddr]

LanInit ==
    /\ lan = [locked |-> FALSE, frame |-> NoFrame,
              cache |-> [mine |-> NoAddr, ip |-> NoAddr], config |-> NoLease,
              dhcp |-> [waiting |-> FALSE, type |-> "none", offered |-> NoAddr,
                        acked |-> NoAddr, opts |-> NoAddr, xid |-> 0],
              ping |-> [waiting |-> FALSE, got |-> FALSE, mine |-> NoAddr,
                        peer |-> NoAddr],
              ntp |-> [waiting |-> FALSE, got |-> FALSE, peer |-> NoAddr]]
    /\ air = {}
    /\ task = [t \in LanTasks |->
                  [AtRest EXCEPT !.irqs = t \notin Callers,
                                 !.pc = IF t = BootTask THEN "boot" ELSE "idle"]]
    /\ cpu = Nobody
    /\ lanLeft = [calls |-> LanCalls, faults |-> LanFaults]

-----------------------------------------------------------------------------
(* The handlers of a frame.                                                *)

(* A reply replaces the only entry of the cache, asked for or not.  A      *)
(* request for the local address is answered, which changes nothing here.  *)
ArpHandleFrame(n, f) ==
    IF f.type = "arp reply" THEN [n EXCEPT !.cache = [mine |-> f.to, ip |-> f.from]]
                            ELSE n

ArpLookup(n, mine, ip) == n.cache = [mine |-> mine, ip |-> ip]

(* Every ping uses the same identifier and sequence number, so the two     *)
(* addresses are all that tells replies apart.                             *)
ParseEchoReply(n, f) ==
    f.type = "echo reply" /\ f.from = n.ping.peer /\ f.to = n.ping.mine

IpHandleFrame(n, f) ==
    IF n.ping.waiting /\ ParseEchoReply(n, f) THEN [n EXCEPT !.ping.got = TRUE] ELSE n

(* Server s leases the address s with the options s: everything in a reply *)
(* but its address goes to one set of variables, offer or acknowledgement. *)
MutDhcpHandleFrame(n, f) ==
    IF n.dhcp.waiting /\ f.type \in {"offer", "ack"} /\ f.xid = n.dhcp.xid
    THEN [n EXCEPT !.dhcp.type = IF @ = "ack" THEN @ ELSE f.type,
                   !.dhcp.offered = IF f.type = "offer" THEN f.from ELSE @,
                   !.dhcp.acked = IF f.type = "ack" THEN f.from ELSE @,
                   !.dhcp.opts = f.from]
    ELSE n
DhcpHandleFrame(n, f) ==
    IF n.dhcp.waiting /\ f.type \in {"offer", "ack"} /\ f.xid = n.dhcp.xid
    THEN [n EXCEPT !.dhcp.type = f.type,
                   !.dhcp.offered = IF f.type = "offer" THEN f.from ELSE @,
                   !.dhcp.acked = IF f.type = "ack" THEN f.from ELSE @,
                   !.dhcp.opts = f.from]
    ELSE n

NtpHandleFrame(n, f) ==
    IF n.ntp.waiting /\ f.type = "time" /\ f.from = n.ntp.peer /\ f.to = n.config.ip
    THEN [n EXCEPT !.ntp.got = TRUE]
    ELSE n

Dispatch(n, f) ==
    CASE f.type \in {"arp reply", "arp request"} -> ArpHandleFrame(n, f)
      [] f.type = "echo reply"      -> IpHandleFrame(n, f)
      [] f.type \in {"offer", "ack"} -> DhcpHandleFrame(n, f)
      [] OTHER                      -> NtpHandleFrame(n, f)

-----------------------------------------------------------------------------
(* The requests: what each makes the network answer.                       *)

ArpSendRequest(mine, ip) ==
    IF ip \in Stations THEN {Frame("arp reply", ip, mine, 0)} ELSE {}
BuildEchoRequest(mine, ip) ==
    IF ip \in Stations THEN {Frame("echo reply", ip, mine, 0)} ELSE {}
BuildDiscover(xid) == {Frame("offer", s, NoAddr, xid) : s \in Servers}
BuildRequest(xid, s) == {Frame("ack", s, NoAddr, xid)}
NtpBuildRequest(mine, ip) ==
    IF ip \in Stations THEN {Frame("time", ip, mine, 0)} ELSE {}

-----------------------------------------------------------------------------
(* Steps.                                                                  *)

Runs(t) == cpu \in {Nobody, t}
Fault == lanLeft.faults > 0 /\ lanLeft' = [lanLeft EXCEPT !.faults = @ - 1]

(* t goes on at pc, and no other task runs before it waits if it is masked. *)
Goto(t, at) ==
    /\ task' = [task EXCEPT ![t] = at]
    /\ cpu' = IF at.irqs THEN Nobody ELSE t

At(t, pc) == [task[t] EXCEPT !.pc = pc]

(* The call returns to user space; the boot task goes on with NTP when     *)
(* DHCP bound an address, and to rest after that.                          *)
LanReturn(t, ok) ==
    /\ cpu' = Nobody
    /\ task' = [task EXCEPT ![t] =
           IF t = BootTask /\ task[t].call = "dhcp" /\ ok
           THEN [AtRest EXCEPT !.pc = "sync", !.irqs = task[t].irqs]
           ELSE [AtRest EXCEPT !.irqs = FALSE]]

(* nic_send with the answers the frame brings; or the card refuses it.     *)
LanSends(answers) == air' = air \union answers /\ UNCHANGED lanLeft
LanRefused == Fault /\ UNCHANGED air

(* net_poll_once by a masked task: lock, receive, handle and unlock with   *)
(* nothing in between.  The frame stays in the air when it is repeated.    *)
MutPollOnce(t, f, again) ==
    /\ Runs(t) /\ ~task[t].irqs
    /\ f \in air
    /\ lan' = [Dispatch(lan, f) EXCEPT !.frame = f]
    /\ \/ ~again /\ air' = air \ {f} /\ UNCHANGED lanLeft
       \/ again /\ Fault /\ UNCHANGED air
    /\ Goto(t, task[t])
PollOnce(t, f, again) ==
    /\ Runs(t) /\ ~task[t].irqs /\ ~lan.locked
    /\ f \in air
    /\ lan' = [Dispatch(lan, f) EXCEPT !.frame = f]
    /\ \/ ~again /\ air' = air \ {f} /\ UNCHANGED lanLeft
       \/ again /\ Fault /\ UNCHANGED air
    /\ Goto(t, task[t])

(* The same with interrupts on: other tasks run between the reception and  *)
(* the handling.                                                           *)
PollReceives(t, f) ==
    /\ Runs(t) /\ task[t].irqs /\ ~lan.locked
    /\ f \in air
    /\ air' = air \ {f}
    /\ lan' = [lan EXCEPT !.locked = TRUE, !.frame = f]
    /\ task' = [task EXCEPT ![t].took = f]
    /\ UNCHANGED <<cpu, lanLeft>>
PollHandles(t) ==
    /\ Runs(t) /\ task[t].took # NoFrame
    /\ lan' = [Dispatch(lan, lan.frame) EXCEPT !.locked = FALSE]
    /\ task' = [task EXCEPT ![t].took = NoFrame]
    /\ UNCHANGED <<air, cpu, lanLeft>>

(* The poll finds no frame, or the lock taken: sti; hlt; cli.              *)
Waiting(t) == task[t].pc \in {"arp", "offer", "ack", "echo", "time"}
LanHalts(t) ==
    /\ Runs(t) /\ Waiting(t) /\ task[t].took = NoFrame
    /\ task' = [task EXCEPT ![t].irqs = FALSE]
    /\ cpu' = Nobody
    /\ UNCHANGED <<lan, air, lanLeft>>

Ready(t, pc) == Runs(t) /\ task[t].pc = pc /\ task[t].took = NoFrame

(* arp_resolve: the cache, or a request and up to ARP_MAX_POLL_COUNT polls. *)
ArpResolve(t, mine, ip, call, peer, then) ==
    LET at == [task[t] EXCEPT !.call = call, !.peer = peer, !.mine = mine,
                              !.then = then, !.tries = 0]
    IN  \/ /\ ArpLookup(lan, mine, ip)
           /\ Goto(t, [at EXCEPT !.pc = then])
           /\ UNCHANGED <<lan, air>>
        \/ /\ ~ArpLookup(lan, mine, ip)
           /\ Goto(t, [at EXCEPT !.pc = "arp"])
           /\ air' = air \union ArpSendRequest(mine, ip)
           /\ UNCHANGED lan
Hop(t) == IF task[t].call = "ntp" THEN lan.config.opts ELSE task[t].peer
ArpFound(t) ==
    /\ Ready(t, "arp") /\ ArpLookup(lan, task[t].mine, Hop(t))
    /\ IF task[t].then = "done" THEN LanReturn(t, TRUE)
                               ELSE Goto(t, At(t, task[t].then))
    /\ UNCHANGED <<lan, air, lanLeft>>
ArpGivesUp(t) ==
    /\ Ready(t, "arp") /\ ~ArpLookup(lan, task[t].mine, Hop(t))
    /\ LanReturn(t, FALSE)
    /\ UNCHANGED <<lan, air, lanLeft>>

(* SYS_NET_OP: the route is looked up first, and needs a configured        *)
(* address.  A station is on the local network.                            *)
Calls(t, pc) ==
    /\ Ready(t, pc) /\ cpu = Nobody
    /\ IF t = BootTask THEN UNCHANGED lanLeft
       ELSE /\ lanLeft.calls > 0
            /\ lanLeft' = [lanLeft EXCEPT !.calls = @ - 1]
PingCall(t, ip) ==
    /\ t \in Callers /\ Calls(t, "idle") /\ lan.config.ip # NoAddr
    /\ ArpResolve(t, lan.config.ip, ip, "ping", ip, "echo send")
ArpCall(t, ip) ==
    /\ t \in Callers /\ Calls(t, "idle") /\ lan.config.ip # NoAddr
    /\ ~ArpLookup(lan, lan.config.ip, ip)
    /\ ArpResolve(t, lan.config.ip, ip, "arp", ip, "done")
(* ntp_sync goes through the gateway, which is the server that leased the  *)
(* address.                                                                *)
NtpCall(t, ip) ==
    /\ \/ t \in Callers /\ Calls(t, "idle")
       \/ t = BootTask /\ Calls(t, "sync") /\ ip = lan.config.opts
    /\ lan.config.ip # NoAddr
    /\ ArpResolve(t, lan.config.ip, lan.config.opts, "ntp", ip, "time send")

(* ipv4_ping_via_gateway after the address is resolved.                    *)
EchoSend(t) ==
    /\ Ready(t, "echo send")
    /\ \/ /\ LanSends(BuildEchoRequest(task[t].mine, task[t].peer))
          /\ lan' = [lan EXCEPT !.ping = [waiting |-> TRUE, got |-> FALSE,
                                   mine |-> task[t].mine, peer |-> task[t].peer]]
          /\ Goto(t, At(t, "echo"))
       \/ /\ LanRefused
          /\ lan' = [lan EXCEPT !.ping = [waiting |-> FALSE, got |-> FALSE,
                                   mine |-> task[t].mine, peer |-> task[t].peer]]
          /\ LanReturn(t, FALSE)
EchoAnswered(t) ==
    /\ Ready(t, "echo") /\ lan.ping.got
    /\ lan' = [lan EXCEPT !.ping.waiting = FALSE]
    /\ LanReturn(t, TRUE)
    /\ UNCHANGED <<air, lanLeft>>
EchoTimesOut(t) ==
    /\ Ready(t, "echo") /\ cpu = Nobody
    /\ lan' = [lan EXCEPT !.ping.waiting = FALSE]
    /\ IF task[t].tries + 1 < PingAttempts
       THEN Goto(t, [At(t, "echo send") EXCEPT !.tries = @ + 1])
       ELSE LanReturn(t, FALSE)
    /\ UNCHANGED <<air, lanLeft>>

(* ntp_sync after the gateway is resolved.                                 *)
TimeSend(t) ==
    /\ Ready(t, "time send")
    /\ \/ /\ LanSends(NtpBuildRequest(lan.config.ip, task[t].peer))
          /\ lan' = [lan EXCEPT !.ntp = [waiting |-> TRUE, got |-> FALSE,
                                         peer |-> task[t].peer]]
          /\ Goto(t, At(t, "time"))
       \/ /\ LanRefused
          /\ lan' = [lan EXCEPT !.ntp = [waiting |-> FALSE, got |-> FALSE,
                                         peer |-> task[t].peer]]
          /\ LanReturn(t, FALSE)
TimeEnds(t) ==
    /\ Ready(t, "time")
    /\ \/ lan.ntp.got
       \/ cpu = Nobody      \* the deadline passed
    /\ lan' = [lan EXCEPT !.ntp.waiting = FALSE]
    /\ LanReturn(t, TRUE)
    /\ UNCHANGED <<air, lanLeft>>

(* dhcp_configure clears the configuration and takes the tick count as its *)
(* transaction number: two calls in one tick use the same.                 *)
DhcpCall(t, xid) ==
    /\ \/ t \in Callers /\ Calls(t, "idle")
       \/ t = BootTask /\ Calls(t, "boot")
    /\ xid \in {lan.dhcp.xid, lan.dhcp.xid + 1}
    /\ lan' = [lan EXCEPT !.config = NoLease, !.dhcp.xid = xid]
    /\ Goto(t, [At(t, "discover") EXCEPT !.call = "dhcp", !.tries = 0])
    /\ UNCHANGED air

ResetReplyState(d) ==
    [d EXCEPT !.type = "none", !.offered = NoAddr, !.acked = NoAddr, !.opts = NoAddr]

DhcpDiscover(t) ==
    /\ Ready(t, "discover")
    /\ \/ /\ LanSends(BuildDiscover(lan.dhcp.xid))
          /\ lan' = [lan EXCEPT !.dhcp = [ResetReplyState(@) EXCEPT !.waiting = TRUE]]
          /\ Goto(t, At(t, "offer"))
       \/ /\ LanRefused
          /\ lan' = [lan EXCEPT !.dhcp = [ResetReplyState(@) EXCEPT !.waiting = FALSE]]
          /\ LanReturn(t, FALSE)

(* wait_for_message.  Time passes only while interrupts are on, so a       *)
(* masked task's deadline passes only while it is halted.                  *)
WaitForMessage(t, type, next) ==
    /\ Ready(t, type) /\ lan.dhcp.type = type
    /\ Goto(t, At(t, next))
    /\ UNCHANGED <<lan, air, lanLeft>>
DhcpOffered(t) == WaitForMessage(t, "offer", "request")
DhcpAcked(t) == WaitForMessage(t, "ack", "bind")
DhcpTimesOut(t) ==
    /\ (Ready(t, "offer") \/ Ready(t, "ack")) /\ cpu = Nobody
    /\ lan' = [lan EXCEPT !.dhcp.waiting = FALSE]
    /\ IF task[t].tries + 1 < DhcpAttempts
       THEN Goto(t, [At(t, "discover") EXCEPT !.tries = @ + 1])
       ELSE LanReturn(t, FALSE)
    /\ UNCHANGED <<air, lanLeft>>

DhcpRequest(t) ==
    /\ Ready(t, "request")
    /\ \/ /\ lan.dhcp.offered # NoAddr /\ lan.dhcp.opts # NoAddr
          /\ \/ /\ LanSends(BuildRequest(lan.dhcp.xid, lan.dhcp.opts))
                /\ lan' = [lan EXCEPT !.dhcp.type = "none"]
                /\ Goto(t, At(t, "ack"))
             \/ /\ LanRefused
                /\ lan' = [lan EXCEPT !.dhcp.type = "none", !.dhcp.waiting = FALSE]
                /\ LanReturn(t, FALSE)
       \/ /\ lan.dhcp.offered = NoAddr \/ lan.dhcp.opts = NoAddr
          /\ lan' = [lan EXCEPT !.dhcp.waiting = FALSE]
          /\ IF task[t].tries + 1 < DhcpAttempts
             THEN Goto(t, [At(t, "discover") EXCEPT !.tries = @ + 1])
             ELSE LanReturn(t, FALSE)
          /\ UNCHANGED <<air, lanLeft>>

DhcpBind(t) ==
    /\ Ready(t, "bind")
    /\ lan' = [lan EXCEPT !.dhcp.waiting = FALSE,
                          !.config = [ip |-> lan.dhcp.acked, opts |-> lan.dhcp.opts]]
    /\ LanReturn(t, TRUE)
    /\ UNCHANGED <<air, lanLeft>>

LanLose(f) == f \in air /\ Fault /\ air' = air \ {f} /\ UNCHANGED <<lan, task, cpu>>

LanNext ==
    \/ \E t \in LanTasks :
          \/ \E f \in air :
                \/ \E again \in BOOLEAN : Waiting(t) /\ PollOnce(t, f, again)
                \/ (t = NetTask \/ Waiting(t)) /\ PollReceives(t, f)
          \/ PollHandles(t)
    \/ \E t \in Workers :
          \/ LanHalts(t)
          \/ ArpFound(t) \/ ArpGivesUp(t)
          \/ \E ip \in Stations \union Servers : PingCall(t, ip) \/ ArpCall(t, ip) \/ NtpCall(t, ip)
          \/ EchoSend(t) \/ EchoAnswered(t) \/ EchoTimesOut(t)
          \/ TimeSend(t) \/ TimeEnds(t)
          \/ \E xid \in 0..(LanCalls + 1) : DhcpCall(t, xid)
          \/ DhcpDiscover(t) \/ DhcpOffered(t) \/ DhcpAcked(t) \/ DhcpTimesOut(t)
          \/ DhcpRequest(t) \/ DhcpBind(t)
    \/ \E f \in air : LanLose(f)

LanSpec == LanInit /\ [][LanNext]_lanVars

-----------------------------------------------------------------------------
(* The frame a task hands to the handlers is the frame it received:        *)
(* s_net_frame is shared, and s_net_poll_locked keeps every other poll     *)
(* away from it, interrupts on or off.                                     *)
FrameKept == \A t \in LanTasks : task[t].took # NoFrame => lan.frame = task[t].took

(* When a task binds an address with interrupts masked, as every process   *)
(* does and the boot task does once it has waited, the address, mask,      *)
(* gateway and DNS server come from one acknowledgement: offers of other   *)
(* servers, late or repeated, and a second dhcp_configure that runs while  *)
(* the first waits leave no mixture.                                       *)
BindsOneLease ==
    \A t \in Workers :
        task[t].pc = "bind" /\ task'[t].pc # "bind" /\ ~task[t].irqs
            => lan'.config.ip = lan'.config.opts
LeaseWhole == [][BindsOneLease]_lanVars
=============================================================================
