------------------------------- MODULE MCNet --------------------------------
(* The network, one layer at a time: part says which of the four models a  *)
(* behaviour is about, and the variables of the others stay as they are.   *)
EXTENDS Tcp, Lan, Datagram

VARIABLE part

-----------------------------------------------------------------------------
(* Programs of the two ends of a stream: a client that writes and closes,  *)
(* one that closes its sending direction and reads the answer, and one     *)
(* that does not block.                                                    *)
Program(ops, bytes) == [ops |-> ops, bytes |-> bytes]
Upload ==
    [client |-> Program({"connect", "send", "close"}, 2),
     server |-> Program({"listen", "accept", "recv", "close"}, 0)]
Request ==
    [client |-> Program({"connect", "WR", "recv"}, 0),
     server |-> Program({"listen", "accept", "recv", "send", "close"}, 1)]
Hasty ==
    [client |-> Program({"nonblocking connect", "poll", "send", "RD"}, 1),
     server |-> Program({"listen", "accept", "send"}, 1)]
AllPrograms == {Upload, Request, Hasty}

-----------------------------------------------------------------------------
netVars == <<vars, lanVars, nicVars, dgVars, part>>

MCInit ==
    /\ part \in {"tcp", "lan", "nic", "dgram"}
    /\ Init /\ LanInit /\ NicInit /\ DgInit
    /\ part # "tcp" => prog = Upload
    /\ part # "nic" => nic.driver = "none"

MCNext ==
    /\ UNCHANGED part
    /\ \/ part = "tcp" /\ Next /\ UNCHANGED <<lanVars, nicVars, dgVars>>
       \/ part = "lan" /\ LanNext /\ UNCHANGED <<vars, nicVars, dgVars>>
       \/ part = "nic" /\ NicNext /\ UNCHANGED <<vars, lanVars, dgVars>>
       \/ part = "dgram" /\ DgNext /\ UNCHANGED <<vars, lanVars, nicVars>>

MCSpec == MCInit /\ [][MCNext]_netVars

(* A SYN that arrives again after the server's end of the connection is    *)
(* gone opens a second one with the same ports and sequence numbers; the   *)
(* streams are followed up to there.  Two frames in the air are enough for *)
(* replies of two servers to meet; an attempt is repeated while a call or  *)
(* a fault is left.                                                        *)
Bounded ==
    /\ host["server"].opens <= 1
    /\ Cardinality(air) <= 2
    /\ lanLeft.calls + lanLeft.faults > 0 \/ \A t \in DOMAIN task : task[t].tries = 0

(* s_active_port and s_active_conn are written before they are read in     *)
(* every call, the receive buffer is only read while the lock is held, and *)
(* the variables of a ping or an NTP query only while it waits: what a     *)
(* step leaves in them otherwise is not part of the state to tell apart.   *)
Distinct ==
    <<part, [x \in Hosts |-> [host[x] EXCEPT !.aport = 0, !.aconn = NoConn]],
      wire, pc, history, faults,
      [lan EXCEPT !.frame = IF lan.locked THEN @ ELSE NoFrame,
                  !.ping = IF @.waiting THEN @ ELSE NoFrame,
                  !.ntp = IF @.waiting THEN @ ELSE NoFrame],
      air, task, cpu, lanLeft, nicVars, dgVars>>

-----------------------------------------------------------------------------

(* A frame reaches the layer it is for, whoever polls the card and whoever *)
(* holds the lock, and the receive ring gives each frame once, in          *)
(* order and whole (Lan).                                                  *)
FramesDelivered ==
    /\ part = "lan" => FrameKept
    /\ part = "nic" => RxRingSound

(* A port has one owner, and an answer goes to the socket it is for        *)
(* (Datagram).                                                             *)
DatagramsOwned == part = "dgram" => PortsExclusive /\ AnswersOwned
=============================================================================
