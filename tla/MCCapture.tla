----------------------------- MODULE MCCapture -----------------------------
(* Packet capture on a few frames: both directions of a conversation of a  *)
(* host with itself, two other conversations, one that does not parse.     *)
EXTENDS PacketCapture

CONSTANTS t1, t2

Base == [len |-> 60, ethertype |-> "IPv4", inner |-> "IPv4", version |-> 4, ihl |-> 5,
         proto |-> "TCP", src |-> 1, dst |-> 1, sport |-> 8, dport |-> 9, flags |-> {"SYN"}]
Reply == [Base EXCEPT !.len = 63, !.ethertype = "VLAN", !.sport = 9, !.dport = 8,
                      !.flags = {"ACK", "PSH"}]
Other == [Base EXCEPT !.proto = "UDP", !.src = 2]
Third == [Base EXCEPT !.proto = "ICMP"]
Short == [Base EXCEPT !.len = 53]

MCFrames == {Base, Reply, Other, Third, Short}

MCConfigs ==
    {\* two threads see the same frames and order them differently
     [mode |-> "LibPcap", threads |-> {t1, t2}, extract_flows |-> TRUE,
      traffic |-> <<{Base}, {Reply}>>, maxStops |-> 0, maxTime |-> 2],
     \* two threads fill the ring and are stopped and started again
     [mode |-> "LibPcap", threads |-> {t1, t2}, extract_flows |-> FALSE,
      traffic |-> <<{Base}, {Base}>>, maxStops |-> 1, maxTime |-> 1],
     \* both directions, across stop() and start()
     [mode |-> "AF_PACKET", threads |-> {t1}, extract_flows |-> TRUE,
      traffic |-> <<{Base, Reply, Short}, {Base, Reply, Short}>>, maxStops |-> 1, maxTime |-> 3],
     \* eviction, and a flow that comes back
     [mode |-> "DPDK", threads |-> {t1}, extract_flows |-> TRUE,
      traffic |-> <<{Base}, {Other}, {Third, Reply}, {Base}>>, maxStops |-> 0, maxTime |-> 3],
     [mode |-> "PF_RING", threads |-> {t1}, extract_flows |-> TRUE,
      traffic |-> << >>, maxStops |-> 0, maxTime |-> 1]}
=============================================================================
