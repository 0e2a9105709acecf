------------------------------- MODULE GeoNet -------------------------------
(***************************************************************************)
(* The C2C network stack of ns-3: how a packet that an application sends   *)
(* travels from station to station (ns-3.7/src/c2c-stack/                  *)
(* c2c-l3-protocol.cc, c2c-transport.cc, routing/geo-routing/ and          *)
(* node/location-table.cc).                                                *)
(*                                                                         *)
(* A packet is broadcast over a number of hops (TSB), broadcast in an area *)
(* it is first routed to (GEOBCAST), or sent to one station (UNICAST).     *)
(* Every station relays; a table of the sequence numbers it received,      *)
(* one for each of the three protocols, keeps it from relaying twice.      *)
(*                                                                         *)
(* Stations move, so whether a station is in the area of a packet and      *)
(* which neighbour is nearest to its destination is decided anew whenever  *)
(* the code asks.  Frames are lost when they are sent, except between      *)
(* stations that always hear each other.                                   *)
(***************************************************************************)
EXTENDS Integers, Sequences, FiniteSets

CONSTANTS
  Nodes,      \* the stations
  NoNode,     \* not a station: the destination of a broadcast, no gateway
  Services,   \* the applications (application index tags)
  Flows,      \* what applications may send: source, service, mode, ...
  Reliable,   \* Reliable[n]: the stations that always hear n
  SeqMod,     \* sequence numbers are 16 bits wide: 2^16
  HopMod,     \* the hop limit is 8 bits wide: 2^8
  MaxSend     \* bound: packets of a service at a station

Modes == {"TSB", "GEOBCAST", "UNICAST"}

ASSUME GeoNetAssumption ==
  /\ NoNode \notin Nodes
  /\ Flows \subseteq [src : Nodes, svc : Services, mode : Modes,
                      hops : 0 .. HopMod - 1, dst : Nodes \union {NoNode}]
  /\ Reliable \in [Nodes -> SUBSET Nodes]
  /\ \A n \in Nodes : n \notin Reliable[n]
  /\ SeqMod \in Nat \ {0}
  /\ HopMod \in Nat \ {0, 1}
  /\ MaxSend \in Nat

VARIABLES
  sendCount,    \* m_sendCountC2C of the application of each station
  recvCount,    \* m_recvCountC2C
  received,     \* m_packetReceived: station, protocol, source, application
  heard,        \* m_nodeIdAddressMap: stations whose MAC address is known
  neighbours,   \* entries of the location table with is_neigh
  air,          \* frames on their way
  sent,         \* history: packets sent
  log           \* history: frames whose packet was handed to the application

tables == <<received, heard, neighbours>>
vars == <<sendCount, recvCount, tables, air, sent, log>>

Packets == [src : Nodes, svc : Services, mode : Modes, hops : 0 .. HopMod - 1,
            dst : Nodes \union {NoNode}, num : Nat]

\* A frame that arrives at to; path lists the stations that transmitted it.
Frames == [to : Nodes, pkt : Packets, hop : 0 .. HopMod - 1,
           path : Seq(Nodes) \ {<<>>}]

Init ==
  /\ sendCount = [n \in Nodes |-> [s \in Services |-> 0]]
  /\ recvCount = [n \in Nodes |-> [s \in Services |-> 0]]
  /\ received = [n \in Nodes |-> [m \in Modes |->
                  [src \in Nodes |-> [s \in Services |-> {}]]]]
  /\ heard = [n \in Nodes |-> {}]
  /\ neighbours = [n \in Nodes |-> {}]
  /\ air = {}
  /\ sent = {}
  /\ log = [n \in Nodes |-> {}]

-----------------------------------------------------------------------------
(* Transmission: who receives a frame of station n.                        *)

BroadcastTo(n) == {R \in SUBSET (Nodes \ {n}) : Reliable[n] \subseteq R}

\* A gateway whose MAC address is unknown is not sent to, see Send, SendTo.
UnicastTo(n, known, gateway) ==
  {R \in SUBSET (known \intersect {gateway}) :
     known \intersect {gateway} \intersect Reliable[n] \subseteq R}

\* getMinDistToDest: some neighbour, none, or what an unset vector holds.
NearestTo(n, known) ==
  UNION {UnicastTo(n, known, g) : g \in known \union {NoNode}}

\* geoUnicast: a destination that is a direct neighbour is its own gateway.
TowardsTo(n, known, direct, dst) ==
  IF dst \in direct THEN UnicastTo(n, known, dst) ELSE NearestTo(n, known)

Transmitted(n, p, hop, path, R) ==
  {[to |-> r, pkt |-> p, hop |-> hop, path |-> Append(path, n)] : r \in R}

\* BuildCommonHeader: the hop limit of a packet at its source.
FirstHop(p) == IF p.mode = "TSB" THEN p.hops ELSE HopMod - 1

\* The receivers of the first frame of packet p.
FirstTo(p) ==
  IF p.mode = "UNICAST"
  THEN TowardsTo(p.src, heard[p.src], neighbours[p.src], p.dst)
  ELSE BroadcastTo(p.src) \union
         (IF p.mode = "GEOBCAST" THEN NearestTo(p.src, heard[p.src]) ELSE {})

\* The next packet of the application of flow f.
NewPacket(f) ==
  [src |-> f.src, svc |-> f.svc, mode |-> f.mode, hops |-> f.hops,
   dst |-> f.dst, num |-> sendCount[f.src][f.svc] + 1]

\* DoSendC2C of the application, down to c2cL3Protocol::Send.
SendPacket(f) ==
  LET p == NewPacket(f) IN
  /\ p.num <= MaxSend
  /\ sendCount' = [sendCount EXCEPT ![f.src][f.svc] = p.num]
  /\ sent' = sent \union {p}
  /\ \E R \in FirstTo(p) :
       air' = air \union Transmitted(f.src, p, FirstHop(p), <<>>, R)
  /\ UNCHANGED <<recvCount, tables, log>>

-----------------------------------------------------------------------------
(* Reception.                                                              *)

SeqNb(p) == p.num % SeqMod

Sender(c) == c.path[Len(c.path)]

\* mutant of Duplicate: a source takes its own packet
OwnAccepted(n, p) == SeqNb(p) \in received[n][p.mode][p.src][p.svc]

\* mutant of Duplicate: any packet of the application is taken for a repetition
SourceKnown(n, p) == n = p.src \/ received[n][p.mode][p.src][p.svc] # {}

\* checkReception answers true.
Duplicate(n, p) ==
  \/ n = p.src
  \/ SeqNb(p) \in received[n][p.mode][p.src][p.svc]

\* mutant of Recorded: the list built for a new source is not stored
NotRecorded(old, p) == old

\* What checkReception leaves of a source: the numbers of one application.
Recorded(old, p) ==
  [s \in Services |->
     IF s = p.svc THEN old[s] \union {SeqNb(p)}
     ELSE IF old[p.svc] = {} THEN {} ELSE old[s]]

\* c2cL3Protocol::Receive, before the routing protocol sees the packet.  The
\* location table ignores a vector of the second it has an entry of already.
Arrive(c) ==
  /\ heard' = [heard EXCEPT ![c.to] = @ \union {Sender(c)}]
  /\ neighbours' \in
       {neighbours, [neighbours EXCEPT ![c.to] = @ \union {Sender(c)}]}

\* checkReception answers false.
AcceptNew(c) ==
  /\ ~Duplicate(c.to, c.pkt)
  /\ received' = [received EXCEPT ![c.to][c.pkt.mode][c.pkt.src] = Recorded(@, c.pkt)]

LocalDeliver(c) ==
  /\ log' = [log EXCEPT ![c.to] = @ \union {c}]
  /\ recvCount' = [recvCount EXCEPT ![c.to] =
       [s \in Services |-> IF s = c.pkt.svc THEN @[s] + 1 ELSE @[s]]]

NoDelivery == UNCHANGED <<log, recvCount>>

\* mutant of NextHop: the header keeps its limit
SameHop(hop) == hop

NextHop(hop) == (hop - 1) % HopMod

\* mutant of Forward: the last hop is not transmitted
ForwardShort(c, receivers) ==
  IF NextHop(c.hop) <= 1
  THEN air' = air \ {c}
  ELSE \E R \in receivers :
         air' = (air \ {c}) \union Transmitted(c.to, c.pkt, NextHop(c.hop), c.path, R)

\* L3Forward, to one of the given sets of receivers.
Forward(c, receivers) ==
  IF NextHop(c.hop) = 0
  THEN air' = air \ {c}
  ELSE \E R \in receivers :
         air' = (air \ {c}) \union Transmitted(c.to, c.pkt, NextHop(c.hop), c.path, R)

\* mutant of Drop: the frame is put back
DropBack(c) == air' = air \union {c}

Drop(c) == air' = air \ {c}

ReceiveDuplicate(c) ==
  /\ Arrive(c)
  /\ Duplicate(c.to, c.pkt)
  /\ Drop(c)
  /\ NoDelivery
  /\ UNCHANGED <<sendCount, sent, received>>

\* topoBroadcast::RouteInput.
ReceiveTopo(c) ==
  /\ c.pkt.mode = "TSB"
  /\ Arrive(c)
  /\ AcceptNew(c)
  /\ LocalDeliver(c)
  /\ Forward(c, BroadcastTo(c.to))
  /\ UNCHANGED <<sendCount, sent>>

\* geoBroadcast::RouteInput at a station in the area.
ReceiveInArea(c) ==
  /\ c.pkt.mode = "GEOBCAST"
  /\ Arrive(c)
  /\ AcceptNew(c)
  /\ LocalDeliver(c)
  /\ Forward(c, BroadcastTo(c.to))
  /\ UNCHANGED <<sendCount, sent>>

\* The same at a station outside of it: dropped, or sent on to a neighbour.
ReceiveOutside(c) ==
  /\ c.pkt.mode = "GEOBCAST"
  /\ Arrive(c)
  /\ AcceptNew(c)
  /\ NoDelivery
  /\ Forward(c, NearestTo(c.to, heard'[c.to]))
  /\ UNCHANGED <<sendCount, sent>>

\* geoUnicast::RouteInput.
ReceiveUnicast(c) ==
  /\ c.pkt.mode = "UNICAST"
  /\ Arrive(c)
  /\ AcceptNew(c)
  /\ IF c.pkt.dst = c.to
     THEN LocalDeliver(c) /\ Drop(c)
     ELSE /\ NoDelivery
          /\ Forward(c, TowardsTo(c.to, heard'[c.to], neighbours'[c.to], c.pkt.dst))
  /\ UNCHANGED <<sendCount, sent>>

Receive(c) ==
  \/ ReceiveDuplicate(c)
  \/ ReceiveTopo(c)
  \/ ReceiveInArea(c)
  \/ ReceiveOutside(c)
  \/ ReceiveUnicast(c)

\* LocationTable::CleanTable at station n, see module LocationTable.
CleanTable(n) ==
  /\ \E S \in SUBSET neighbours[n] :
       S # neighbours[n] /\ neighbours' = [neighbours EXCEPT ![n] = S]
  /\ UNCHANGED <<sendCount, recvCount, received, heard, air, sent, log>>

Next ==
  \/ \E f \in Flows : SendPacket(f)
  \/ \E c \in air : Receive(c)
  \/ \E n \in Nodes : CleanTable(n)

Spec == Init /\ [][Next]_vars

\* ns-3 executes the reception events it has scheduled.
FairSpec == Spec /\ WF_vars(\E c \in air : Receive(c))

-----------------------------------------------------------------------------
(* Properties.                                                             *)

TypeOK ==
  /\ sendCount \in [Nodes -> [Services -> Nat]]
  /\ recvCount \in [Nodes -> [Services -> Nat]]
  /\ received \in [Nodes -> [Modes -> [Nodes -> [Services -> SUBSET (0 .. SeqMod - 1)]]]]
  /\ heard \in [Nodes -> SUBSET Nodes]
  /\ neighbours \in [Nodes -> SUBSET Nodes]
  /\ air \subseteq Frames
  /\ sent \subseteq Packets
  /\ log \in [Nodes -> SUBSET Frames]

\* One application of a station at a time uses each of the protocols.
OneSender ==
  \A f, g \in Flows : f.src = g.src /\ f.mode = g.mode => f.svc = g.svc

AllFrames == air \union UNION {log[n] : n \in Nodes}

HasGot(n, p) == \E c \in log[n] : c.pkt = p

\* checkReception is there to see that a station that hears a packet over
\* several ways hands it to the application once.
Once == \A n \in Nodes : \A c, d \in log[n] : c.pkt = d.pkt => c = d

\* No packet travels in a circle, although every station chooses the next
\* one by itself, from tables that change, and headers carry no path.
LoopFree ==
  \A c \in AllFrames : \A i, j \in 1 .. Len(c.path) :
    c.path[i] = c.path[j] => i = j

\* Beyond the transmission of its source, a topological broadcast takes at
\* most numHops hops, which is how the client of the iCS documents numHops.
HopBudget ==
  \A c \in AllFrames :
    c.pkt.mode = "TSB" => Len(c.path) = 1 \/ Len(c.path) <= c.pkt.hops

\* A station in the location table as a neighbour, the destination that
\* geoUnicast prefers, has a MAC address: Send does not drop the packet.
NeighbourHasAddress == \A n \in Nodes : neighbours[n] \subseteq heard[n]

\* The stations that broadcast packet p.
Relays(p) ==
  {n \in Nodes : n = p.src \/ \E c \in log[n] : c.pkt = p /\ c.hop # 1}

\* A flood leaves no gaps: what a relay broadcast, every station that always
\* hears it has, or is about to have.  Suppressing duplicates must not
\* suppress a packet that was never handed up.
NoGaps ==
  \A p \in sent : p.mode = "TSB" =>
    \A n \in Relays(p) : \A m \in Reliable[n] :
      m = p.src \/ HasGot(m, p) \/ \E c \in air : c.to = m /\ c.pkt = p

\* The stations that hear src, directly or over others that always hear.
Reached(src) ==
  LET within[i \in 0 .. Cardinality(Nodes)] ==
        IF i = 0 THEN {src}
        ELSE within[i - 1] \union UNION {Reliable[n] : n \in within[i - 1]}
  IN within[Cardinality(Nodes)]

\* A flood with hops enough for the longest way reaches all of them, also
\* when the first frame a station hears came the longer way.
FloodReaches ==
  \A f \in {x \in Flows : x.mode = "TSB" /\ x.hops + 1 >= Cardinality(Nodes)} :
    \A k \in 1 .. MaxSend : \A n \in Reached(f.src) \ {f.src} :
      (\E p \in sent : p.src = f.src /\ p.svc = f.svc /\ p.mode = "TSB"
                       /\ p.hops = f.hops /\ p.num = k)
      ~> (\E c \in log[n] : c.pkt.src = f.src /\ c.pkt.svc = f.svc /\ c.pkt.num = k)

\* Every flood of one application dies out: no station relays a packet of it
\* twice, and each relay takes a hop off.
FloodEnds == <>[](air = {})

\* What the stack promises to applications, see module Delivery.
got == [n \in Nodes |-> {c.pkt : c \in log[n]}]

D == INSTANCE Delivery WITH
       Nodes <- Nodes, Services <- Services,
       sent <- sent, got <- got, recvCount <- recvCount

DeliverySpec == D!Spec

=============================================================================
