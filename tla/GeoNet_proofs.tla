--------------------------- MODULE GeoNet_proofs ---------------------------
(***************************************************************************)
(* Proofs about the C2C network stack.  The type invariant and the effect  *)
(* of a reception come first; then that one application per station is     *)
(* enough for packets to be handed up once and to travel in no circle,     *)
(* that fewer packets than sequence numbers are enough for a flood to      *)
(* leave no gaps, and that hop limits bound what a flood costs.            *)
(***************************************************************************)
EXTENDS GeoNet, TLAPS, SequenceTheorems

-----------------------------------------------------------------------------
(* Types.                                                                  *)

\* The sets of receivers that a transmission may reach are sets of stations.
LEMMA ReceiverSets ==
  ASSUME NEW n \in Nodes, NEW known \in SUBSET Nodes
  PROVE  /\ \A R \in BroadcastTo(n) : R \subseteq Nodes
         /\ \A R \in NearestTo(n, known) : R \subseteq Nodes
         /\ \A direct, dst : \A R \in TowardsTo(n, known, direct, dst) : R \subseteq Nodes
  BY DEF BroadcastTo, NearestTo, TowardsTo, UnicastTo

\* A hop limit stays an 8-bit number.
LEMMA NextHopType ==
  ASSUME NEW h \in 0 .. HopMod - 1
  PROVE  NextHop(h) \in 0 .. HopMod - 1
  BY GeoNetAssumption DEF NextHop

\* The frames of one transmission, field by field.
LEMMA TransmittedFields ==
  ASSUME NEW n, NEW p, NEW hop, NEW path, NEW R
  PROVE  \A d \in Transmitted(n, p, hop, path, R) :
           /\ d.to \in R /\ d.pkt = p /\ d.hop = hop /\ d.path = Append(path, n)
           /\ d = [to |-> d.to, pkt |-> p, hop |-> hop, path |-> Append(path, n)]
  BY DEF Transmitted

\* Transmitting to stations gives frames.
LEMMA TransmittedType ==
  ASSUME NEW n \in Nodes, NEW p \in Packets, NEW hop \in 0 .. HopMod - 1,
         NEW path \in Seq(Nodes), NEW R \in SUBSET Nodes
  PROVE  Transmitted(n, p, hop, path, R) \subseteq Frames
<1>1. Append(path, n) \in Seq(Nodes) /\ Append(path, n) # <<>>
  OBVIOUS
<1> QED
  BY <1>1 DEF Transmitted, Frames

\* A first frame reaches stations, a flood those that always hear its source.
LEMMA FirstToSets ==
  ASSUME TypeOK, NEW p \in Packets, NEW R \in FirstTo(p)
  PROVE  R \in SUBSET Nodes /\ (p.mode = "TSB" => Reliable[p.src] \subseteq R)
<1>1. p.src \in Nodes /\ heard[p.src] \in SUBSET Nodes
  BY DEF TypeOK, Packets
<1>2. CASE p.mode = "UNICAST"
  <2>1. R \in TowardsTo(p.src, heard[p.src], neighbours[p.src], p.dst)
    BY <1>2 DEF FirstTo
  <2> QED
    BY <2>1, <1>1, <1>2, ReceiverSets
<1>3. CASE p.mode # "UNICAST" /\ R \in BroadcastTo(p.src)
  BY <1>3, <1>1 DEF BroadcastTo
<1>4. CASE p.mode # "UNICAST" /\ R \notin BroadcastTo(p.src)
  <2>1. p.mode = "GEOBCAST" /\ R \in NearestTo(p.src, heard[p.src])
    BY <1>4 DEF FirstTo
  <2> QED
    BY <2>1, <1>1, ReceiverSets
<1> QED
  BY <1>2, <1>3, <1>4

\* The packet that a flow sends next.
LEMMA NewPacketType ==
  ASSUME TypeOK, NEW f \in Flows
  PROVE  /\ NewPacket(f) \in Packets
         /\ FirstHop(NewPacket(f)) \in 0 .. HopMod - 1
         /\ NewPacket(f).src = f.src /\ NewPacket(f).svc = f.svc
         /\ NewPacket(f).mode = f.mode /\ NewPacket(f).hops = f.hops
         /\ NewPacket(f).num = sendCount[f.src][f.svc] + 1
<1>0. /\ f.src \in Nodes /\ f.svc \in Services /\ f.mode \in Modes
      /\ f.hops \in 0 .. HopMod - 1 /\ f.dst \in Nodes \union {NoNode}
  BY GeoNetAssumption
<1>1. sendCount[f.src][f.svc] \in Nat
  BY <1>0 DEF TypeOK
<1>2. sendCount[f.src][f.svc] + 1 \in Nat
  BY <1>1
<1>3. NewPacket(f) \in Packets
  BY <1>0, <1>2 DEF Packets, NewPacket
<1>4. /\ NewPacket(f).src = f.src /\ NewPacket(f).svc = f.svc
      /\ NewPacket(f).mode = f.mode /\ NewPacket(f).hops = f.hops
      /\ NewPacket(f).num = sendCount[f.src][f.svc] + 1
  BY DEF NewPacket
<1>5. FirstHop(NewPacket(f)) \in 0 .. HopMod - 1
  BY <1>0, <1>4, GeoNetAssumption DEF FirstHop
<1> QED
  BY <1>3, <1>4, <1>5

\* What sending does: the first frames are of the new packet.
LEMMA SendEffect ==
  ASSUME TypeOK, NEW f \in Flows, SendPacket(f), NEW p, p = NewPacket(f)
  PROVE  /\ p \in Packets /\ p.num <= MaxSend
         /\ p.src = f.src /\ p.svc = f.svc /\ p.mode = f.mode /\ p.hops = f.hops
         /\ p.num = sendCount[f.src][f.svc] + 1
         /\ sendCount' = [sendCount EXCEPT ![f.src][f.svc] = p.num]
         /\ sent' = sent \union {p}
         /\ \E R \in SUBSET Nodes :
              /\ p.mode = "TSB" => Reliable[p.src] \subseteq R
              /\ air' = air \union Transmitted(p.src, p, FirstHop(p), <<>>, R)
         /\ FirstHop(p) \in 0 .. HopMod - 1
         /\ UNCHANGED <<recvCount, received, heard, neighbours, log>>
<1>1. /\ p.num <= MaxSend
      /\ sendCount' = [sendCount EXCEPT ![f.src][f.svc] = p.num]
      /\ sent' = sent \union {p}
      /\ \E R \in FirstTo(p) :
           air' = air \union Transmitted(f.src, p, FirstHop(p), <<>>, R)
      /\ UNCHANGED <<recvCount, received, heard, neighbours, log>>
  BY DEF SendPacket, tables
<1>2. /\ p \in Packets /\ FirstHop(p) \in 0 .. HopMod - 1
      /\ p.src = f.src /\ p.svc = f.svc /\ p.mode = f.mode /\ p.hops = f.hops
      /\ p.num = sendCount[f.src][f.svc] + 1
  BY NewPacketType
<1>3. \A R \in FirstTo(p) : R \in SUBSET Nodes /\ (p.mode = "TSB" => Reliable[p.src] \subseteq R)
  BY <1>2, FirstToSets
<1> QED
  BY <1>1, <1>2, <1>3

\* What a frame on the air is.
LEMMA FrameType ==
  ASSUME TypeOK, NEW c \in air
  PROVE  /\ c.to \in Nodes /\ c.pkt \in Packets /\ c.hop \in 0 .. HopMod - 1
         /\ c.path \in Seq(Nodes) /\ c.path # <<>> /\ Sender(c) \in Nodes
         /\ c.pkt.src \in Nodes /\ c.pkt.svc \in Services /\ c.pkt.mode \in Modes
<1>1. c \in Frames
  BY DEF TypeOK
<1>2. c.path \in Seq(Nodes) /\ c.path # <<>> /\ c.pkt \in Packets /\ c.to \in Nodes
      /\ c.hop \in 0 .. HopMod - 1
  BY <1>1 DEF Frames
<1>3. Len(c.path) \in 1 .. Len(c.path)
  BY <1>2
<1> QED
  BY <1>2, <1>3 DEF Sender, Packets

\* What relaying does: all of the relay's frames are of the packet received.
LEMMA ForwardEffect ==
  ASSUME TypeOK, NEW c \in air, NEW Receivers, Forward(c, Receivers),
         \A R \in Receivers : R \subseteq Nodes
  PROVE  \/ NextHop(c.hop) = 0 /\ air' = air \ {c}
         \/ /\ NextHop(c.hop) # 0
            /\ \E R \in Receivers :
                 air' = (air \ {c}) \union Transmitted(c.to, c.pkt, NextHop(c.hop), c.path, R)
  BY DEF Forward

\* The effect of a reception on the frames, in the case of a new packet.
Relayed(c) ==
  \/ air' = air \ {c} /\ (c.pkt.mode = "TSB" => NextHop(c.hop) = 0)
  \/ /\ NextHop(c.hop) # 0
     /\ \E R \in SUBSET Nodes :
          /\ c.pkt.mode = "TSB" => Reliable[c.to] \subseteq R
          /\ air' = (air \ {c}) \union Transmitted(c.to, c.pkt, NextHop(c.hop), c.path, R)

\* What a reception does, whatever the protocol of the packet is.
LEMMA ReceiveEffect ==
  ASSUME TypeOK, NEW c \in air, Receive(c)
  PROVE  /\ UNCHANGED <<sendCount, sent>>
         /\ Arrive(c)
         /\ \/ /\ Duplicate(c.to, c.pkt) /\ air' = air \ {c}
               /\ UNCHANGED <<received, log, recvCount>>
            \/ /\ AcceptNew(c)
               /\ c.pkt.mode = "TSB" => LocalDeliver(c)
               /\ LocalDeliver(c) \/ NoDelivery
               /\ Relayed(c)
<1>0. /\ c.to \in Nodes /\ c.path \in Seq(Nodes)
      /\ \A R \in BroadcastTo(c.to) : R \subseteq Nodes /\ Reliable[c.to] \subseteq R
  BY FrameType DEF BroadcastTo
<1>1. CASE ReceiveDuplicate(c)
  BY <1>1 DEF ReceiveDuplicate, Drop, NoDelivery
<1>2. CASE ReceiveTopo(c) \/ ReceiveInArea(c)
  <2>1. Arrive(c) /\ AcceptNew(c) /\ LocalDeliver(c) /\ UNCHANGED <<sendCount, sent>>
        /\ Forward(c, BroadcastTo(c.to))
    BY <1>2 DEF ReceiveTopo, ReceiveInArea
  <2>2. Relayed(c)
    BY <2>1, <1>0, ForwardEffect DEF Relayed
  <2> QED
    BY <2>1, <2>2
<1>3. ASSUME Arrive(c)
      PROVE  /\ \A R \in NearestTo(c.to, heard'[c.to]) : R \in SUBSET Nodes
             /\ \A direct, dst : \A R \in TowardsTo(c.to, heard'[c.to], direct, dst) : R \in SUBSET Nodes
  <2>1. heard'[c.to] \in SUBSET Nodes
    BY <1>3, FrameType DEF Arrive, TypeOK
  <2> QED
    BY <2>1, <1>0, ReceiverSets
<1>4. CASE ReceiveOutside(c)
  <2>1. Arrive(c) /\ AcceptNew(c) /\ NoDelivery /\ UNCHANGED <<sendCount, sent>>
        /\ Forward(c, NearestTo(c.to, heard'[c.to])) /\ c.pkt.mode = "GEOBCAST"
    BY <1>4 DEF ReceiveOutside
  <2>2. Relayed(c)
    BY <2>1, <1>3, ForwardEffect DEF Relayed
  <2> QED
    BY <2>1, <2>2
<1>5. CASE ReceiveUnicast(c)
  <2>1. Arrive(c) /\ AcceptNew(c) /\ UNCHANGED <<sendCount, sent>> /\ c.pkt.mode = "UNICAST"
    BY <1>5 DEF ReceiveUnicast
  <2>2. CASE c.pkt.dst = c.to
    <3>1. LocalDeliver(c) /\ air' = air \ {c}
      BY <1>5, <2>2 DEF ReceiveUnicast, Drop
    <3> QED
      BY <2>1, <3>1 DEF Relayed
  <2>3. CASE c.pkt.dst # c.to
    <3>1. /\ NoDelivery
          /\ Forward(c, TowardsTo(c.to, heard'[c.to], neighbours'[c.to], c.pkt.dst))
      BY <1>5, <2>3 DEF ReceiveUnicast
    <3>2. Relayed(c)
      BY <2>1, <3>1, <1>3, ForwardEffect DEF Relayed
    <3> QED
      BY <2>1, <3>1, <3>2
  <2> QED
    BY <2>2, <2>3
<1> QED
  BY <1>1, <1>2, <1>4, <1>5 DEF Receive

\* The frames that are on the air after a step: those that were, those of a
\* new packet, and those of a relay that had not received the packet before.
LEMMA AirAfter ==
  ASSUME TypeOK, [Next]_vars, NEW d \in air'
  PROVE  \/ d \in air
         \/ \E f \in Flows : LET p == NewPacket(f) IN
              /\ SendPacket(f) /\ d.pkt = p /\ d.path = <<p.src>> /\ d.hop = FirstHop(p)
              /\ d \in Frames
         \/ \E c \in air :
              /\ Receive(c) /\ AcceptNew(c)
              /\ d.pkt = c.pkt /\ d.path = Append(c.path, c.to)
              /\ d.hop = NextHop(c.hop) /\ d.hop # 0
              /\ d \in Frames
<1>1. CASE \E f \in Flows : SendPacket(f)
  <2>1. PICK f \in Flows : SendPacket(f)
    BY <1>1
  <2> DEFINE p == NewPacket(f)
  <2>2. /\ p \in Packets /\ p.src \in Nodes /\ FirstHop(p) \in 0 .. HopMod - 1
        /\ \E R \in SUBSET Nodes : air' = air \union Transmitted(p.src, p, FirstHop(p), <<>>, R)
    BY <2>1, SendEffect DEF Packets
  <2> HIDE DEF p
  <2>3. PICK R \in SUBSET Nodes : air' = air \union Transmitted(p.src, p, FirstHop(p), <<>>, R)
    BY <2>2
  <2>4. CASE d \in Transmitted(p.src, p, FirstHop(p), <<>>, R)
    <3>1. d.pkt = p /\ d.hop = FirstHop(p) /\ d.path = Append(<<>>, p.src)
      BY <2>4, TransmittedFields
    <3>2. d \in Frames
      <4>1. <<>> \in Seq(Nodes)
        OBVIOUS
      <4> QED
        BY <4>1, <2>2, <2>4, TransmittedType
    <3>3. Append(<<>>, p.src) = <<p.src>>
      OBVIOUS
    <3> QED
      BY <2>1, <3>1, <3>2, <3>3 DEF p
  <2> QED
    BY <2>3, <2>4
<1>2. CASE \E c \in air : Receive(c)
  <2>1. PICK c \in air : Receive(c)
    BY <1>2
  <2>2. CASE air' = air \ {c}
    BY <2>2
  <2>3. CASE /\ AcceptNew(c) /\ NextHop(c.hop) # 0
             /\ \E R \in SUBSET Nodes :
                  air' = (air \ {c}) \union Transmitted(c.to, c.pkt, NextHop(c.hop), c.path, R)
    <3>1. PICK R \in SUBSET Nodes :
            air' = (air \ {c}) \union Transmitted(c.to, c.pkt, NextHop(c.hop), c.path, R)
      BY <2>3
    <3>2. CASE d \in Transmitted(c.to, c.pkt, NextHop(c.hop), c.path, R)
      <4>1. d.pkt = c.pkt /\ d.hop = NextHop(c.hop) /\ d.path = Append(c.path, c.to)
        BY <3>2, TransmittedFields
      <4>2. d \in Frames
        BY <3>2, FrameType, NextHopType, TransmittedType
      <4> QED
        BY <2>1, <2>3, <4>1, <4>2
    <3> QED
      BY <3>1, <3>2
  <2> QED
    BY <2>1, <2>2, <2>3, ReceiveEffect DEF Relayed
<1>3. CASE (\E n \in Nodes : CleanTable(n)) \/ UNCHANGED vars
  BY <1>3 DEF CleanTable, vars
<1> QED
  BY <1>1, <1>2, <1>3 DEF Next

\* The histories and the tables of numbers change with a reception only.
LEMMA LogAfter ==
  ASSUME TypeOK, [Next]_vars
  PROVE  \/ UNCHANGED <<received, log, recvCount>>
         \/ \E c \in air : AcceptNew(c) /\ (LocalDeliver(c) \/ NoDelivery) /\ UNCHANGED sent
<1>1. CASE \E f \in Flows : SendPacket(f)
  BY <1>1 DEF SendPacket, tables
<1>2. CASE \E c \in air : Receive(c)
  BY <1>2, ReceiveEffect
<1>3. CASE (\E n \in Nodes : CleanTable(n)) \/ UNCHANGED vars
  BY <1>3 DEF CleanTable, vars, tables
<1> QED
  BY <1>1, <1>2, <1>3 DEF Next

\* What checkReception leaves has the type of the table.
LEMMA RecordedType ==
  ASSUME NEW old \in [Services -> SUBSET (0 .. SeqMod - 1)], NEW p \in Packets
  PROVE  /\ Recorded(old, p) \in [Services -> SUBSET (0 .. SeqMod - 1)]
         /\ SeqNb(p) \in 0 .. SeqMod - 1
<1>1. SeqNb(p) \in 0 .. SeqMod - 1
  BY GeoNetAssumption DEF SeqNb, Packets
<1> QED
  BY <1>1 DEF Recorded

\* What a step of acceptance does to the table, row by row.
LEMMA AcceptEffect ==
  ASSUME TypeOK, NEW c \in air, AcceptNew(c)
  PROVE  /\ received' \in [Nodes -> [Modes -> [Nodes -> [Services -> SUBSET (0 .. SeqMod - 1)]]]]
         /\ \A n \in Nodes : \A m \in Modes : \A src \in Nodes :
              received'[n][m][src] =
                IF n = c.to /\ m = c.pkt.mode /\ src = c.pkt.src
                THEN Recorded(received[n][m][src], c.pkt)
                ELSE received[n][m][src]
<1>0. /\ c.to \in Nodes /\ c.pkt.mode \in Modes /\ c.pkt.src \in Nodes /\ c.pkt \in Packets
      /\ received \in [Nodes -> [Modes -> [Nodes -> [Services -> SUBSET (0 .. SeqMod - 1)]]]]
  BY FrameType DEF TypeOK
<1>1. received' = [received EXCEPT ![c.to][c.pkt.mode][c.pkt.src] = Recorded(@, c.pkt)]
  BY DEF AcceptNew
<1> DEFINE new == Recorded(received[c.to][c.pkt.mode][c.pkt.src], c.pkt)
<1>2. new \in [Services -> SUBSET (0 .. SeqMod - 1)]
  <2>1. received[c.to][c.pkt.mode][c.pkt.src] \in [Services -> SUBSET (0 .. SeqMod - 1)]
    BY <1>0
  <2> QED
    BY <1>0, <2>1, RecordedType
<1>3. received' = [received EXCEPT ![c.to] = [received[c.to] EXCEPT ![c.pkt.mode] =
       [received[c.to][c.pkt.mode] EXCEPT ![c.pkt.src] = new]]]
  BY <1>1, Zenon
<1> HIDE DEF new
<1>4. [received[c.to][c.pkt.mode] EXCEPT ![c.pkt.src] = new]
         \in [Nodes -> [Services -> SUBSET (0 .. SeqMod - 1)]]
  BY <1>0, <1>2
<1>5. [received[c.to] EXCEPT ![c.pkt.mode] = [received[c.to][c.pkt.mode] EXCEPT ![c.pkt.src] = new]]
         \in [Modes -> [Nodes -> [Services -> SUBSET (0 .. SeqMod - 1)]]]
  BY <1>0, <1>4
<1>6. received' \in [Nodes -> [Modes -> [Nodes -> [Services -> SUBSET (0 .. SeqMod - 1)]]]]
  BY <1>0, <1>3, <1>5
<1>7. ASSUME NEW n \in Nodes, NEW m \in Modes, NEW src \in Nodes
      PROVE  received'[n][m][src] =
                IF n = c.to /\ m = c.pkt.mode /\ src = c.pkt.src
                THEN new ELSE received[n][m][src]
  BY <1>0, <1>3
<1> QED
  BY <1>6, <1>7 DEF new

\* The type invariant.
THEOREM TypeCorrect == Spec => []TypeOK
<1>1. Init => TypeOK
  <2> SUFFICES ASSUME Init PROVE TypeOK
    OBVIOUS
  <2>1. {} \subseteq 0 .. SeqMod - 1
    OBVIOUS
  <2> QED
    BY <2>1 DEF Init, TypeOK
<1>2. TypeOK /\ [Next]_vars => TypeOK'
  <2> SUFFICES ASSUME TypeOK, [Next]_vars PROVE TypeOK'
    OBVIOUS
  <2>1. air' \subseteq Frames
    BY AirAfter DEF TypeOK
  <2>2. CASE \E f \in Flows : SendPacket(f)
    <3>1. PICK f \in Flows : SendPacket(f)
      BY <2>2
    <3> DEFINE p == NewPacket(f)
    <3>2. /\ p \in Packets /\ p.num = sendCount[f.src][f.svc] + 1
          /\ sendCount' = [sendCount EXCEPT ![f.src][f.svc] = p.num]
          /\ sent' = sent \union {p}
          /\ UNCHANGED <<recvCount, received, heard, neighbours, log>>
      BY <3>1, SendEffect
    <3> HIDE DEF p
    <3>3. p.num \in Nat
      BY <3>2 DEF Packets
    <3>4. sendCount' \in [Nodes -> [Services -> Nat]]
      BY <3>2, <3>3 DEF TypeOK
    <3> QED
      BY <2>1, <3>2, <3>4 DEF TypeOK
  <2>3. CASE \E c \in air : Receive(c)
    <3>1. PICK c \in air : Receive(c)
      BY <2>3
    <3>2. /\ c \in Frames /\ c.to \in Nodes /\ Sender(c) \in Nodes
          /\ UNCHANGED <<sendCount, sent>> /\ Arrive(c)
      BY <3>1, ReceiveEffect, FrameType DEF TypeOK
    <3>3. heard' \in [Nodes -> SUBSET Nodes] /\ neighbours' \in [Nodes -> SUBSET Nodes]
      <4>1. heard' \in [Nodes -> SUBSET Nodes]
        BY <3>2 DEF Arrive, TypeOK
      <4>2. CASE neighbours' = neighbours
        BY <4>1, <4>2 DEF TypeOK
      <4>3. CASE neighbours' = [neighbours EXCEPT ![c.to] = @ \union {Sender(c)}]
        BY <3>2, <4>1, <4>3 DEF TypeOK
      <4> QED
        BY <3>2, <4>2, <4>3 DEF Arrive
    <3>4. CASE UNCHANGED <<received, log, recvCount>>
      BY <2>1, <3>2, <3>3, <3>4 DEF TypeOK
    <3>5. CASE AcceptNew(c) /\ (LocalDeliver(c) \/ NoDelivery)
      <4>1. received' \in [Nodes -> [Modes -> [Nodes -> [Services -> SUBSET (0 .. SeqMod - 1)]]]]
        BY <3>5, AcceptEffect
      <4>2. CASE NoDelivery
        BY <2>1, <3>2, <3>3, <4>1, <4>2 DEF NoDelivery, TypeOK
      <4>3. CASE LocalDeliver(c)
        <5>1. log' \in [Nodes -> SUBSET Frames]
          BY <3>2, <4>3 DEF LocalDeliver, TypeOK
        <5>2. recvCount' \in [Nodes -> [Services -> Nat]]
          <6>1. [s \in Services |-> IF s = c.pkt.svc THEN recvCount[c.to][s] + 1
                                    ELSE recvCount[c.to][s]] \in [Services -> Nat]
            BY <3>2 DEF TypeOK
          <6>2. recvCount' = [recvCount EXCEPT ![c.to] =
                  [s \in Services |-> IF s = c.pkt.svc THEN recvCount[c.to][s] + 1
                                      ELSE recvCount[c.to][s]]]
            BY <4>3 DEF LocalDeliver
          <6> QED
            BY <6>1, <6>2, <3>2 DEF TypeOK
        <5> QED
          BY <2>1, <3>2, <3>3, <4>1, <5>1, <5>2 DEF TypeOK
      <4> QED
        BY <3>5, <4>2, <4>3
    <3> QED
      BY <3>1, <3>4, <3>5, ReceiveEffect
  <2>4. CASE \E n \in Nodes : CleanTable(n)
    BY <2>1, <2>4 DEF CleanTable, TypeOK
  <2>5. CASE UNCHANGED vars
    BY <2>1, <2>5 DEF vars, tables, TypeOK
  <2> QED
    BY <2>2, <2>3, <2>4, <2>5 DEF Next
<1> QED
  BY <1>1, <1>2, PTL DEF Spec

\* A neighbour is a station whose MAC address is known, see the property.
THEOREM NeighbourHasAddressCorrect == Spec => []NeighbourHasAddress
<1>1. Init => NeighbourHasAddress
  BY DEF Init, NeighbourHasAddress
<1>2. TypeOK /\ NeighbourHasAddress /\ [Next]_vars => NeighbourHasAddress'
  <2> SUFFICES ASSUME TypeOK, NeighbourHasAddress, [Next]_vars PROVE NeighbourHasAddress'
    OBVIOUS
  <2>1. CASE \E f \in Flows : SendPacket(f)
    BY <2>1 DEF SendPacket, tables, NeighbourHasAddress
  <2>2. CASE \E c \in air : Receive(c)
    <3>1. PICK c \in air : Arrive(c)
      BY <2>2, ReceiveEffect
    <3> QED
      BY <3>1 DEF Arrive, NeighbourHasAddress, TypeOK
  <2>3. CASE (\E n \in Nodes : CleanTable(n)) \/ UNCHANGED vars
    BY <2>3 DEF CleanTable, vars, tables, NeighbourHasAddress, TypeOK
  <2> QED
    BY <2>1, <2>2, <2>3 DEF Next
<1> QED
  BY <1>1, <1>2, TypeCorrect, PTL DEF Spec

-----------------------------------------------------------------------------
(* The packets that were sent.                                             *)

SentInv ==
  /\ \A p \in sent : \E f \in Flows : p.src = f.src /\ p.svc = f.svc /\ p.mode = f.mode
                                      /\ p.hops = f.hops
  /\ \A p \in sent : p.num \in 1 .. sendCount[p.src][p.svc] /\ p.num <= MaxSend
  /\ \A p, q \in sent : p.src = q.src /\ p.svc = q.svc /\ p.num = q.num => p = q

\* Every packet has a number of its own, counted from 1.
LEMMA SentStep == TypeOK /\ SentInv /\ [Next]_vars => SentInv'
<1> SUFFICES ASSUME TypeOK, SentInv, [Next]_vars PROVE SentInv'
  OBVIOUS
<1>1. CASE \E f \in Flows : SendPacket(f)
  <2>1. PICK f \in Flows : SendPacket(f)
    BY <1>1
  <2> DEFINE p == NewPacket(f)
  <2>2. /\ p \in Packets /\ p.num <= MaxSend
        /\ p.src = f.src /\ p.svc = f.svc /\ p.mode = f.mode /\ p.hops = f.hops
        /\ p.num = sendCount[f.src][f.svc] + 1
        /\ sendCount' = [sendCount EXCEPT ![f.src][f.svc] = p.num]
        /\ sent' = sent \union {p}
    BY <2>1, SendEffect
  <2> HIDE DEF p
  <2>3. f.src \in Nodes /\ f.svc \in Services
    BY GeoNetAssumption
  <2>4. sendCount[f.src][f.svc] \in Nat
    BY <2>3 DEF TypeOK
  <2>5. \A n \in Nodes : \A s \in Services :
          sendCount'[n][s] = IF n = f.src /\ s = f.svc THEN p.num ELSE sendCount[n][s]
    BY <2>2, <2>3 DEF TypeOK
  <2>6. p.num \in 1 .. sendCount'[p.src][p.svc]
    BY <2>2, <2>3, <2>4, <2>5
  <2>7. \A q \in sent : /\ q.src \in Nodes /\ q.svc \in Services /\ q.num \in Nat
                        /\ sendCount[q.src][q.svc] \in Nat
    BY DEF TypeOK, Packets
  <2>8. \A q \in sent : q.num \in 1 .. sendCount'[q.src][q.svc]
    BY <2>2, <2>4, <2>5, <2>7 DEF SentInv
  <2>9. \A q \in sent : q.src = p.src /\ q.svc = p.svc => q.num # p.num
    BY <2>2, <2>4, <2>7 DEF SentInv
  <2>10. \A q \in sent' : \E g \in Flows : q.src = g.src /\ q.svc = g.svc /\ q.mode = g.mode
                                           /\ q.hops = g.hops
    BY <2>2 DEF SentInv
  <2>11. \A q \in sent' : q.num \in 1 .. sendCount'[q.src][q.svc] /\ q.num <= MaxSend
    BY <2>2, <2>6, <2>8 DEF SentInv
  <2>12. \A q, r \in sent' : q.src = r.src /\ q.svc = r.svc /\ q.num = r.num => q = r
    BY <2>2, <2>9 DEF SentInv
  <2> QED
    BY <2>10, <2>11, <2>12 DEF SentInv
<1>2. CASE \E c \in air : Receive(c)
  <2>1. UNCHANGED <<sendCount, sent>>
    BY <1>2, ReceiveEffect
  <2> QED
    BY <2>1 DEF SentInv
<1>3. CASE (\E n \in Nodes : CleanTable(n)) \/ UNCHANGED vars
  <2>1. UNCHANGED <<sendCount, sent>>
    BY <1>3 DEF CleanTable, vars
  <2> QED
    BY <2>1 DEF SentInv
<1> QED
  BY <1>1, <1>2, <1>3 DEF Next

\* A packet that is sent is a new one.
LEMMA SentIsNew ==
  ASSUME TypeOK, SentInv, NEW f \in Flows, SendPacket(f)
  PROVE  NewPacket(f) \notin sent
<1>1. NewPacket(f).src = f.src /\ NewPacket(f).svc = f.svc
      /\ NewPacket(f).num = sendCount[f.src][f.svc] + 1
  BY NewPacketType
<1>2. sendCount[f.src][f.svc] \in Nat
  BY GeoNetAssumption DEF TypeOK
<1> QED
  BY <1>1, <1>2 DEF SentInv

-----------------------------------------------------------------------------
(* One application per station and protocol: what was received stays in    *)
(* the table, and what is in the table is not relayed or handed up again.  *)

KnownAt(n, p) == SeqNb(p) \in received[n][p.mode][p.src][p.svc]

\* Every station on the way of a packet, and every station that handed it to
\* the application, has its number in the table.
WayKnown ==
  /\ \A c \in AllFrames :
       /\ c.pkt \in sent
       /\ \A i \in 1 .. Len(c.path) : c.path[i] = c.pkt.src \/ KnownAt(c.path[i], c.pkt)
  /\ \A n \in Nodes : \A c \in log[n] : KnownAt(n, c.pkt) /\ c.pkt.src # n /\ c.to = n

OnceInv == SentInv /\ WayKnown /\ LoopFree /\ Once

\* The frames of a history are among all frames, and have their types.
LEMMA FramesAll ==
  ASSUME TypeOK
  PROVE  /\ \A n \in Nodes : log[n] \subseteq AllFrames
         /\ air \subseteq AllFrames
         /\ \A c \in AllFrames : c \in air \/ \E n \in Nodes : c \in log[n]
         /\ \A c \in AllFrames : c \in Frames /\ c.path \in Seq(Nodes) /\ c.pkt \in Packets
<1>1. /\ \A n \in Nodes : log[n] \subseteq AllFrames
      /\ air \subseteq AllFrames
      /\ \A c \in AllFrames : c \in air \/ \E n \in Nodes : c \in log[n]
  BY DEF AllFrames
<1>2. \A c \in AllFrames : c \in Frames
  BY <1>1 DEF TypeOK
<1> QED
  BY <1>1, <1>2 DEF Frames

\* After a step, a frame was there before or is on the air for the first time.
LEMMA FramesAfter ==
  ASSUME TypeOK, TypeOK', [Next]_vars, NEW d \in AllFrames'
  PROVE  d \in AllFrames \/ d \in air'
<1>1. d \in air' \/ \E n \in Nodes : d \in log'[n]
  BY DEF AllFrames
<1>2. ASSUME NEW n \in Nodes, d \in log'[n] PROVE d \in AllFrames
  <2>1. CASE log' = log
    BY <1>2, <2>1, FramesAll
  <2>2. CASE \E c \in air : LocalDeliver(c)
    <3>1. PICK c \in air : LocalDeliver(c)
      BY <2>2
    <3>2. d = c \/ d \in log[n]
      BY <1>2, <3>1 DEF LocalDeliver, TypeOK
    <3> QED
      BY <3>2, FramesAll
  <2> QED
    BY <2>1, <2>2, LogAfter DEF NoDelivery
<1> QED
  BY <1>1, <1>2

\* With one sending application per station, a table forgets nothing.
LEMMA KnownStays ==
  ASSUME OneSender, TypeOK, SentInv, WayKnown, [Next]_vars,
         NEW n \in Nodes, NEW p \in sent, KnownAt(n, p)
  PROVE  KnownAt(n, p)'
<1>1. CASE UNCHANGED received
  BY <1>1 DEF KnownAt
<1>2. CASE \E c \in air : AcceptNew(c)
  <2>1. PICK c \in air : AcceptNew(c)
    BY <1>2
  <2>2. c.pkt \in sent
    BY FramesAll DEF WayKnown
  <2>3. p.mode \in Modes /\ p.src \in Nodes /\ p.svc \in Services
    BY DEF TypeOK, Packets
  <2>4. received'[n][p.mode][p.src] =
          IF n = c.to /\ p.mode = c.pkt.mode /\ p.src = c.pkt.src
          THEN Recorded(received[n][p.mode][p.src], c.pkt)
          ELSE received[n][p.mode][p.src]
    BY <2>1, <2>3, AcceptEffect
  <2>5. p.mode = c.pkt.mode /\ p.src = c.pkt.src => p.svc = c.pkt.svc
    BY <2>2 DEF SentInv, OneSender
  <2>6. SeqNb(p) \in received'[n][p.mode][p.src][p.svc]
    BY <2>3, <2>4, <2>5 DEF Recorded, KnownAt
  <2> QED
    BY <2>6 DEF KnownAt
<1> QED
  BY <1>1, <1>2, LogAfter

\* Accepting a packet puts its number in the table.
LEMMA KnownAfterAccept ==
  ASSUME TypeOK, NEW c \in air, AcceptNew(c)
  PROVE  KnownAt(c.to, c.pkt)' /\ ~KnownAt(c.to, c.pkt) /\ c.to # c.pkt.src
<1>1. c.to \in Nodes /\ c.pkt.mode \in Modes /\ c.pkt.src \in Nodes /\ c.pkt.svc \in Services
  BY FrameType
<1>2. received'[c.to][c.pkt.mode][c.pkt.src] = Recorded(received[c.to][c.pkt.mode][c.pkt.src], c.pkt)
  BY <1>1, AcceptEffect
<1>3. SeqNb(c.pkt) \in received'[c.to][c.pkt.mode][c.pkt.src][c.pkt.svc]
  BY <1>1, <1>2 DEF Recorded
<1> QED
  BY <1>3 DEF KnownAt, AcceptNew, Duplicate

\* A path that grows by a station.
LEMMA PathGrows ==
  ASSUME NEW path \in Seq(Nodes), NEW n \in Nodes
  PROVE  /\ Len(Append(path, n)) = Len(path) + 1
         /\ \A i \in 1 .. Len(path) : Append(path, n)[i] = path[i]
         /\ Append(path, n)[Len(path) + 1] = n
  OBVIOUS

\* One step keeps the numbers of a packet known along its way.
LEMMA WayStep ==
  ASSUME OneSender, TypeOK, TypeOK', SentInv, WayKnown, [Next]_vars
  PROVE  WayKnown'
<1>0. sent \subseteq sent'
  <2>1. CASE \E f \in Flows : SendPacket(f)
    BY <2>1 DEF SendPacket
  <2>2. CASE \E c \in air : Receive(c)
    BY <2>2, ReceiveEffect
  <2>3. CASE (\E n \in Nodes : CleanTable(n)) \/ UNCHANGED vars
    BY <2>3 DEF CleanTable, vars
  <2> QED
    BY <2>1, <2>2, <2>3 DEF Next
<1>1. ASSUME NEW d \in AllFrames
      PROVE  /\ d.pkt \in sent'
             /\ \A i \in 1 .. Len(d.path) : d.path[i] = d.pkt.src \/ KnownAt(d.path[i], d.pkt)'
  <2>1. d.pkt \in sent /\ d.path \in Seq(Nodes)
    BY FramesAll DEF WayKnown
  <2>2. ASSUME NEW i \in 1 .. Len(d.path), d.path[i] # d.pkt.src
        PROVE  KnownAt(d.path[i], d.pkt)'
    <3>1. KnownAt(d.path[i], d.pkt) /\ d.path[i] \in Nodes
      BY <2>1, <2>2 DEF WayKnown
    <3> QED
      BY <2>1, <3>1, KnownStays
  <2> QED
    BY <1>0, <2>1, <2>2
<1>2. ASSUME NEW d \in air'
      PROVE  /\ d.pkt \in sent'
             /\ \A i \in 1 .. Len(d.path) : d.path[i] = d.pkt.src \/ KnownAt(d.path[i], d.pkt)'
  <2>1. CASE d \in air
    BY <2>1, <1>1, FramesAll
  <2>2. CASE \E f \in Flows : SendPacket(f) /\ d.pkt = NewPacket(f) /\ d.path = <<NewPacket(f).src>>
    <3>1. PICK f \in Flows : SendPacket(f) /\ d.pkt = NewPacket(f) /\ d.path = <<NewPacket(f).src>>
      BY <2>2
    <3>2. sent' = sent \union {NewPacket(f)}
      BY <3>1, SendEffect
    <3>3. Len(d.path) = 1 /\ d.path[1] = d.pkt.src
      BY <3>1
    <3>4. \A i \in 1 .. Len(d.path) : d.path[i] = d.pkt.src
      BY <3>3
    <3> QED
      BY <3>1, <3>2, <3>4
  <2>3. CASE \E c \in air : AcceptNew(c) /\ d.pkt = c.pkt /\ d.path = Append(c.path, c.to)
    <3>1. PICK c \in air : AcceptNew(c) /\ d.pkt = c.pkt /\ d.path = Append(c.path, c.to)
      BY <2>3
    <3>2. c.path \in Seq(Nodes) /\ c.to \in Nodes
      BY FrameType
    <3>3. KnownAt(c.to, c.pkt)'
      BY <3>1, KnownAfterAccept
    <3>4. /\ c.pkt \in sent'
          /\ \A i \in 1 .. Len(c.path) : c.path[i] = c.pkt.src \/ KnownAt(c.path[i], c.pkt)'
      BY <1>1, FramesAll
    <3>5. ASSUME NEW i \in 1 .. Len(d.path)
          PROVE  d.path[i] = d.pkt.src \/ KnownAt(d.path[i], d.pkt)'
      <4>1. CASE i \in 1 .. Len(c.path)
        <5>1. d.path[i] = c.path[i]
          BY <4>1, <3>1, <3>2, PathGrows
        <5> QED
          BY <5>1, <4>1, <3>1, <3>4
      <4>2. CASE i = Len(c.path) + 1
        <5>1. d.path[i] = c.to
          BY <4>2, <3>1, <3>2, PathGrows
        <5> QED
          BY <5>1, <3>1, <3>3
      <4>3. i \in 1 .. Len(c.path) \/ i = Len(c.path) + 1
        BY <3>1, <3>2, PathGrows
      <4> QED
        BY <4>1, <4>2, <4>3
    <3> QED
      BY <3>1, <3>4, <3>5
  <2> QED
    BY <2>1, <2>2, <2>3, AirAfter
<1>3. ASSUME NEW n \in Nodes, NEW d \in log'[n]
      PROVE  KnownAt(n, d.pkt)' /\ d.pkt.src # n /\ d.to = n
  <2>1. CASE d \in log[n]
    <3>1. KnownAt(n, d.pkt) /\ d.pkt.src # n /\ d.to = n /\ d.pkt \in sent
      BY <2>1, FramesAll DEF WayKnown
    <3> QED
      BY <3>1, KnownStays
  <2>2. CASE \E c \in air : AcceptNew(c) /\ d = c /\ n = c.to
    BY <2>2, KnownAfterAccept
  <2>3. CASE \E c \in air : AcceptNew(c) /\ LocalDeliver(c)
    BY <2>1, <2>2, <2>3 DEF LocalDeliver, TypeOK
  <2> QED
    BY <2>1, <2>3, LogAfter DEF NoDelivery
<1>4. \A d \in AllFrames' :
        /\ d.pkt \in sent'
        /\ \A i \in 1 .. Len(d.path) : d.path[i] = d.pkt.src \/ KnownAt(d.path[i], d.pkt)'
  BY <1>1, <1>2, FramesAfter
<1> QED
  BY <1>3, <1>4 DEF WayKnown

\* A station appends itself to a path only if it is not on it.
LEMMA LoopFreeStep ==
  ASSUME TypeOK, TypeOK', WayKnown, LoopFree, [Next]_vars
  PROVE  LoopFree'
<1> SUFFICES ASSUME NEW d \in AllFrames', NEW i \in 1 .. Len(d.path), NEW j \in 1 .. Len(d.path),
                    d.path[i] = d.path[j]
             PROVE  i = j
  BY DEF LoopFree
<1>1. CASE d \in AllFrames
  BY <1>1 DEF LoopFree
<1>2. CASE \E f \in Flows : d.path = <<NewPacket(f).src>>
  BY <1>2
<1>3. CASE \E c \in air : AcceptNew(c) /\ d.pkt = c.pkt /\ d.path = Append(c.path, c.to)
  <2>1. PICK c \in air : AcceptNew(c) /\ d.pkt = c.pkt /\ d.path = Append(c.path, c.to)
    BY <1>3
  <2>2. c.path \in Seq(Nodes) /\ c.to \in Nodes /\ c \in AllFrames
    BY FrameType, FramesAll
  <2>3. ~KnownAt(c.to, c.pkt) /\ c.to # c.pkt.src
    BY <2>1, KnownAfterAccept
  <2>4. \A k \in 1 .. Len(c.path) : c.path[k] # c.to
    BY <2>2, <2>3 DEF WayKnown
  <2>5. \A k, l \in 1 .. Len(c.path) : c.path[k] = c.path[l] => k = l
    BY <2>2 DEF LoopFree
  <2>6. /\ Len(d.path) = Len(c.path) + 1 /\ Len(c.path) \in Nat
        /\ \A k \in 1 .. Len(c.path) : d.path[k] = c.path[k]
        /\ d.path[Len(c.path) + 1] = c.to
    BY <2>1, <2>2, PathGrows
  <2>7. (i \in 1 .. Len(c.path) \/ i = Len(c.path) + 1)
        /\ (j \in 1 .. Len(c.path) \/ j = Len(c.path) + 1)
    BY <2>6
  <2>8. CASE i \in 1 .. Len(c.path) /\ j \in 1 .. Len(c.path)
    BY <2>5, <2>6, <2>8
  <2>9. CASE i = Len(c.path) + 1 /\ j \in 1 .. Len(c.path)
    BY <2>4, <2>6, <2>9
  <2>10. CASE i \in 1 .. Len(c.path) /\ j = Len(c.path) + 1
    BY <2>4, <2>6, <2>10
  <2> QED
    BY <2>7, <2>8, <2>9, <2>10
<1>4. d \in AllFrames \/ d \in air'
  BY FramesAfter
<1> QED
  BY <1>1, <1>2, <1>3, <1>4, AirAfter, FramesAll

\* A packet is handed up only where its number is not yet in the table.
LEMMA OnceStep ==
  ASSUME TypeOK, WayKnown, Once, [Next]_vars
  PROVE  Once'
<1>1. CASE log' = log
  BY <1>1 DEF Once
<1>2. CASE \E c \in air : AcceptNew(c) /\ LocalDeliver(c)
  <2>1. PICK c \in air : AcceptNew(c) /\ LocalDeliver(c)
    BY <1>2
  <2>2. c.to \in Nodes
    BY FrameType
  <2>3. ~KnownAt(c.to, c.pkt)
    BY <2>1, KnownAfterAccept
  <2>4. \A d \in log[c.to] : d.pkt # c.pkt
    BY <2>2, <2>3 DEF WayKnown
  <2>5. \A n \in Nodes : log'[n] = IF n = c.to THEN log[n] \union {c} ELSE log[n]
    BY <2>1, <2>2 DEF LocalDeliver, TypeOK
  <2>6. ASSUME NEW n \in Nodes, NEW d \in log'[n], NEW e \in log'[n], d.pkt = e.pkt
        PROVE  d = e
    <3>1. CASE d \in log[n] /\ e \in log[n]
      BY <3>1, <2>6 DEF Once
    <3>2. CASE n = c.to /\ (d = c \/ e = c)
      <4>1. log'[n] = log[c.to] \union {c}
        BY <3>2, <2>2, <2>5
      <4>2. d \in log[c.to] => d.pkt # c.pkt
        BY <2>4
      <4>3. e \in log[c.to] => e.pkt # c.pkt
        BY <2>4
      <4> QED
        BY <4>1, <4>2, <4>3, <3>2, <2>6
    <3> QED
      BY <3>1, <3>2, <2>5
  <2> QED
    BY <2>6 DEF Once
<1> QED
  BY <1>1, <1>2, LogAfter DEF NoDelivery

\* The strengthened invariant behind the next theorems.
LEMMA OnceInvCorrect == ASSUME OneSender PROVE Spec => []OnceInv
<1>1. Init => OnceInv
  <2> SUFFICES ASSUME Init PROVE OnceInv
    OBVIOUS
  <2>1. sent = {} /\ AllFrames = {} /\ \A n \in Nodes : log[n] = {}
    BY DEF Init, AllFrames
  <2> QED
    BY <2>1 DEF OnceInv, SentInv, WayKnown, LoopFree, Once
<1>2. TypeOK /\ TypeOK' /\ OnceInv /\ [Next]_vars => OnceInv'
  BY SentStep, WayStep, LoopFreeStep, OnceStep DEF OnceInv
<1> QED
  BY <1>1, <1>2, TypeCorrect, PTL DEF Spec

\* Where one application sends, its packets are handed up at most once.
THEOREM OnceCorrect == ASSUME OneSender PROVE Spec => []Once
<1>1. OnceInv => Once
  BY DEF OnceInv
<1> QED
  BY <1>1, OnceInvCorrect, PTL

\* And they travel in no circle.
THEOREM LoopFreeCorrect == ASSUME OneSender PROVE Spec => []LoopFree
<1>1. OnceInv => LoopFree
  BY DEF OnceInv
<1> QED
  BY <1>1, OnceInvCorrect, PTL

-----------------------------------------------------------------------------
(* Fewer packets than sequence numbers: a number in the table is that of a *)
(* packet that was handed up, so no flood is suppressed by another one.    *)

FramesSent == \A c \in AllFrames : c.pkt \in sent

\* Every number that the table of the topological broadcast holds is the
\* number of a packet the application was handed.
TableHonest ==
  \A n, src \in Nodes : \A s \in Services : \A k \in received[n]["TSB"][src][s] :
    \E c \in log[n] : /\ c.pkt.mode = "TSB" /\ c.pkt.src = src /\ c.pkt.svc = s
                      /\ SeqNb(c.pkt) = k

GapsInv == SentInv /\ FramesSent /\ TableHonest /\ NoGaps

\* Frames are of packets that were sent.
LEMMA FramesSentStep ==
  ASSUME TypeOK, TypeOK', FramesSent, [Next]_vars
  PROVE  FramesSent'
<1>0. sent \subseteq sent'
  <2>1. CASE \E f \in Flows : SendPacket(f)
    BY <2>1 DEF SendPacket
  <2>2. CASE \E c \in air : Receive(c)
    BY <2>2, ReceiveEffect
  <2>3. CASE (\E n \in Nodes : CleanTable(n)) \/ UNCHANGED vars
    BY <2>3 DEF CleanTable, vars
  <2> QED
    BY <2>1, <2>2, <2>3 DEF Next
<1>1. ASSUME NEW d \in air' PROVE d.pkt \in sent'
  <2>1. CASE d \in air
    BY <2>1, <1>0, FramesAll DEF FramesSent
  <2>2. CASE \E f \in Flows : SendPacket(f) /\ d.pkt = NewPacket(f)
    <3>1. PICK f \in Flows : SendPacket(f) /\ d.pkt = NewPacket(f)
      BY <2>2
    <3>2. sent' = sent \union {NewPacket(f)}
      BY <3>1, SendEffect
    <3> QED
      BY <3>1, <3>2
  <2>3. CASE \E c \in air : d.pkt = c.pkt
    BY <2>3, <1>0, FramesAll DEF FramesSent
  <2> QED
    BY <2>1, <2>2, <2>3, AirAfter
<1> QED
  BY <1>0, <1>1, FramesAfter DEF FramesSent

\* Accepting a topological broadcast hands it up.
LEMMA TableHonestStep ==
  ASSUME TypeOK, TypeOK', TableHonest, [Next]_vars
  PROVE  TableHonest'
<1>1. CASE UNCHANGED <<received, log>>
  BY <1>1 DEF TableHonest
<1>2. CASE \E c \in air : Receive(c) /\ AcceptNew(c)
  <2>1. PICK c \in air : /\ AcceptNew(c) /\ (LocalDeliver(c) \/ NoDelivery)
                         /\ c.pkt.mode = "TSB" => LocalDeliver(c)
    BY <1>2, ReceiveEffect DEF AcceptNew
  <2>2. /\ c.to \in Nodes /\ c.pkt \in Packets /\ c.pkt.mode \in Modes /\ "TSB" \in Modes
        /\ c.pkt.src \in Nodes /\ c.pkt.svc \in Services
    BY FrameType DEF Modes
  <2>3. \A n \in Nodes : log[n] \subseteq log'[n] /\ (LocalDeliver(c) => c \in log'[c.to])
    BY <2>1, <2>2 DEF LocalDeliver, NoDelivery, TypeOK
  <2>4. ASSUME NEW n \in Nodes, NEW src \in Nodes, NEW s \in Services,
               NEW k \in received'[n]["TSB"][src][s]
        PROVE  \E d \in log'[n] : /\ d.pkt.mode = "TSB" /\ d.pkt.src = src /\ d.pkt.svc = s
                                  /\ SeqNb(d.pkt) = k
    <3>1. received'[n]["TSB"][src] =
            IF n = c.to /\ "TSB" = c.pkt.mode /\ src = c.pkt.src
            THEN Recorded(received[n]["TSB"][src], c.pkt)
            ELSE received[n]["TSB"][src]
      BY <2>1, <2>2, AcceptEffect
    <3>2. CASE k \in received[n]["TSB"][src][s]
      BY <3>2, <2>3 DEF TableHonest
    <3>3. CASE k \notin received[n]["TSB"][src][s]
      <4>1. /\ n = c.to /\ "TSB" = c.pkt.mode /\ src = c.pkt.src
            /\ k \in Recorded(received[n]["TSB"][src], c.pkt)[s]
        BY <3>1, <3>3
      <4>2. s = c.pkt.svc /\ k = SeqNb(c.pkt)
        BY <4>1, <3>3 DEF Recorded
      <4> QED
        BY <4>1, <4>2, <2>1, <2>3
    <3> QED
      BY <3>2, <3>3
  <2> QED
    BY <2>4 DEF TableHonest
<1>3. CASE \E c \in air : Receive(c)
  BY <1>1, <1>2, <1>3, ReceiveEffect
<1>4. CASE \E f \in Flows : SendPacket(f)
  BY <1>1, <1>4 DEF SendPacket, tables
<1>5. CASE (\E n \in Nodes : CleanTable(n)) \/ UNCHANGED vars
  BY <1>1, <1>5 DEF CleanTable, vars, tables
<1> QED
  BY <1>3, <1>4, <1>5 DEF Next

\* While numbers do not wrap around, they tell the packets of a source apart.
LEMMA NumbersDistinct ==
  ASSUME MaxSend < SeqMod, TypeOK, SentInv, NEW p \in sent, NEW q \in sent,
         p.src = q.src, p.svc = q.svc, SeqNb(p) = SeqNb(q)
  PROVE  p = q
<1>1. p.num \in Nat /\ q.num \in Nat /\ p.num <= MaxSend /\ q.num <= MaxSend
  BY DEF SentInv, TypeOK, Packets
<1>2. SeqMod \in Nat \ {0} /\ MaxSend \in Nat
  BY GeoNetAssumption
<1>3. p.num % SeqMod = p.num /\ q.num % SeqMod = q.num
  BY <1>1, <1>2
<1> QED
  BY <1>3 DEF SeqNb, SentInv

\* A station relays a packet, unless its hop limit is used up.
LEMMA NextHopZero ==
  ASSUME NEW h \in 0 .. HopMod - 1
  PROVE  NextHop(h) = 0 <=> h = 1
<1>1. HopMod \in Nat \ {0, 1}
  BY GeoNetAssumption
<1>2. CASE h = 0
  <2>1. (0 - 1) % HopMod = HopMod - 1
    BY <1>1
  <2> QED
    BY <1>1, <1>2, <2>1 DEF NextHop
<1>3. CASE h # 0
  <2>1. (h - 1) \in 0 .. HopMod - 1
    BY <1>1, <1>3
  <2>2. (h - 1) % HopMod = h - 1
    BY <1>1, <2>1
  <2> QED
    BY <1>1, <1>3, <2>2 DEF NextHop
<1> QED
  BY <1>2, <1>3

\* A frame of a transmission is there for each of its receivers.
LEMMA FrameForEach ==
  ASSUME NEW n, NEW p, NEW hop, NEW path, NEW R, NEW m \in R
  PROVE  \E d \in Transmitted(n, p, hop, path, R) : d.to = m /\ d.pkt = p
<1> DEFINE d == [to |-> m, pkt |-> p, hop |-> hop, path |-> Append(path, n)]
<1>1. d \in Transmitted(n, p, hop, path, R)
  BY DEF Transmitted
<1>2. d.to = m /\ d.pkt = p
  OBVIOUS
<1> HIDE DEF d
<1> QED
  BY <1>1, <1>2

\* What a reception does to the history of each station.
LEMMA LogEffect ==
  ASSUME TypeOK, NEW c \in air, Receive(c), NEW n \in Nodes
  PROVE  \/ log'[n] = log[n]
         \/ n = c.to /\ AcceptNew(c) /\ LocalDeliver(c) /\ Relayed(c) /\ log'[n] = log[n] \union {c}
<1>1. c.to \in Nodes
  BY FrameType
<1>2. CASE log' = log
  BY <1>2
<1>3. CASE AcceptNew(c) /\ LocalDeliver(c) /\ Relayed(c)
  <2>1. log' = [log EXCEPT ![c.to] = log[c.to] \union {c}]
    BY <1>3 DEF LocalDeliver
  <2> QED
    BY <2>1, <1>1, <1>3 DEF TypeOK
<1> QED
  BY <1>2, <1>3, ReceiveEffect DEF NoDelivery

\* The condition of NoGaps for one relay and one station that hears it.
Served(p, m) == m = p.src \/ HasGot(m, p) \/ \E c \in air : c.to = m /\ c.pkt = p

\* Sending a packet serves those that hear the source, and no one else less.
LEMMA NoGapsSend ==
  ASSUME TypeOK, SentInv, FramesSent, NoGaps, NEW f \in Flows, SendPacket(f)
  PROVE  NoGaps'
<1> DEFINE p == NewPacket(f)
<1>1. /\ sent' = sent \union {p} /\ log' = log /\ p \in Packets
      /\ \E R \in SUBSET Nodes :
           /\ p.mode = "TSB" => Reliable[p.src] \subseteq R
           /\ air' = air \union Transmitted(p.src, p, FirstHop(p), <<>>, R)
  BY SendEffect
<1>2. p \notin sent
  BY SentIsNew
<1> HIDE DEF p
<1>3. PICK R \in SUBSET Nodes :
        /\ p.mode = "TSB" => Reliable[p.src] \subseteq R
        /\ air' = air \union Transmitted(p.src, p, FirstHop(p), <<>>, R)
  BY <1>1
<1>4. ASSUME NEW q \in sent', q.mode = "TSB", NEW n \in Relays(q)', NEW m \in Reliable[n]
      PROVE  Served(q, m)'
  <2>1. CASE q \in sent
    <3>1. n \in Relays(q)
      BY <1>1 DEF Relays
    <3>2. Served(q, m)
      BY <2>1, <3>1, <1>4 DEF NoGaps, Served
    <3> QED
      BY <3>2, <1>1, <1>3 DEF Served, HasGot
  <2>2. CASE q = p
    <3>1. \A k \in Nodes : \A c \in log[k] : c.pkt # p
      BY <1>2, FramesAll DEF FramesSent
    <3>2. n = p.src
      BY <2>2, <3>1, <1>1, <1>4 DEF Relays
    <3>3. m \in R
      BY <3>2, <2>2, <1>3, <1>4
    <3>4. \E d \in Transmitted(p.src, p, FirstHop(p), <<>>, R) : d.to = m /\ d.pkt = p
      BY <3>3, FrameForEach
    <3> QED
      BY <3>4, <2>2, <1>3 DEF Served
  <2> QED
    BY <2>1, <2>2, <1>1
<1> QED
  BY <1>4 DEF NoGaps, Served

\* Receiving a frame serves its receiver, and those that hear it if it relays.
LEMMA NoGapsReceive ==
  ASSUME MaxSend < SeqMod, TypeOK, SentInv, FramesSent, TableHonest, NoGaps,
         NEW c \in air, Receive(c)
  PROVE  NoGaps'
<1>0. /\ c.to \in Nodes /\ c.pkt \in Packets /\ c.hop \in 0 .. HopMod - 1 /\ c.pkt \in sent
      /\ c.pkt.mode \in Modes /\ c.pkt.src \in Nodes /\ c.pkt.svc \in Services
  BY FrameType, FramesAll DEF FramesSent
<1>1. sent' = sent
  BY ReceiveEffect
<1>2. air \ {c} \subseteq air'
  BY ReceiveEffect DEF Relayed
<1>3. \A n \in Nodes : log[n] \subseteq log'[n]
  BY LogEffect
<1>4. c.pkt.mode = "TSB" => c.to = c.pkt.src \/ HasGot(c.to, c.pkt)'
  <2> SUFFICES ASSUME c.pkt.mode = "TSB", c.to # c.pkt.src PROVE HasGot(c.to, c.pkt)'
    OBVIOUS
  <2>1. CASE Duplicate(c.to, c.pkt)
    <3>1. SeqNb(c.pkt) \in received[c.to]["TSB"][c.pkt.src][c.pkt.svc]
      BY <2>1 DEF Duplicate
    <3>2. PICK d \in log[c.to] : /\ d.pkt.src = c.pkt.src /\ d.pkt.svc = c.pkt.svc
                                 /\ SeqNb(d.pkt) = SeqNb(c.pkt)
      BY <1>0, <3>1 DEF TableHonest
    <3>3. d.pkt \in sent
      BY <1>0, FramesAll DEF FramesSent
    <3>4. d.pkt = c.pkt
      BY <1>0, <3>2, <3>3, NumbersDistinct
    <3> QED
      BY <1>0, <1>3, <3>4 DEF HasGot
  <2>2. CASE LocalDeliver(c)
    BY <1>0, <2>2 DEF LocalDeliver, HasGot, TypeOK
  <2> QED
    BY <2>1, <2>2, ReceiveEffect
<1>5. ASSUME NEW q \in sent, NEW m \in Nodes, q.mode = "TSB", Served(q, m)
      PROVE  Served(q, m)'
  <2>1. CASE m = q.src \/ HasGot(m, q)
    BY <2>1, <1>3, <1>5 DEF Served, HasGot
  <2>2. CASE \E d \in air : d.to = m /\ d.pkt = q
    <3>1. PICK d \in air : d.to = m /\ d.pkt = q
      BY <2>2
    <3>2. CASE d = c
      BY <3>1, <3>2, <1>4, <1>5 DEF Served
    <3>3. CASE d # c
      BY <3>1, <3>3, <1>2 DEF Served
    <3> QED
      BY <3>2, <3>3
  <2> QED
    BY <2>1, <2>2, <1>5 DEF Served
<1>6. ASSUME NEW q \in sent, q.mode = "TSB", NEW n \in Relays(q)', n \notin Relays(q),
             NEW m \in Reliable[n]
      PROVE  Served(q, m)'
  <2>1. n \in Nodes /\ n # q.src
    BY <1>6 DEF Relays
  <2>2. PICK d \in log'[n] : d.pkt = q /\ d.hop # 1
    BY <1>6, <2>1 DEF Relays
  <2>3. d \notin log[n]
    BY <1>6, <2>1, <2>2 DEF Relays
  <2>4. LocalDeliver(c) /\ d = c /\ n = c.to /\ Relayed(c)
    BY <2>1, <2>2, <2>3, LogEffect
  <2>5. NextHop(c.hop) # 0
    BY <1>0, <2>2, <2>4, NextHopZero
  <2>6. PICK R \in SUBSET Nodes :
          /\ Reliable[c.to] \subseteq R
          /\ air' = (air \ {c}) \union Transmitted(c.to, c.pkt, NextHop(c.hop), c.path, R)
    BY <1>6, <2>2, <2>4, <2>5 DEF Relayed
  <2>7. m \in R
    BY <1>6, <2>4, <2>6
  <2>8. \E e \in Transmitted(c.to, c.pkt, NextHop(c.hop), c.path, R) : e.to = m /\ e.pkt = c.pkt
    BY <2>7, FrameForEach
  <2> QED
    BY <2>2, <2>4, <2>6, <2>8 DEF Served
<1>7. ASSUME NEW q \in sent', q.mode = "TSB", NEW n \in Relays(q)', NEW m \in Reliable[n]
      PROVE  Served(q, m)'
  <2>1. n \in Nodes
    BY DEF Relays
  <2>2. m \in Nodes
    BY <2>1, GeoNetAssumption
  <2>3. CASE n \in Relays(q)
    <3>1. Served(q, m)
      BY <2>3, <1>1, <1>7 DEF NoGaps, Served
    <3> QED
      BY <3>1, <2>2, <1>1, <1>5, <1>7
  <2> QED
    BY <2>3, <1>1, <1>6, <1>7
<1> QED
  BY <1>7 DEF NoGaps, Served

\* A flood leaves no gaps as long as numbers do not wrap around, with any
\* number of sending applications per station.
THEOREM NoGapsCorrect == ASSUME MaxSend < SeqMod PROVE Spec => []NoGaps
<1>1. Init => GapsInv
  <2> SUFFICES ASSUME Init PROVE GapsInv
    OBVIOUS
  <2>1. sent = {} /\ AllFrames = {}
    BY DEF Init, AllFrames
  <2>2. \A n, src \in Nodes : \A s \in Services : received[n]["TSB"][src][s] = {}
    BY DEF Init, Modes
  <2> QED
    BY <2>1, <2>2 DEF GapsInv, SentInv, FramesSent, TableHonest, NoGaps
<1>2. TypeOK /\ TypeOK' /\ GapsInv /\ [Next]_vars => GapsInv'
  <2> SUFFICES ASSUME TypeOK, TypeOK', GapsInv, [Next]_vars PROVE GapsInv'
    OBVIOUS
  <2>1. ASSUME \E f \in Flows : SendPacket(f) PROVE NoGaps'
    BY <2>1, NoGapsSend DEF GapsInv
  <2>2. ASSUME \E c \in air : Receive(c) PROVE NoGaps'
    BY <2>2, NoGapsReceive DEF GapsInv
  <2>3. ASSUME (\E n \in Nodes : CleanTable(n)) \/ UNCHANGED vars PROVE NoGaps'
    <3>1. UNCHANGED <<air, sent, log>>
      BY <2>3 DEF CleanTable, vars
    <3>2. NoGaps
      BY DEF GapsInv
    <3> QED
      BY <3>1, <3>2 DEF NoGaps, Relays, HasGot
  <2>4. NoGaps'
    BY <2>1, <2>2, <2>3 DEF Next
  <2> QED
    BY <2>4, SentStep, FramesSentStep, TableHonestStep DEF GapsInv
<1>3. GapsInv => NoGaps
  BY DEF GapsInv
<1> QED
  BY <1>1, <1>2, <1>3, TypeCorrect, PTL DEF Spec

-----------------------------------------------------------------------------
(* Hop limits.                                                             *)

SomeHops == \A f \in Flows : f.mode = "TSB" => f.hops # 0

\* The hops that a frame went and those that are left.
HopsLeft ==
  \A c \in AllFrames : c.pkt.mode = "TSB" =>
    c.hop # 0 /\ Len(c.path) + c.hop = c.pkt.hops + 1

\* A topological broadcast with a positive number of hops stays within it.
THEOREM HopBudgetCorrect == ASSUME SomeHops PROVE Spec => []HopBudget
<1>1. Init => HopsLeft
  BY DEF Init, HopsLeft, AllFrames
<1>2. TypeOK /\ TypeOK' /\ HopsLeft /\ [Next]_vars => HopsLeft'
  <2> SUFFICES ASSUME TypeOK, TypeOK', HopsLeft, [Next]_vars,
                      NEW d \in AllFrames', d.pkt.mode = "TSB"
               PROVE  d.hop # 0 /\ Len(d.path) + d.hop = d.pkt.hops + 1
    BY DEF HopsLeft
  <2>1. CASE d \in AllFrames
    BY <2>1 DEF HopsLeft
  <2>2. CASE \E f \in Flows : /\ d.pkt = NewPacket(f) /\ d.hop = FirstHop(NewPacket(f))
                              /\ d.path = <<NewPacket(f).src>>
    <3>1. PICK f \in Flows : /\ d.pkt = NewPacket(f) /\ d.hop = FirstHop(NewPacket(f))
                             /\ d.path = <<NewPacket(f).src>>
      BY <2>2
    <3>2. f.mode = "TSB" /\ d.hop = f.hops /\ d.pkt.hops = f.hops
      BY <3>1, NewPacketType DEF FirstHop
    <3>3. f.hops # 0 /\ f.hops \in 0 .. HopMod - 1 /\ HopMod \in Nat
      BY <3>2, GeoNetAssumption DEF SomeHops
    <3>4. Len(d.path) = 1
      BY <3>1
    <3> QED
      BY <3>2, <3>3, <3>4
  <2>3. CASE \E c \in air : /\ d.pkt = c.pkt /\ d.path = Append(c.path, c.to)
                            /\ d.hop = NextHop(c.hop) /\ d.hop # 0
    <3>1. PICK c \in air : /\ d.pkt = c.pkt /\ d.path = Append(c.path, c.to)
                           /\ d.hop = NextHop(c.hop) /\ d.hop # 0
      BY <2>3
    <3>2. /\ c.path \in Seq(Nodes) /\ c.to \in Nodes /\ c.hop \in 0 .. HopMod - 1
          /\ c.pkt.hops \in Nat
      BY FrameType DEF Packets
    <3>3. c.hop # 0 /\ Len(c.path) + c.hop = c.pkt.hops + 1
      BY <3>1, FramesAll DEF HopsLeft
    <3>4. NextHop(c.hop) = c.hop - 1
      <4>1. HopMod \in Nat \ {0, 1} /\ (c.hop - 1) \in 0 .. HopMod - 1
        BY <3>2, <3>3, GeoNetAssumption
      <4>2. (c.hop - 1) % HopMod = c.hop - 1
        BY <4>1
      <4> QED
        BY <4>2 DEF NextHop
    <3>5. Len(d.path) = Len(c.path) + 1 /\ Len(c.path) \in Nat
      BY <3>1, <3>2, PathGrows
    <3>6. c.hop \in Int
      BY <3>2, GeoNetAssumption
    <3>7. d.hop = c.hop - 1
      BY <3>1, <3>4
    <3>9. Len(d.path) + d.hop = Len(c.path) + c.hop
      BY <3>5, <3>6, <3>7
    <3>8. d.pkt.hops = c.pkt.hops
      BY <3>1
    <3> QED
      BY <3>1, <3>3, <3>8, <3>9
  <2>4. d \in AllFrames \/ d \in air'
    BY FramesAfter
  <2> QED
    BY <2>1, <2>2, <2>3, <2>4, AirAfter, FramesAll
<1>3. TypeOK /\ HopsLeft => HopBudget
  <2> SUFFICES ASSUME TypeOK, HopsLeft, NEW c \in AllFrames, c.pkt.mode = "TSB"
               PROVE  Len(c.path) <= c.pkt.hops
    BY DEF HopBudget
  <2>1. c.hop \in Nat /\ c.path \in Seq(Nodes) /\ c.pkt.hops \in Nat
    <3>1. c \in Frames /\ c.pkt \in Packets
      BY FramesAll
    <3>2. HopMod \in Nat
      BY GeoNetAssumption
    <3>3. c.hop \in 0 .. HopMod - 1 /\ c.pkt.hops \in 0 .. HopMod - 1
      BY <3>1 DEF Frames, Packets
    <3> QED
      BY <3>2, <3>3, FramesAll
  <2>2. c.hop # 0 /\ Len(c.path) + c.hop = c.pkt.hops + 1
    BY DEF HopsLeft
  <2> QED
    BY <2>1, <2>2
<1> QED
  BY <1>1, <1>2, <1>3, TypeCorrect, PTL DEF Spec

-----------------------------------------------------------------------------
(* The stack implements what Delivery promises.                            *)

\* Handing a packet up is a step of Delivery: it was sent, by another
\* station, and was not handed up at this one.
LEMMA HandUpStep ==
  ASSUME TypeOK, OnceInv, NEW c \in air, AcceptNew(c), LocalDeliver(c), UNCHANGED sent
  PROVE  D!HandUp(c.to, c.pkt)
<1>1. c.to \in Nodes /\ c.pkt \in sent
  BY FrameType, FramesAll DEF OnceInv, WayKnown
<1>2. ~KnownAt(c.to, c.pkt) /\ c.to # c.pkt.src
  BY KnownAfterAccept
<1>3. c.pkt \notin got[c.to]
  BY <1>1, <1>2 DEF got, OnceInv, WayKnown
<1>4. \A n \in Nodes : log'[n] = IF n = c.to THEN log[n] \union {c} ELSE log[n]
  BY <1>1 DEF LocalDeliver, TypeOK
<1>5. got' = [got EXCEPT ![c.to] = @ \union {c.pkt}]
  <2>1. \A n \in Nodes : {d.pkt : d \in log'[n]} =
          IF n = c.to THEN {d.pkt : d \in log[n]} \union {c.pkt} ELSE {d.pkt : d \in log[n]}
    BY <1>4
  <2> QED
    BY <2>1, <1>1 DEF got
<1>6. recvCount' = [recvCount EXCEPT ![c.to] =
        [s \in Services |-> IF s = c.pkt.svc THEN @[s] + 1 ELSE @[s]]]
  BY DEF LocalDeliver
<1> QED
  BY <1>1, <1>2, <1>3, <1>5, <1>6 DEF D!HandUp

\* With one sending application per station, the stack implements Delivery.
THEOREM DeliveryCorrect == ASSUME OneSender PROVE Spec => DeliverySpec
<1>1. Init => D!Init
  BY DEF Init, D!Init, got
<1>2. TypeOK /\ OnceInv /\ [Next]_vars => [D!Next]_<<sent, got, recvCount>>
  <2> SUFFICES ASSUME TypeOK, OnceInv, [Next]_vars
               PROVE  D!Next \/ UNCHANGED <<sent, got, recvCount>>
    OBVIOUS
  <2>1. CASE \E f \in Flows : SendPacket(f)
    <3>1. PICK f \in Flows : SendPacket(f)
      BY <2>1
    <3>2. /\ sent' = sent \union {NewPacket(f)} /\ NewPacket(f) \notin sent
          /\ UNCHANGED <<recvCount, log>>
      BY <3>1, SendEffect, SentIsNew DEF OnceInv
    <3>3. got' = got
      BY <3>2 DEF got
    <3>4. D!Send(NewPacket(f))
      BY <3>2, <3>3 DEF D!Send
    <3> QED
      BY <3>2, <3>4 DEF D!Next
  <2>2. CASE UNCHANGED <<log, recvCount, sent>>
    BY <2>2 DEF got
  <2>3. CASE \E c \in air : AcceptNew(c) /\ LocalDeliver(c) /\ UNCHANGED sent
    <3>1. PICK c \in air : AcceptNew(c) /\ LocalDeliver(c) /\ UNCHANGED sent
      BY <2>3
    <3>2. c.to \in Nodes /\ c.pkt \in sent
      BY FrameType, FramesAll DEF OnceInv, WayKnown
    <3>3. D!HandUp(c.to, c.pkt)
      BY <3>1, HandUpStep
    <3> QED
      BY <3>2, <3>3 DEF D!Next
  <2>4. CASE \E c \in air : Receive(c)
    BY <2>2, <2>3, <2>4, ReceiveEffect DEF NoDelivery
  <2>5. CASE (\E n \in Nodes : CleanTable(n)) \/ UNCHANGED vars
    BY <2>2, <2>5 DEF CleanTable, vars
  <2> QED
    BY <2>1, <2>4, <2>5 DEF Next
<1> QED
  BY <1>1, <1>2, TypeCorrect, OnceInvCorrect, PTL DEF Spec, DeliverySpec, D!Spec

=============================================================================
