------------------------- MODULE CamTracking_proofs -------------------------
(***************************************************************************)
(* Proofs about the CAM pipeline, for any number of stations and areas, of *)
(* any frequencies, that appear, are entered and left in any order.        *)
(***************************************************************************)
EXTENDS CamTracking, TLAPS

-----------------------------------------------------------------------------
(* The nodes inside an area.                                               *)

\* An area that nobody subscribed to yet has an empty vector, so the departures
\* it is not told of leave no pointer in it.
InAreaInv ==
  /\ NodesInAreaPresent
  /\ nodesInArea \in [Areas -> SUBSET nodes]
  /\ \A a \in Areas \ camAreas : nodesInArea[a] = {}

LEMMA StepInArea == InAreaInv /\ [Next]_vars => InAreaInv'
<1> SUFFICES ASSUME InAreaInv, [Next]_vars PROVE InAreaInv'
  OBVIOUS
<1> USE DEF InAreaInv, NodesInAreaPresent
<1>1. ASSUME UNCHANGED <<nodes, nodesInArea, camAreas>> PROVE InAreaInv'
  BY <1>1
<1>2. CASE DeliverLate \/ RunSimStepReturns \/ GetDataFromNs3 \/ UNCHANGED vars
  BY <1>1, <1>2 DEF DeliverLate, RunSimStepReturns, GetDataFromNs3, vars, world, tables, apps
<1>3. ASSUME NEW e \in events, SendPacket(e) PROVE InAreaInv'
  BY <1>1, <1>3 DEF SendPacket, world, tables, apps
<1>4. ASSUME NEW left, NEW last, RunOneSumoTimeStep(left, last) PROVE InAreaInv'
  <2>1. /\ nodes \ left \subseteq nodes'
        /\ nodesInArea' = RemoveNodesInTheArea(left)
        /\ camAreas' = camAreas
    BY <1>4 DEF RunOneSumoTimeStep, apps
  <2> QED BY <2>1 DEF RemoveNodesInTheArea
<1>5. ASSUME NEW subscribed \in SUBSET (Areas \ camAreas), NEW dropped,
             RunApplicationLogic(subscribed, dropped)
      PROVE  InAreaInv'
  BY <1>5 DEF RunApplicationLogic, world, tables
<1>6. CASE ScheduleV2xMessages
  <2>1. nodes' = nodes /\ nodesInArea' = UpdatedNodesInArea /\ camAreas' = camAreas
    BY <1>6 DEF ScheduleV2xMessages, world, apps
  <2> QED BY <2>1 DEF UpdatedNodesInArea
<1> QED BY <1>2, <1>3, <1>4, <1>5, <1>6 DEF Next

\* No area keeps a pointer to a node that was deleted (SubsSetCamArea::
\* m_nodesInArea, SyncManager::RemoveNodeInTheArea).
THEOREM NoDanglingNode == Spec => []NodesInAreaPresent
<1>1. Init => InAreaInv
  BY DEF Init, InAreaInv, NodesInAreaPresent
<1>2. InAreaInv => NodesInAreaPresent
  BY DEF InAreaInv
<1> QED BY <1>1, <1>2, StepInArea, PTL DEF Spec

-----------------------------------------------------------------------------
(* Chains of CAMs.  StepEnd is the time up to which ns-3 runs: outside its *)
(* turn no event before it is left, and the first event of a start, which  *)
(* cannot be cancelled, is before it.                                      *)

\* Each entry of the general subscriptions has exactly one event and the other
\* stations none.
ChainInv ==
  /\ m_simStep \in Nat
  /\ \A e, f \in events : e.from = f.from => e = f
  /\ running = DOMAIN general
  /\ \A e \in events : e.from \in DOMAIN general
  /\ \A s \in DOMAIN general : \E e \in events : e.from = s
  /\ \A e \in events : \/ e.inSendEvent = TRUE
                       \/ e.inSendEvent = FALSE /\ e.slot \in Int /\ e.slot < StepEnd
  /\ phase # "ns3" => \A e \in events : e.slot >= StepEnd

LEMMA NextStepEnd ==
  ASSUME m_simStep \in Nat, m_simStep' = m_simStep + 1
  PROVE  StepEnd \in Int /\ StepEnd' = StepEnd + SlotsPerStep
<1>1. m_simStep * SlotsPerStep \in Int /\ SlotsPerStep \in Int
  BY CamTrackingAssumption
<1>2. (m_simStep + 1) * SlotsPerStep = m_simStep * SlotsPerStep + SlotsPerStep
  BY CamTrackingAssumption
<1> QED BY <1>1, <1>2 DEF StepEnd, StepStart

LEMMA SendChain ==
  ASSUME ChainInv, NEW e \in events, SendPacket(e)
  PROVE  ChainInv'
<1> DEFINE next == [from |-> e.from, slot |-> e.slot + period[e.from], inSendEvent |-> TRUE]
<1>1. e.from \in running
  BY DEF ChainInv
<1>2. events' = (events \ {e}) \cup {next}
  BY <1>1 DEF SendPacket, ScheduleTx
<1>3. next.from = e.from /\ next.inSendEvent = TRUE
  OBVIOUS
<1>4. /\ phase = "ns3" /\ phase' = "ns3" /\ m_simStep' = m_simStep
      /\ running' = running /\ general' = general
  BY DEF SendPacket, tables
<1>5. StepEnd' = StepEnd
  BY <1>4 DEF StepEnd, StepStart
<1> HIDE DEF next
<1> QED BY <1>2, <1>3, <1>4, <1>5 DEF ChainInv

\* The stations whose frequency is commanded again are both stopped and started.
LEMMA GeneralFollows ==
  DOMAIN UpdatedGeneral = (DOMAIN general \ IdNodesToStop) \cup IdNodesToStart
BY DEF UpdatedGeneral, IdNodesToStop, IdNodesToStart, IsNodeInGeneral

LEMMA StartsAreNew ==
  ASSUME NEW s \in IdNodesToStart
  PROVE  s \in DOMAIN general => s \in IdNodesToStop
BY DEF IdNodesToStop, IdNodesToStart, IsNodeInGeneral

LEMMA ScheduleChain ==
  ASSUME ChainInv, ScheduleV2xMessages
  PROVE  ChainInv'
<1>0. PICK now \in Now : \E first \in [IdNodesToStart -> now .. now + FirstDelay] :
        events' = StopTransmitting(IdNodesToStop) \cup StartTransmitting(first)
  BY DEF ScheduleV2xMessages
<1>1. PICK first \in [IdNodesToStart -> now .. now + FirstDelay] :
        events' = StopTransmitting(IdNodesToStop) \cup StartTransmitting(first)
  BY <1>0
<1>2. /\ phase = "schedule" /\ phase' = "ns3" /\ m_simStep' = m_simStep + 1
      /\ running' = (running \ IdNodesToStop) \cup IdNodesToStart
      /\ general' = UpdatedGeneral
  BY DEF ScheduleV2xMessages
<1>3. StepEnd \in Int /\ StepEnd' = StepEnd + SlotsPerStep /\ SlotsPerStep \in Nat
  BY <1>2, NextStepEnd, CamTrackingAssumption DEF ChainInv
<1>4. \A e \in events : e.inSendEvent = TRUE
  BY <1>2, <1>3 DEF ChainInv
<1>5. StopTransmitting(IdNodesToStop) = {e \in events : e.from \notin IdNodesToStop}
  BY <1>4 DEF StopTransmitting
<1>6. now \in Int /\ now < StepEnd
  <2>1. m_simStep * SlotsPerStep \in Int
    BY CamTrackingAssumption DEF ChainInv
  <2> QED BY <2>1, <1>3 DEF Now, StepStart
<1>7. \A s \in IdNodesToStart : first[s] \in Int /\ first[s] < StepEnd'
  BY <1>3, <1>6 DEF FirstDelay
<1> DEFINE start(s) == [from |-> s, slot |-> first[s], inSendEvent |-> FALSE]
<1>8. StartTransmitting(first) = {start(s) : s \in IdNodesToStart}
  BY DEF StartTransmitting
<1>9. \A s : /\ start(s).from = s /\ start(s).inSendEvent = FALSE
             /\ start(s).slot = first[s]
  OBVIOUS
<1> HIDE DEF start
<1>10. \A e \in events' : \/ e \in events /\ e.from \notin IdNodesToStop
                          \/ e.from \in IdNodesToStart /\ e = start(e.from)
  BY <1>1, <1>5, <1>8, <1>9
<1>11. DOMAIN general' = (DOMAIN general \ IdNodesToStop) \cup IdNodesToStart
  BY <1>2, GeneralFollows
<1>12. \A e, f \in events' : e.from = f.from => e = f
  <2> SUFFICES ASSUME NEW e \in events', NEW f \in events', e.from = f.from PROVE e = f
    OBVIOUS
  <2>1. \A s \in DOMAIN general \ IdNodesToStop : s \notin IdNodesToStart
    BY StartsAreNew
  <2>2. \A g \in events : g.from \in DOMAIN general
    BY DEF ChainInv
  <2> QED BY <1>10, <2>1, <2>2 DEF ChainInv
<1>13. \A e \in events' : e.from \in DOMAIN general'
  BY <1>10, <1>11 DEF ChainInv
<1>14. \A s \in DOMAIN general' : \E e \in events' : e.from = s
  <2>1. ASSUME NEW s \in DOMAIN general \ IdNodesToStop PROVE \E e \in events' : e.from = s
    BY <1>1, <1>5 DEF ChainInv
  <2>2. ASSUME NEW s \in IdNodesToStart PROVE \E e \in events' : e.from = s
    <3>1. start(s) \in events'
      BY <1>1, <1>8
    <3> QED BY <3>1, <1>9
  <2> QED BY <2>1, <2>2, <1>11
<1>15. running' = DOMAIN general'
  BY <1>2, <1>11 DEF ChainInv
<1>16. \A e \in events' :
         \/ e.inSendEvent = TRUE
         \/ e.inSendEvent = FALSE /\ e.slot \in Int /\ e.slot < StepEnd'
  BY <1>4, <1>7, <1>9, <1>10
<1>17. m_simStep' \in Nat /\ phase' = "ns3"
  BY <1>2 DEF ChainInv
<1> QED BY <1>12, <1>13, <1>14, <1>15, <1>16, <1>17 DEF ChainInv

LEMMA StepChain == ChainInv /\ [Next]_vars => ChainInv'
<1> SUFFICES ASSUME ChainInv, [Next]_vars PROVE ChainInv'
  OBVIOUS
<1>1. ASSUME UNCHANGED <<m_simStep, events, running, general>>,
             phase' # "ns3" => phase # "ns3"
      PROVE  ChainInv'
  BY <1>1 DEF ChainInv, StepEnd, StepStart
<1>2. CASE DeliverLate \/ GetDataFromNs3 \/ UNCHANGED vars
  BY <1>1, <1>2 DEF DeliverLate, GetDataFromNs3, vars, tables, sender
<1>3. CASE RunSimStepReturns
  BY <1>3 DEF RunSimStepReturns, ChainInv, StepEnd, StepStart, tables, sender
<1>4. ASSUME NEW e \in events, SendPacket(e) PROVE ChainInv'
  BY <1>4, SendChain
<1>5. ASSUME NEW left, NEW last, RunOneSumoTimeStep(left, last) PROVE ChainInv'
  BY <1>1, <1>5 DEF RunOneSumoTimeStep, sender
<1>6. ASSUME NEW subscribed, NEW dropped, RunApplicationLogic(subscribed, dropped)
      PROVE  ChainInv'
  BY <1>1, <1>6 DEF RunApplicationLogic, tables, sender
<1>7. CASE ScheduleV2xMessages
  BY <1>7, ScheduleChain
<1> QED BY <1>2, <1>3, <1>4, <1>5, <1>6, <1>7 DEF Next

LEMMA ChainInvHolds == Spec => []ChainInv
<1>1. Init => ChainInv
  BY DEF Init, ChainInv
<1> QED BY <1>1, StepChain, PTL DEF Spec

\* No station sends two chains of CAMs, although StopTransmitting cannot cancel
\* the first event of a start (CAMmanage::StartTransmitting).
THEOREM AtMostOneChain == Spec => []OneChain
<1>1. ChainInv => OneChain
  BY DEF ChainInv, OneChain
<1> QED BY <1>1, ChainInvHolds, PTL

-----------------------------------------------------------------------------
(* Who sends.                                                              *)

\* Until the next positions and subscriptions, the entries of the stations that
\* are there are those of the stations inside an area.
GeneralIffInside ==
  phase \in {"ns3", "data"} =>
    \A s \in nodes : s \in DOMAIN general <=> IsNodeInAnyArea(s)

LEMMA StepGeneral == GeneralIffInside /\ [Next]_vars => GeneralIffInside'
<1> SUFFICES ASSUME GeneralIffInside, [Next]_vars PROVE GeneralIffInside'
  OBVIOUS
<1> USE DEF GeneralIffInside, IsNodeInAnyArea, AreasOf
<1>1. CASE DeliverLate \/ RunSimStepReturns \/ GetDataFromNs3 \/ UNCHANGED vars
  BY <1>1 DEF DeliverLate, RunSimStepReturns, GetDataFromNs3, vars, world, apps, tables
<1>2. ASSUME NEW e \in events, SendPacket(e) PROVE GeneralIffInside'
  BY <1>2 DEF SendPacket, world, apps, tables
<1>3. ASSUME NEW left, NEW last, RunOneSumoTimeStep(left, last) PROVE GeneralIffInside'
  BY <1>3 DEF RunOneSumoTimeStep
<1>4. ASSUME NEW subscribed, NEW dropped, RunApplicationLogic(subscribed, dropped)
      PROVE  GeneralIffInside'
  BY <1>4 DEF RunApplicationLogic
<1>5. CASE ScheduleV2xMessages
  <2>1. UNCHANGED <<nodes, camAreas, inside>> /\ general' = UpdatedGeneral
    BY <1>5 DEF ScheduleV2xMessages, world, apps
  <2>2. \A s \in nodes : s \in DOMAIN UpdatedGeneral <=> IsNodeInAnyArea(s)
    BY DEF UpdatedGeneral, IdNodesToStart, IsNodeInGeneral
  <2> QED BY <2>1, <2>2
<1> QED BY <1>1, <1>2, <1>3, <1>4, <1>5 DEF Next

\* When ns-3 runs, the stations with a CAM to send are those inside an area
\* (SyncManager::ScheduleV2xCamAreaMessages).
THEOREM SendersAreInside == Spec => []SendingIffInside
<1>1. ChainInv /\ GeneralIffInside => SendingIffInside
  BY DEF ChainInv, GeneralIffInside, SendingIffInside
<1>2. Init => GeneralIffInside
  BY DEF Init, GeneralIffInside, IsNodeInAnyArea, AreasOf
<1> QED BY <1>1, <1>2, StepGeneral, ChainInvHolds, PTL DEF Spec

-----------------------------------------------------------------------------
(* Numbers of CAMs.  ns-3 numbers the CAMs of a station within a second;   *)
(* a start begins again.  With one frequency a station that is started was *)
(* not sending, so it has sent nothing in the second in which it starts.   *)

OneFrequency == \A a, b \in Areas : Freq[a] = Freq[b]

LEMMA DivBounds ==
  ASSUME NEW x \in Int, NEW k \in Int
  PROVE  /\ x \div SlotsPerStep \in Int
         /\ x < k * SlotsPerStep + SlotsPerStep => x \div SlotsPerStep <= k
         /\ x >= k * SlotsPerStep => x \div SlotsPerStep >= k
BY CamTrackingAssumption, Z3

LEMMA DivMonotonic ==
  ASSUME NEW x \in Int, NEW y \in Int, x <= y
  PROVE  x \div SlotsPerStep <= y \div SlotsPerStep
BY CamTrackingAssumption, Z3

TagTypes ==
  /\ nodes \subseteq Stations
  /\ created \in Nat
  /\ tag \in [Stations -> [ts : Int, seq : Int]]
  /\ period \in [Stations -> Nat]
  /\ \A e \in events : e.from \in Stations /\ e.slot \in Int
  /\ \A c \in sent : c.from \in Stations /\ c.ts \in Int /\ c.seq \in Int

\* The numbers of a station have not gone beyond its tag, and no event of it is
\* of a step before that of the tag.
NumbersInv ==
  /\ TagTypes
  /\ TagsUnique
  /\ \A s \in DOMAIN general : \A a \in Areas : general[s] = Freq[a]
  /\ \A c \in sent : c.ts <= m_simStep /\ (c.ts = m_simStep => c.from \in DOMAIN general)
  /\ \A c \in sent : \/ c.ts < tag[c.from].ts
                     \/ c.ts = tag[c.from].ts /\ c.seq <= tag[c.from].seq
  /\ \A e \in events : e.slot \div SlotsPerStep >= tag[e.from].ts

LEMMA SendNumbers ==
  ASSUME ChainInv, NumbersInv, NEW e \in events, SendPacket(e)
  PROVE  NumbersInv'
<1> DEFINE s == e.from
           ts == e.slot \div SlotsPerStep
           new == AddInciPacketTags(s, ts)
           c == Cam(e)
<1>1. /\ s \in Stations /\ e.slot \in Int /\ s \in DOMAIN general
      /\ tag[s] \in [ts : Int, seq : Int] /\ period[s] \in Nat
  BY DEF NumbersInv, TagTypes, ChainInv
<1>2. m_simStep \in Nat /\ e.slot < StepEnd
  BY DEF ChainInv, SendPacket
<1>3. ts \in Int /\ ts <= m_simStep
  BY <1>1, <1>2, DivBounds DEF StepEnd, StepStart
<1>4. ts >= tag[s].ts
  BY DEF NumbersInv
<1>5. /\ new \in [ts : Int, seq : Int]
      /\ new.ts = ts
      /\ tag[s].ts < ts \/ (tag[s].ts = ts /\ tag[s].seq < new.seq)
  BY <1>1, <1>3, <1>4 DEF AddInciPacketTags
<1>6. c.from = s /\ c.ts = ts /\ c.seq = new.seq
  BY DEF Cam
<1>7. /\ sent' = sent \cup {c} /\ tag' = [tag EXCEPT ![s] = new]
      /\ events' = (events \ {e}) \cup ScheduleTx(e)
      /\ UNCHANGED <<m_simStep, nodes, created, general, running, period>>
  BY DEF SendPacket, Broadcast, world, tables
<1>8. ASSUME NEW f \in ScheduleTx(e)
      PROVE  f.from = s /\ f.slot \in Int /\ f.slot >= e.slot
  <2>1. f.from = s /\ f.slot = e.slot + period[s]
    BY DEF ScheduleTx
  <2> QED BY <2>1, <1>1
<1> HIDE DEF s, ts, new, c
<1>9. tag'[s] = new /\ \A r \in Stations : r # s => tag'[r] = tag[r]
  BY <1>1, <1>7 DEF NumbersInv, TagTypes
<1>10. \A d \in sent : d.from = s => d.ts < ts \/ (d.ts = ts /\ d.seq < new.seq)
  <2> SUFFICES ASSUME NEW d \in sent, d.from = s PROVE d.ts < ts \/ (d.ts = ts /\ d.seq < new.seq)
    OBVIOUS
  <2>1. d.ts \in Int /\ d.seq \in Int
    BY DEF NumbersInv, TagTypes
  <2>2. d.ts < tag[s].ts \/ (d.ts = tag[s].ts /\ d.seq <= tag[s].seq)
    BY DEF NumbersInv
  <2> QED BY <2>1, <2>2, <1>1, <1>3, <1>5
<1>11. TagTypes'
  <2>1. tag' \in [Stations -> [ts : Int, seq : Int]]
    BY <1>5, <1>7 DEF NumbersInv, TagTypes
  <2>2. \A f \in events' : f.from \in Stations /\ f.slot \in Int
    BY <1>1, <1>7, <1>8 DEF NumbersInv, TagTypes
  <2>3. \A d \in sent' : d.from \in Stations /\ d.ts \in Int /\ d.seq \in Int
    BY <1>1, <1>3, <1>5, <1>6, <1>7 DEF NumbersInv, TagTypes
  <2> QED BY <1>7, <2>1, <2>2, <2>3 DEF NumbersInv, TagTypes
<1>12. TagsUnique'
  <2>1. \A d \in sent : Row(d) # Row(c)
    <3> SUFFICES ASSUME NEW d \in sent, Row(d) = Row(c) PROVE FALSE
      OBVIOUS
    <3>1. d.from = s /\ d.ts = ts /\ d.seq = new.seq
      BY <1>6 DEF Row
    <3> QED BY <3>1, <1>3, <1>5, <1>10
  <2> QED BY <2>1, <1>7 DEF TagsUnique, NumbersInv
<1>13. \A d \in sent' : d.ts <= m_simStep /\ (d.ts = m_simStep => d.from \in DOMAIN general)
  BY <1>1, <1>3, <1>6, <1>7 DEF NumbersInv
<1>14. \A d \in sent' : \/ d.ts < tag'[d.from].ts
                        \/ d.ts = tag'[d.from].ts /\ d.seq <= tag'[d.from].seq
  <2> SUFFICES ASSUME NEW d \in sent'
               PROVE  \/ d.ts < tag'[d.from].ts
                      \/ d.ts = tag'[d.from].ts /\ d.seq <= tag'[d.from].seq
    OBVIOUS
  <2>1. CASE d = c
    BY <2>1, <1>3, <1>5, <1>6, <1>9
  <2>2. CASE d \in sent /\ d.from = s
    <3>1. d.ts \in Int /\ d.seq \in Int
      BY <2>2 DEF NumbersInv, TagTypes
    <3> QED BY <2>2, <3>1, <1>5, <1>9, <1>10
  <2>3. CASE d \in sent /\ d.from # s
    BY <2>3, <1>9 DEF NumbersInv, TagTypes
  <2> QED BY <2>1, <2>2, <2>3, <1>7
<1>15. \A f \in events' : f.slot \div SlotsPerStep >= tag'[f.from].ts
  <2> SUFFICES ASSUME NEW f \in events' PROVE f.slot \div SlotsPerStep >= tag'[f.from].ts
    OBVIOUS
  <2>1. CASE f \in ScheduleTx(e)
    <3>1. f.from = s /\ f.slot \in Int /\ e.slot <= f.slot
      BY <2>1, <1>8, <1>1
    <3>2. ts <= f.slot \div SlotsPerStep
      BY <3>1, <1>1, DivMonotonic DEF ts
    <3> QED BY <3>1, <3>2, <1>3, <1>5, <1>9, DivBounds
  <2>2. CASE f \in events /\ f # e
    <3>1. f.from # s /\ f.from \in Stations
      BY <2>2 DEF ChainInv, s, NumbersInv, TagTypes
    <3> QED BY <2>2, <3>1, <1>9 DEF NumbersInv
  <2> QED BY <2>1, <2>2, <1>7
<1> QED BY <1>7, <1>11, <1>12, <1>13, <1>14, <1>15 DEF NumbersInv

LEMMA MaxWithZero ==
  ASSUME NEW X, NEW F \in Nat, F \in X, \A x \in X : x = F
  PROVE  Max(X \cup {0}) = F
<1>1. F \in X \cup {0} /\ \A y \in X \cup {0} : F >= y
  OBVIOUS
<1>2. \A m \in X \cup {0} : (\A y \in X \cup {0} : m >= y) => m = F
  BY <1>1
<1> QED BY <1>1, <1>2 DEF Max

LEMMA StartFrequency ==
  ASSUME OneFrequency, NEW s, IsNodeInAnyArea(s), camAreas \subseteq Areas
  PROVE  MaxFrequency(s) \in 1 .. SlotsPerStep /\ \A a \in Areas : MaxFrequency(s) = Freq[a]
<1>1. PICK b \in AreasOf(s) : b \in Areas
  BY DEF IsNodeInAnyArea, AreasOf
<1> DEFINE X == {Freq[a] : a \in AreasOf(s)}
<1>2. Freq[b] \in X /\ Freq[b] \in 1 .. SlotsPerStep /\ SlotsPerStep \in Nat
  BY <1>1, CamTrackingAssumption
<1>3. \A x \in X : x = Freq[b]
  BY <1>1 DEF OneFrequency, AreasOf
<1> HIDE DEF X
<1>4. Max(X \cup {0}) = Freq[b]
  BY <1>2, <1>3, MaxWithZero
<1>5. MaxFrequency(s) = Freq[b]
  BY <1>4 DEF MaxFrequency, X
<1> QED BY <1>1, <1>2, <1>5 DEF OneFrequency

AreasSubscribed == camAreas \subseteq Areas

LEMMA StepAreas == AreasSubscribed /\ [Next]_vars => AreasSubscribed'
<1> SUFFICES ASSUME AreasSubscribed, [Next]_vars PROVE AreasSubscribed'
  OBVIOUS
<1> USE DEF AreasSubscribed
<1>1. CASE DeliverLate \/ RunSimStepReturns \/ GetDataFromNs3 \/ ScheduleV2xMessages
           \/ UNCHANGED vars
  BY <1>1 DEF DeliverLate, RunSimStepReturns, GetDataFromNs3, ScheduleV2xMessages, vars, apps
<1>2. ASSUME NEW e \in events, SendPacket(e) PROVE AreasSubscribed'
  BY <1>2 DEF SendPacket, apps
<1>3. ASSUME NEW left, NEW last, RunOneSumoTimeStep(left, last) PROVE AreasSubscribed'
  BY <1>3 DEF RunOneSumoTimeStep, apps
<1>4. ASSUME NEW subscribed \in SUBSET (Areas \ camAreas), NEW dropped,
             RunApplicationLogic(subscribed, dropped)
      PROVE  AreasSubscribed'
  BY <1>4 DEF RunApplicationLogic
<1> QED BY <1>1, <1>2, <1>3, <1>4 DEF Next

\* A station is started when it enters its first area, and only then.
LEMMA ScheduleNumbers ==
  ASSUME OneFrequency, AreasSubscribed, ChainInv, NumbersInv, ScheduleV2xMessages
  PROVE  NumbersInv'
<1>1. PICK now \in Now :
        /\ tag' = [s \in Stations |->
             IF s \in IdNodesToStart THEN InitializeINCIvariables(now) ELSE tag[s]]
        /\ \E first \in [IdNodesToStart -> now .. now + FirstDelay] :
             events' = StopTransmitting(IdNodesToStop) \cup StartTransmitting(first)
  BY DEF ScheduleV2xMessages
<1>2. PICK first \in [IdNodesToStart -> now .. now + FirstDelay] :
        events' = StopTransmitting(IdNodesToStop) \cup StartTransmitting(first)
  BY <1>1
<1>3. /\ general' = UpdatedGeneral /\ m_simStep' = m_simStep + 1
      /\ nodes' = nodes /\ created' = created
      /\ sent' = {c \in sent : c.ts >= m_simStep}
      /\ period' = [s \in Stations |-> IF s \in IdNodesToStart
                      THEN SlotsBetweenCams(UpdatedGeneral) ELSE period[s]]
  BY DEF ScheduleV2xMessages, world
<1>4. IdNodesToStart \subseteq Stations
  BY DEF IdNodesToStart, NumbersInv, TagTypes
<1>5. /\ now \in Int /\ m_simStep \in Nat /\ SlotsPerStep \in Nat
      /\ now \div SlotsPerStep = m_simStep
  <2>1. m_simStep \in Nat /\ SlotsPerStep \in Nat /\ m_simStep * SlotsPerStep \in Int
    BY CamTrackingAssumption DEF ChainInv
  <2>2. /\ now \in Int /\ now >= m_simStep * SlotsPerStep
        /\ now < m_simStep * SlotsPerStep + SlotsPerStep
    BY <2>1 DEF Now, StepStart, StepEnd
  <2> QED BY <2>1, <2>2, DivBounds
<1>6. ASSUME NEW s \in IdNodesToStart
      PROVE  /\ s \notin DOMAIN general
             /\ MaxFrequency(s) \in 1 .. SlotsPerStep
             /\ \A a \in Areas : MaxFrequency(s) = Freq[a]
  <2>1. IsNodeInAnyArea(s)
    BY DEF IdNodesToStart
  <2>2. PICK a \in Areas : TRUE
    BY <2>1 DEF IsNodeInAnyArea, AreasOf, AreasSubscribed
  <2>3. /\ MaxFrequency(s) \in 1 .. SlotsPerStep
        /\ \A b \in Areas : MaxFrequency(s) = Freq[b]
    BY <2>1, StartFrequency DEF AreasSubscribed
  <2>4. s \in DOMAIN general => general[s] = Freq[a]
    BY <2>2 DEF NumbersInv
  <2> QED BY <2>2, <2>3, <2>4 DEF IdNodesToStart, IsNodeInGeneral
<1>7. \A s \in DOMAIN general' : \A a \in Areas : general'[s] = Freq[a]
  BY <1>3, <1>6 DEF UpdatedGeneral, NumbersInv
<1>8. \A s \in Stations : tag'[s] = IF s \in IdNodesToStart
                            THEN [ts |-> m_simStep, seq |-> -1] ELSE tag[s]
  BY <1>1, <1>5 DEF InitializeINCIvariables
<1>9. \A s \in IdNodesToStart :
        /\ first[s] \in Int /\ now <= first[s]
        /\ first[s] \div SlotsPerStep >= m_simStep
  <2> SUFFICES ASSUME NEW s \in IdNodesToStart
               PROVE  /\ first[s] \in Int /\ now <= first[s]
                      /\ first[s] \div SlotsPerStep >= m_simStep
    OBVIOUS
  <2>1. first[s] \in Int /\ now <= first[s]
    BY <1>5 DEF FirstDelay
  <2>2. now \div SlotsPerStep <= first[s] \div SlotsPerStep
    BY <2>1, <1>5, DivMonotonic
  <2> QED BY <2>1, <2>2, <1>5
<1> DEFINE start(s) == [from |-> s, slot |-> first[s], inSendEvent |-> FALSE]
<1>10. \A s : start(s).from = s /\ start(s).slot = first[s]
  OBVIOUS
<1>11. StartTransmitting(first) = {start(s) : s \in IdNodesToStart}
  BY DEF StartTransmitting
<1>12. StopTransmitting(IdNodesToStop) \subseteq events
  BY DEF StopTransmitting
<1> HIDE DEF start
<1>13. \A e \in events' : \/ e \in events
                          \/ e.from \in IdNodesToStart /\ e.slot = first[e.from]
  BY <1>2, <1>10, <1>11, <1>12
<1>14. \A e \in events : e.from \in DOMAIN general
  BY DEF ChainInv
<1>15. TagTypes'
  <2>1. tag' \in [Stations -> [ts : Int, seq : Int]]
    BY <1>1, <1>5 DEF InitializeINCIvariables, NumbersInv, TagTypes
  <2>2. period' \in [Stations -> Nat]
    <3>1. ASSUME NEW s \in IdNodesToStart PROVE SlotsBetweenCams(UpdatedGeneral) \in Nat
      <4> DEFINE g == UpdatedGeneral
                 F == MaxFrequency(s)
                 X == {g[r] : r \in DOMAIN g}
      <4>1. F \in 1 .. SlotsPerStep /\ \A a \in Areas : F = Freq[a]
        BY <1>6
      <4>2. s \in DOMAIN g /\ g[s] = F
        BY DEF UpdatedGeneral
      <4>3. PICK a \in Areas : TRUE
        BY DEF IdNodesToStart, IsNodeInAnyArea, AreasOf, AreasSubscribed
      <4>4. \A r \in DOMAIN g : g[r] = F
        BY <1>3, <1>7, <4>1, <4>3
      <4> HIDE DEF g, F
      <4>5. F \in Nat /\ F \in X /\ \A x \in X : x = F
        BY <4>1, <4>2, <4>4, <1>5
      <4> HIDE DEF X
      <4>6. Max(X \cup {0}) = F
        BY <4>5, MaxWithZero
      <4>7. MaxGeneralFrequency(UpdatedGeneral) = F
        BY <4>6 DEF MaxGeneralFrequency, X, g
      <4>8. SlotsPerStep \div F \in Nat
        BY <4>1, <1>5
      <4> QED BY <4>7, <4>8 DEF SlotsBetweenCams
    <3> QED BY <1>3, <3>1 DEF NumbersInv, TagTypes
  <2>3. \A e \in events' : e.from \in Stations /\ e.slot \in Int
    BY <1>4, <1>9, <1>13 DEF NumbersInv, TagTypes
  <2>4. \A c \in sent' : c.from \in Stations /\ c.ts \in Int /\ c.seq \in Int
    BY <1>3 DEF NumbersInv, TagTypes
  <2> QED BY <1>3, <2>1, <2>2, <2>3, <2>4 DEF NumbersInv, TagTypes
<1>16. TagsUnique'
  BY <1>3 DEF TagsUnique, NumbersInv
<1>17. \A c \in sent' : c.ts <= m_simStep' /\ (c.ts = m_simStep' => c.from \in DOMAIN general')
  <2> SUFFICES ASSUME NEW c \in sent' PROVE c.ts < m_simStep'
    BY <1>3, <1>5, <1>15 DEF TagTypes
  <2>1. c.ts \in Int /\ c.ts <= m_simStep
    BY <1>3 DEF NumbersInv, TagTypes
  <2> QED BY <2>1, <1>3, <1>5
<1>18. \A c \in sent' : \/ c.ts < tag'[c.from].ts
                        \/ c.ts = tag'[c.from].ts /\ c.seq <= tag'[c.from].seq
  <2> SUFFICES ASSUME NEW c \in sent'
               PROVE  \/ c.ts < tag'[c.from].ts
                      \/ c.ts = tag'[c.from].ts /\ c.seq <= tag'[c.from].seq
    OBVIOUS
  <2>1. /\ c \in sent /\ c.ts \in Int /\ c.ts = m_simStep /\ c.from \in Stations
        /\ c.from \in DOMAIN general
    <3>1. c \in sent /\ c.ts >= m_simStep
      BY <1>3
    <3>2. c.ts \in Int /\ c.ts <= m_simStep /\ c.from \in Stations
      BY <3>1 DEF NumbersInv, TagTypes
    <3>3. c.ts = m_simStep
      BY <3>1, <3>2, <1>5
    <3> QED BY <3>1, <3>2, <3>3 DEF NumbersInv
  <2>2. tag'[c.from] = tag[c.from]
    BY <2>1, <1>6, <1>8
  <2> QED BY <2>1, <2>2 DEF NumbersInv
<1>19. \A e \in events' : e.slot \div SlotsPerStep >= tag'[e.from].ts
  <2> SUFFICES ASSUME NEW e \in events' PROVE e.slot \div SlotsPerStep >= tag'[e.from].ts
    OBVIOUS
  <2>1. CASE e \in events
    <3>1. e.from \in Stations /\ e.from \notin IdNodesToStart
      BY <2>1, <1>6, <1>14 DEF NumbersInv, TagTypes
    <3>2. tag'[e.from] = tag[e.from]
      BY <3>1, <1>8
    <3> QED BY <2>1, <3>2 DEF NumbersInv
  <2>2. CASE e.from \in IdNodesToStart /\ e.slot = first[e.from]
    <3>1. tag'[e.from].ts = m_simStep
      BY <2>2, <1>4, <1>8
    <3> QED BY <2>2, <3>1, <1>9
  <2> QED BY <2>1, <2>2, <1>13
<1> QED BY <1>7, <1>15, <1>16, <1>17, <1>18, <1>19 DEF NumbersInv

LEMMA StepNumbers ==
  ASSUME OneFrequency
  PROVE  AreasSubscribed /\ ChainInv /\ NumbersInv /\ [Next]_vars => NumbersInv'
<1> SUFFICES ASSUME AreasSubscribed, ChainInv, NumbersInv, [Next]_vars PROVE NumbersInv'
  OBVIOUS
<1>1. ASSUME UNCHANGED <<m_simStep, general, events, tag, period, sent>>,
             nodes' \subseteq Stations, created' \in Nat
      PROVE  NumbersInv'
  BY <1>1 DEF NumbersInv, TagTypes, TagsUnique
<1>2. CASE DeliverLate \/ RunSimStepReturns \/ GetDataFromNs3 \/ UNCHANGED vars
  BY <1>1, <1>2 DEF DeliverLate, RunSimStepReturns, GetDataFromNs3, vars, world, tables,
     sender, radio, NumbersInv, TagTypes
<1>3. ASSUME NEW e \in events, SendPacket(e) PROVE NumbersInv'
  BY <1>3, SendNumbers
<1>4. ASSUME NEW left, NEW last \in created .. NumStations, RunOneSumoTimeStep(left, last)
      PROVE  NumbersInv'
  <2>1. created \in Nat /\ nodes \subseteq Stations /\ NumStations \in Nat
    BY CamTrackingAssumption DEF NumbersInv, TagTypes
  <2>2. nodes' = (nodes \ left) \cup (created + 1 .. last) /\ created' = last
    BY <1>4 DEF RunOneSumoTimeStep
  <2>3. created + 1 .. last \subseteq 1 .. NumStations /\ last \in Nat
    BY <2>1
  <2>4. nodes' \subseteq Stations /\ created' \in Nat
    BY <2>1, <2>2, <2>3 DEF Stations
  <2> QED BY <1>1, <1>4, <2>4 DEF RunOneSumoTimeStep, sender, radio
<1>5. ASSUME NEW subscribed, NEW dropped, RunApplicationLogic(subscribed, dropped)
      PROVE  NumbersInv'
  BY <1>1, <1>5 DEF RunApplicationLogic, world, tables, sender, radio, NumbersInv, TagTypes
<1>6. CASE ScheduleV2xMessages
  BY <1>6, ScheduleNumbers
<1> QED BY <1>2, <1>3, <1>4, <1>5, <1>6 DEF Next

LEMMA NumbersInvHolds == ASSUME OneFrequency PROVE Spec => []NumbersInv
<1>1. Init => AreasSubscribed
  BY DEF Init, AreasSubscribed
<1>2. Init => NumbersInv
  <2> SUFFICES ASSUME Init PROVE NumbersInv
    OBVIOUS
  <2>1. nodes \subseteq Stations /\ created \in Nat
    BY CamTrackingAssumption DEF Init, Stations, FixedStations
  <2>2. tag \in [Stations -> [ts : Int, seq : Int]] /\ period \in [Stations -> Nat]
    BY CamTrackingAssumption DEF Init
  <2> QED BY <2>1, <2>2 DEF Init, NumbersInv, TagTypes, TagsUnique
<1>3. AreasSubscribed /\ [Next]_vars => AreasSubscribed'
  BY StepAreas
<1>4. AreasSubscribed /\ ChainInv /\ NumbersInv /\ [Next]_vars => NumbersInv'
  BY StepNumbers
<1> QED BY <1>1, <1>2, <1>3, <1>4, ChainInvHolds, PTL DEF Spec

\* With CAM areas of one frequency no two CAMs of a station carry the same time
\* step and number, so that a row of the iCS stands for one CAM
\* (iTETRISApplication::AddInciPacketTags, InitializeINCIvariables).
THEOREM TagsAreUnique == ASSUME OneFrequency PROVE Spec => []TagsUnique
<1>1. NumbersInv => TagsUnique
  BY DEF NumbersInv
<1>2. Spec => []NumbersInv
  BY NumbersInvHolds
<1> QED BY <1>1, <1>2, PTL

=============================================================================
