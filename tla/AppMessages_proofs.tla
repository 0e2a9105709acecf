------------------------ MODULE AppMessages_proofs ------------------------
(***************************************************************************)
(* Proofs about AppMessages, for any number of stations, messages and      *)
(* subscriptions: no packet meets two rows, and, when packets do not cross *)
(* the end of a step, no message makes the run fail, and messages that are *)
(* heard are told, once, and topobroadcasts as what was sent.              *)
(***************************************************************************)
EXTENDS AppMessages, FiniteSetTheorems, TLAPS

\* A row is determined by its mode, sender, destination and time step; only
\* broadcasts are for everyone.
RowsDistinct ==
  /\ \A r \in rows : (r.mode = "uni") = (r.to # Everyone)
  /\ \A r, q \in rows :
       r.mode = q.mode /\ r.from = q.from /\ r.to = q.to /\ r.ts = q.ts => r = q

\* Taking rows away keeps the others distinct.
LEMMA FewerRows ==
  ASSUME RowsDistinct, rows' \subseteq rows
  PROVE  RowsDistinct'
  BY DEF RowsDistinct

\* Whatever is scheduled is not in the table yet, and a list names no destination twice.
LEMMA ScheduleKeepsDistinct ==
  ASSUME RowsDistinct,
         NEW s, NEW mode, NEW app, NEW dests, NEW msg, NEW ts, NEW flag,
         mode = "uni" => \A i \in DOMAIN dests : dests[i] # Everyone,
         mode # "uni" => \A i \in DOMAIN dests : dests[i] = Everyone,
         Schedule(s, mode, app, dests, msg, ts, flag)
  PROVE  RowsDistinct'
  <1> DEFINE new == {i \in Reachable(dests) :
                       /\ ~AlreadyScheduled(mode, s, dests[i], ts)
                       /\ \A j \in 1 .. i - 1 : dests[j] # dests[i]}
             row(d) == [mode |-> mode, from |-> s, to |-> d, ts |-> ts,
                         msg |-> msg, app |-> app, received |-> flag]
  <1>1. rows' = rows \cup {row(dests[i]) : i \in new}
    BY DEF Schedule
  <1>2. \A i \in new : i \in DOMAIN dests /\ ~AlreadyScheduled(mode, s, dests[i], ts)
    BY DEF Reachable
  <1>3. ASSUME NEW r \in rows'
        PROVE  (r.mode = "uni") = (r.to # Everyone)
    <2>1. CASE r \in rows
      BY <2>1 DEF RowsDistinct
    <2>2. CASE \E i \in new : r = row(dests[i])
      <3>1. PICK i \in new : r = row(dests[i])
        BY <2>2
      <3>2. i \in DOMAIN dests /\ r.mode = mode /\ r.to = dests[i]
        BY <3>1, <1>2
      <3>3. mode = "uni" => dests[i] # Everyone
        BY <3>2
      <3> QED
        BY <3>2, <3>3
    <2> QED
      BY <2>1, <2>2, <1>1
  <1>4. ASSUME NEW r \in rows, NEW i \in new
        PROVE  ~(/\ r.mode = row(dests[i]).mode /\ r.from = row(dests[i]).from
                 /\ r.to = row(dests[i]).to /\ r.ts = row(dests[i]).ts)
    BY <1>2 DEF AlreadyScheduled
  <1>5. ASSUME NEW r \in rows', NEW q \in rows',
               r.mode = q.mode, r.from = q.from, r.to = q.to, r.ts = q.ts
        PROVE  r = q
    <2>1. CASE r \in rows /\ q \in rows
      BY <2>1, <1>5 DEF RowsDistinct
    <2>2. CASE r \in rows /\ \E i \in new : q = row(dests[i])
      BY <2>2, <1>4, <1>5
    <2>3. CASE q \in rows /\ \E i \in new : r = row(dests[i])
      BY <2>3, <1>4, <1>5
    <2>4. ASSUME NEW i \in new, NEW j \in new,
                 r = row(dests[i]), q = row(dests[j])
          PROVE  r = q
      <3>1. dests[i] = dests[j]
        BY <2>4, <1>5
      <3> QED
        BY <2>4, <3>1
    <2> QED
      BY <2>1, <2>2, <2>3, <2>4, <1>1
  <1> QED
    BY <1>3, <1>5 DEF RowsDistinct

LEMMA RowsStayDistinct == Spec => []RowsDistinct
  <1>1. Init => RowsDistinct
    BY DEF Init, RowsDistinct
  <1>2. RowsDistinct /\ [Next]_vars => RowsDistinct'
    <2> SUFFICES ASSUME RowsDistinct, [Next]_vars
                 PROVE  RowsDistinct'
      OBVIOUS
    <2>1. CASE RunOneNs3TimeStep
      BY <2>1, FewerRows DEF RunOneNs3TimeStep
    <2>2. CASE GetDataFromNs3
      BY <2>2, FewerRows DEF GetDataFromNs3, RowsLeft
    <2>3. ASSUME NEW left, NEW last, RunOneSumoTimeStep(left, last)
          PROVE  RowsDistinct'
      BY <2>3, FewerRows DEF RunOneSumoTimeStep
    <2>4. ASSUME NEW s, NEW app, NEW what, SubsAppMessageReceive(s, app, what)
          PROVE  RowsDistinct'
      BY <2>4, FewerRows DEF SubsAppMessageReceive
    <2>5. ASSUME NEW s, NEW app, NEW to, NEW mode, NEW dests \in DestinationLists,
                 SubsAppMessageSend(s, app, to, mode, dests)
          PROVE  RowsDistinct'
      <3>1. \A i \in DOMAIN dests : dests[i] # Everyone
        BY DEF DestinationLists, SeqOf, Stations, Everyone
      <3>2. \A i \in DOMAIN <<Everyone>> : <<Everyone>>[i] = Everyone
        OBVIOUS
      <3>3. CASE ScheduleV2xUnicastMessages(s, to, dests, count')
        BY <3>1, <3>3, ScheduleKeepsDistinct DEF ScheduleV2xUnicastMessages
      <3>4. CASE ScheduleV2xGeobroadcastMessages(s, to, count')
        BY <3>2, <3>4, ScheduleKeepsDistinct DEF ScheduleV2xGeobroadcastMessages
      <3>5. CASE ScheduleV2xTopobroadcastMessages(s, to, count')
        BY <3>2, <3>5, ScheduleKeepsDistinct DEF ScheduleV2xTopobroadcastMessages
      <3> QED
        BY <2>5, <3>3, <3>4, <3>5 DEF SubsAppMessageSend
    <2>6. ASSUME NEW s, NEW dropped, FinishTurn(s, dropped)
          PROVE  RowsDistinct'
      BY <2>6, FewerRows DEF FinishTurn
    <2>7. CASE RunApplicationLogicReturns
      BY <2>7, FewerRows DEF RunApplicationLogicReturns
    <2>8. CASE ScheduleV2xMessages
      BY <2>8, FewerRows DEF ScheduleV2xMessages
    <2>9. CASE UNCHANGED vars
      BY <2>9, FewerRows DEF vars
    <2> QED
      BY <2>1, <2>2, <2>3, <2>4, <2>5, <2>6, <2>7, <2>8, <2>9 DEF Next
  <1> QED
    BY <1>1, <1>2, PTL DEF Spec

\* A received packet never matches two rows (OneRowPerPacket): the loops of
\* GetDataFromNs3, ProcessGeobroadcastMessages and ProcessTopobroadcastMessages, which
\* go on after a match, store and tell it as one message.
THEOREM AlwaysOneRow == Spec => []OneRowPerPacket
  <1>1. RowsDistinct => OneRowPerPacket
    <2> SUFFICES ASSUME RowsDistinct, NEW c \in Received
                 PROVE  Cardinality(RowsOf(c)) <= 1
      BY DEF OneRowPerPacket
    <2>1. \A r, q \in RowsOf(c) : r = q
      BY DEF RowsOf, Matches, RowsDistinct
    <2>2. CASE RowsOf(c) = {}
      BY <2>2, FS_EmptySet
    <2>3. CASE RowsOf(c) # {}
      <3>1. PICK r : RowsOf(c) = {r}
        BY <2>1, <2>3
      <3>2. Cardinality({r}) = 1
        BY FS_Singleton
      <3> QED
        BY <3>1, <3>2
    <2> QED
      BY <2>2, <2>3
  <1> QED
    BY <1>1, RowsStayDistinct, PTL

-----------------------------------------------------------------------------

\* Where packets can be in each phase of the loop, and that their senders are nodes
\* until they are processed.
SendersPresent ==
  /\ status = "running"
  /\ late = {}
  /\ phase \in {"ns3", "data", "sumo", "apps", "schedule"}
  /\ phase \in {"data", "sumo"} => air = {} /\ sending = {}
  /\ \A p \in air \cup sending : p.from \in nodes
  /\ phase = "data" => \A c \in inbox : c.pkt.from \in nodes

\* Every packet received in a step was on the air in it.
LEMMA ReceivedWereSent ==
  ASSUME SendersPresent, Late = FALSE, RunOneNs3TimeStep
  PROVE  SendersPresent'
  <1>1. PICK again \in SUBSET sending :
          \E heard \in SUBSET Copies(air \cup {Again(p) : p \in again}) :
            inbox' = heard /\ late' = {}
    BY DEF RunOneNs3TimeStep, SendersPresent
  <1>2. \A p \in air \cup {Again(q) : q \in again} : p.from \in nodes
    <2>1. \A q \in again : Again(q).from = q.from
      BY DEF Again
    <2> QED
      BY <2>1 DEF SendersPresent
  <1>3. \A c \in inbox' : c.pkt.from \in nodes
    BY <1>1, <1>2 DEF Copies
  <1> QED
    BY <1>1, <1>3 DEF RunOneNs3TimeStep, SendersPresent, Do, NextPhase, world

\* With the senders present, GetDataFromNs3 does not fail.
LEMMA DataDoesNotFail ==
  ASSUME SendersPresent, GetDataFromNs3
  PROVE  SendersPresent'
  <1>1. \A mode : SenderLeft(mode) = {}
    BY DEF SenderLeft, ReceivedIn, Received, SendersPresent, GetDataFromNs3, Do
  <1>2. ~FailsOnUnicast /\ ~NoReturnValue
    BY <1>1 DEF FailsOnUnicast, NoReturnValue
  <1>3. status' = "running"
    BY <1>2 DEF GetDataFromNs3
  <1> QED
    BY <1>3 DEF GetDataFromNs3, SendersPresent, Do, NextPhase, world, radio

\* A message is sent by a node, while it has its turn.
LEMMA SendersAreNodes ==
  ASSUME SendersPresent, NEW s, NEW app, NEW to, NEW mode, NEW dests,
         SubsAppMessageSend(s, app, to, mode, dests)
  PROVE  SendersPresent'
  <1>1. s \in nodes /\ phase = "apps"
    BY DEF SubsAppMessageSend, IsTurn
  <1>2. PICK m, list, ts, flag : Schedule(s, m, to, list, count', ts, flag)
    BY DEF SubsAppMessageSend, ScheduleV2xUnicastMessages,
           ScheduleV2xGeobroadcastMessages, ScheduleV2xTopobroadcastMessages
  <1> DEFINE packet(d) == [mode |-> m, from |-> s, to |-> d, ts |-> m_simStep,
                           msg |-> count', app |-> to, again |-> FALSE]
  <1>3. \A d : packet(d).from = s
    OBVIOUS
  <1>4. \A p \in air' : p \in air \/ \E d : p = packet(d)
    BY <1>2 DEF Schedule
  <1>5. \A p \in sending' : p \in sending \/ \E d : p = packet(d)
    BY <1>2 DEF Schedule, StartTransmitting
  <1>6. \A p \in air' \cup sending' : p.from \in nodes
    BY <1>1, <1>3, <1>4, <1>5 DEF SendersPresent
  <1> QED
    BY <1>1, <1>6 DEF SubsAppMessageSend, IsTurn, SendersPresent, world

LEMMA SendersStayPresent ==
  ASSUME Late = FALSE
  PROVE  Spec => []SendersPresent
  <1>1. Init => SendersPresent
    BY DEF Init, SendersPresent
  <1>2. SendersPresent /\ [Next]_vars => SendersPresent'
    <2> SUFFICES ASSUME SendersPresent, [Next]_vars
                 PROVE  SendersPresent'
      OBVIOUS
    <2>1. CASE RunOneNs3TimeStep
      BY <2>1, ReceivedWereSent
    <2>2. CASE GetDataFromNs3
      BY <2>2, DataDoesNotFail
    <2>3. ASSUME NEW left, NEW last, RunOneSumoTimeStep(left, last)
          PROVE  SendersPresent'
      BY <2>3 DEF RunOneSumoTimeStep, SendersPresent, Do, NextPhase, radio
    <2>4. ASSUME NEW s, NEW app, NEW what, SubsAppMessageReceive(s, app, what)
          PROVE  SendersPresent'
      BY <2>4 DEF SubsAppMessageReceive, IsTurn, SendersPresent, world
    <2>5. ASSUME NEW s, NEW app, NEW to, NEW mode, NEW dests,
                 SubsAppMessageSend(s, app, to, mode, dests)
          PROVE  SendersPresent'
      BY <2>5, SendersAreNodes
    <2>6. ASSUME NEW s, NEW dropped, FinishTurn(s, dropped)
          PROVE  SendersPresent'
      BY <2>6 DEF FinishTurn, IsTurn, SendersPresent, world
    <2>7. CASE RunApplicationLogicReturns
      BY <2>7 DEF RunApplicationLogicReturns, SendersPresent, Do, NextPhase, world, radio
    <2>8. CASE ScheduleV2xMessages
      BY <2>8 DEF ScheduleV2xMessages, SendersPresent, Do, NextPhase, world, radio
    <2>9. CASE UNCHANGED vars
      BY <2>9 DEF vars, SendersPresent, world, radio
    <2> QED
      BY <2>1, <2>2, <2>3, <2>4, <2>5, <2>6, <2>7, <2>8, <2>9 DEF Next
  <1> QED
    BY <1>1, <1>2, PTL DEF Spec

\* No message makes the run fail (RunSurvives), if the packets of a step are received in
\* it: GetDataFromNs3 comes before the vehicles leave, so neither
\* ProcessReceivedAppMessage nor GetNodeByNs3Id misses the sender.
THEOREM MessagesDoNotStopTheRun ==
  ASSUME Late = FALSE
  PROVE  Spec => []RunSurvives
  <1>1. SendersPresent => RunSurvives
    BY DEF SendersPresent, RunSurvives
  <1> QED
    BY <1>1, SendersStayPresent, PTL

-----------------------------------------------------------------------------
(* Types.                                                                  *)

\* The types, and what they need: RunApplicationLogic starts with no turn taken, and
\* the second packet of a message is of the next step.
TypeInv ==
  /\ TypeOK
  /\ phase # "apps" => turn = {}
  /\ \A p \in sending : p.ts <= m_simStep


\* The row and the first packet of a message for destination d.
NewRow(s, mode, app, d, msg, ts, flag) ==
  [mode |-> mode, from |-> s, to |-> d, ts |-> ts, msg |-> msg, app |-> app, received |-> flag]
FirstPacket(s, mode, app, d, msg) ==
  [mode |-> mode, from |-> s, to |-> d, ts |-> m_simStep, msg |-> msg, app |-> app, again |-> FALSE]

\* What a message that is ordered adds to the rows and to ns-3.
LEMMA ScheduleEffect ==
  ASSUME NEW s, NEW mode, NEW app, NEW dests, NEW msg, NEW ts, NEW flag,
         Schedule(s, mode, app, dests, msg, ts, flag)
  PROVE  /\ rows \subseteq rows'
         /\ \A r \in rows' : r \in rows \/ \E i \in DOMAIN dests :
              /\ r = NewRow(s, mode, app, dests[i], msg, ts, flag)
              /\ ~AlreadyScheduled(mode, s, dests[i], ts)
         /\ \A p \in air' : p \in air \/ \E i \in DOMAIN dests :
              /\ p = FirstPacket(s, mode, app, dests[i], msg)
              /\ ~AlreadyScheduled(mode, s, dests[i], ts)
              /\ NewRow(s, mode, app, dests[i], msg, ts, flag) \in rows'
         /\ \A p \in sending' : p \in sending \/ \E i \in DOMAIN dests :
              /\ p = FirstPacket(s, mode, app, dests[i], msg)
              /\ NewRow(s, mode, app, dests[i], msg, ts, flag) \in rows'
         /\ \/ sending' = sending
            \/ \E d : sending' = StartTransmitting(FirstPacket(s, mode, app, d, msg), sending)
  <1> DEFINE packet(d) == FirstPacket(s, mode, app, d, msg)
             row(d) == NewRow(s, mode, app, d, msg, ts, flag)
             new == {i \in Reachable(dests) :
                       /\ ~AlreadyScheduled(mode, s, dests[i], ts)
                       /\ \A j \in 1 .. i - 1 : dests[j] # dests[i]}
  <1>1. \A i \in new : i \in DOMAIN dests /\ ~AlreadyScheduled(mode, s, dests[i], ts)
    BY DEF Reachable
  <1>2. /\ rows' = rows \cup {row(dests[i]) : i \in new}
        /\ air' = air \cup {packet(dests[i]) : i \in new}
        /\ \/ sending' = sending
           \/ \E last \in new : sending' = StartTransmitting(packet(dests[last]), sending)
    BY DEF Schedule, NewRow, FirstPacket
  <1>3. \A p \in sending' : p \in sending \/ \E i \in new : p = packet(dests[i])
    BY <1>2 DEF StartTransmitting
  <1> HIDE DEF packet, row, new
  <1>4. /\ \A p \in air' : p \in air \/ \E i \in new : p = packet(dests[i]) /\ row(dests[i]) \in rows'
        /\ \A i \in new : row(dests[i]) \in rows'
    BY <1>2
  <1>5. \/ sending' = sending
        \/ \E d : sending' = StartTransmitting(packet(d), sending)
    BY <1>2
  <1> QED
    BY <1>1, <1>2, <1>3, <1>4, <1>5 DEF packet, row

\* The three calls that order a message.
LEMMA OrderedMessage ==
  ASSUME NEW s, NEW app, NEW to, NEW mode, NEW dests \in DestinationLists,
         SubsAppMessageSend(s, app, to, mode, dests)
  PROVE  \E list, ts, flag :
           /\ flag \in BOOLEAN
           /\ Schedule(s, mode, to, list, count', ts, flag)
           /\ \/ /\ mode = "uni" /\ ts = m_simStep + 1
                 /\ \A i \in DOMAIN list : list[i] \in Stations
              \/ /\ mode # "uni" /\ ts = m_simStep
                 /\ \A i \in DOMAIN list : list[i] = Everyone
  <1>1. \A i \in DOMAIN dests : dests[i] \in Stations
    BY DEF DestinationLists, SeqOf
  <1>2. \A i \in DOMAIN <<Everyone>> : <<Everyone>>[i] = Everyone
    OBVIOUS
  <1>3. CASE mode = "uni" /\ ScheduleV2xUnicastMessages(s, to, dests, count')
    BY <1>1, <1>3, Zenon DEF ScheduleV2xUnicastMessages
  <1>4. CASE mode = "geo" /\ ScheduleV2xGeobroadcastMessages(s, to, count')
    BY <1>2, <1>4, Zenon DEF ScheduleV2xGeobroadcastMessages
  <1>5. CASE mode = "topo" /\ ScheduleV2xTopobroadcastMessages(s, to, count')
    BY <1>2, <1>5, Zenon DEF ScheduleV2xTopobroadcastMessages
  <1> QED
    BY <1>3, <1>4, <1>5 DEF SubsAppMessageSend

\* The subscriptions of a station that ends its turn are some of those it had.
LEMMA KeptSubscriptions ==
  ASSUME subs \in [Stations -> Seq(Subscription)], NEW s \in Stations,
         NEW kept \in SUBSET DOMAIN subs[s], FinishTurn(s, kept)
  PROVE  /\ subs' \in [Stations -> Seq(Subscription)]
         /\ \A t \in Stations : \A i \in DOMAIN subs'[t] : \E j \in DOMAIN subs[t] :
              subs'[t][i].receivedData = subs[t][j].receivedData
  <1>1. PICK place \in InOrder(kept) :
          subs' = [subs EXCEPT ![s] =
            [i \in DOMAIN place |-> [subs[s][place[i]] EXCEPT !.m_appMsgReceived = FALSE]]]
    BY DEF FinishTurn
  <1> DEFINE left == [i \in DOMAIN place |->
                        [subs[s][place[i]] EXCEPT !.m_appMsgReceived = FALSE]]
  <1>2. place \in [1 .. Cardinality(kept) -> kept]
    BY DEF InOrder
  <1>3. subs[s] \in Seq(Subscription) /\ IsFiniteSet(DOMAIN subs[s])
    <2>1. subs[s] \in Seq(Subscription) /\ Len(subs[s]) \in Nat
      OBVIOUS
    <2>2. DOMAIN subs[s] = 1 .. Len(subs[s])
      BY <2>1
    <2> QED
      BY <2>1, <2>2, FS_Interval
  <1>4. Cardinality(kept) \in Nat
    BY <1>3, FS_Subset, FS_CardinalityType
  <1>5. ASSUME NEW i \in DOMAIN place
        PROVE  /\ place[i] \in DOMAIN subs[s]
               /\ left[i] \in Subscription
               /\ left[i].receivedData = subs[s][place[i]].receivedData
    <2>1. place[i] \in DOMAIN subs[s] /\ subs[s][place[i]] \in Subscription
      BY <1>2, <1>3
    <2> QED
      BY <2>1 DEF Subscription
  <1>6. left \in Seq(Subscription)
    BY <1>2, <1>4, <1>5
  <1>7. subs' = [subs EXCEPT ![s] = left]
    BY <1>1
  <1> HIDE DEF left
  <1>8. subs' \in [Stations -> Seq(Subscription)]
    BY <1>6, <1>7
  <1>9. DOMAIN left = DOMAIN place
    BY DEF left
  <1> QED
    BY <1>5, <1>7, <1>8, <1>9
\* What GetDataFromNs3 may tell a subscription, when unicast rows are taken so.
IsNewReport(d, taken) ==
  \/ \E r \in UnicastRowsMatched : d = Report(taken[r], r.msg)
  \/ \E c \in ReceivedIn("geo") \cup ReceivedIn("topo") : \E r \in rows :
       Matches(c, r) /\ d = Report(c, r.msg)
  \/ \E c \in ReceivedIn("geo") : d = Report(c, Phantom)

LEMMA NewReports ==
  ASSUME subs \in [Stations -> Seq(Subscription)], GetDataFromNs3
  PROVE  \E taken \in Takings : \A s \in Stations :
           /\ DOMAIN subs'[s] = DOMAIN subs[s]
           /\ \A i \in DOMAIN subs[s] : \E new :
                /\ \A d \in new : IsNewReport(d, taken)
                /\ subs'[s][i] = [subs[s][i] EXCEPT
                     !.receivedData = subs[s][i].receivedData \cup new,
                     !.m_appMsgReceived = subs[s][i].m_appMsgReceived \/ new # {}]
  <1>1. PICK taken \in Takings, appType \in [Unscheduled -> Apps \cup {0}] :
          subs' = [s \in Stations |->
                     [i \in DOMAIN subs[s] |->
                        IF s \in nodes THEN WithReports(s, i, taken, appType)
                                       ELSE subs[s][i]]]
    BY DEF GetDataFromNs3
  <1>2. ASSUME NEW s \in Stations, NEW i \in DOMAIN subs[s]
        PROVE  \E new :
                /\ \A d \in new : IsNewReport(d, taken)
                /\ subs'[s][i] = [subs[s][i] EXCEPT
                     !.receivedData = subs[s][i].receivedData \cup new,
                     !.m_appMsgReceived = subs[s][i].m_appMsgReceived \/ new # {}]
    <2> DEFINE new == UnicastReports(subs[s][i], taken) \cup BroadcastReports(s, i)
                        \cup PhantomReports(s, i, appType)
    <2>1. \A d \in UnicastReports(subs[s][i], taken) : IsNewReport(d, taken)
      BY DEF UnicastReports, IsNewReport, Takings
    <2>2. \A d \in BroadcastReports(s, i) : IsNewReport(d, taken)
      BY DEF BroadcastReports, IsNewReport
    <2>3. \A d \in PhantomReports(s, i, appType) : IsNewReport(d, taken)
      BY DEF PhantomReports, Unscheduled, IsNewReport
    <2>4. CASE s \in nodes
      <3>1. subs'[s][i] = WithReports(s, i, taken, appType)
        BY <1>1, <1>2, <2>4
      <3> QED
        BY <3>1, <2>1, <2>2, <2>3, Zenon DEF WithReports
    <2>5. CASE s \notin nodes
      <3>1. subs'[s][i] = subs[s][i] /\ subs[s][i] \in Subscription
        BY <1>1, <1>2, <2>5
      <3>2. subs[s][i] = [subs[s][i] EXCEPT
                     !.receivedData = subs[s][i].receivedData \cup {},
                     !.m_appMsgReceived = subs[s][i].m_appMsgReceived \/ {} # {}]
        BY <3>1 DEF Subscription
      <3> QED
        BY <3>1, <3>2, Zenon
    <2> QED
      BY <2>4, <2>5
  <1>3. \A s \in Stations : DOMAIN subs'[s] = DOMAIN subs[s]
    BY <1>1
  <1> QED
    BY <1>2, <1>3

\* The same, report by report.
LEMMA NewReportsIn ==
  ASSUME subs \in [Stations -> Seq(Subscription)], GetDataFromNs3
  PROVE  \E taken \in Takings : \A s \in Stations : \A i \in DOMAIN subs'[s] :
           /\ i \in DOMAIN subs[s]
           /\ \A d \in subs'[s][i].receivedData :
                d \in subs[s][i].receivedData \/ IsNewReport(d, taken)
  <1>1. PICK taken \in Takings : \A s \in Stations :
           /\ DOMAIN subs'[s] = DOMAIN subs[s]
           /\ \A i \in DOMAIN subs[s] : \E new :
                /\ \A d \in new : IsNewReport(d, taken)
                /\ subs'[s][i] = [subs[s][i] EXCEPT
                     !.receivedData = subs[s][i].receivedData \cup new,
                     !.m_appMsgReceived = subs[s][i].m_appMsgReceived \/ new # {}]
    BY NewReports
  <1>2. ASSUME NEW s \in Stations, NEW i \in DOMAIN subs'[s], NEW d \in subs'[s][i].receivedData
        PROVE  d \in subs[s][i].receivedData \/ IsNewReport(d, taken)
    <2>1. i \in DOMAIN subs[s]
      BY <1>1
    <2>2. PICK new :
                /\ \A e \in new : IsNewReport(e, taken)
                /\ subs'[s][i] = [subs[s][i] EXCEPT
                     !.receivedData = subs[s][i].receivedData \cup new,
                     !.m_appMsgReceived = subs[s][i].m_appMsgReceived \/ new # {}]
      BY <1>1, <2>1
    <2>3. subs[s][i] \in Subscription
      BY <2>1
    <2>4. d \in subs[s][i].receivedData \cup new
      BY <2>2, <2>3 DEF Subscription
    <2> QED
      BY <2>2, <2>4
  <1>3. \A s \in Stations : DOMAIN subs'[s] = DOMAIN subs[s]
    BY <1>1
  <1> QED
    BY <1>2, <1>3

\* A new report is of received packets and of rows.
LEMMA NewReportsTold ==
  ASSUME rows \subseteq Row, inbox \subseteq Copy, MaxMessages \in Nat,
         NEW taken \in Takings, NEW d, IsNewReport(d, taken)
  PROVE  d \in Told
  <1>1. ASSUME NEW c \in Received, NEW m \in 0 .. MaxMessages
        PROVE  Report(c, m) \in Told
    BY <1>1 DEF Received, Copy, Report, Told
  <1>2. \A mode : ReceivedIn(mode) \subseteq Received
    BY DEF ReceivedIn
  <1>3. \A r \in rows : r.msg \in 0 .. MaxMessages
    BY DEF Row
  <1>4. \A r \in UnicastRowsMatched : r \in rows /\ taken[r] \in Received
    BY <1>2 DEF UnicastRowsMatched, Takings
  <1>5. Phantom \in 0 .. MaxMessages
    BY DEF Phantom
  <1> QED
    BY <1>1, <1>2, <1>3, <1>4, <1>5 DEF IsNewReport

LEMMA DataTypes ==
  ASSUME rows \subseteq Row, inbox \subseteq Copy, MaxMessages \in Nat,
         subs \in [Stations -> Seq(Subscription)], GetDataFromNs3
  PROVE  subs' \in [Stations -> Seq(Subscription)]
  <1>1. PICK taken \in Takings : \A s \in Stations :
           /\ DOMAIN subs'[s] = DOMAIN subs[s]
           /\ \A i \in DOMAIN subs[s] : \E new :
                /\ \A d \in new : IsNewReport(d, taken)
                /\ subs'[s][i] = [subs[s][i] EXCEPT
                     !.receivedData = subs[s][i].receivedData \cup new,
                     !.m_appMsgReceived = subs[s][i].m_appMsgReceived \/ new # {}]
    BY NewReports
  <1>2. ASSUME NEW s \in Stations, NEW i \in DOMAIN subs[s]
        PROVE  subs'[s][i] \in Subscription
    <2>1. PICK new :
                /\ \A d \in new : IsNewReport(d, taken)
                /\ subs'[s][i] = [subs[s][i] EXCEPT
                     !.receivedData = subs[s][i].receivedData \cup new,
                     !.m_appMsgReceived = subs[s][i].m_appMsgReceived \/ new # {}]
      BY <1>1
    <2>2. new \subseteq Told /\ subs[s][i] \in Subscription
      BY <2>1, NewReportsTold
    <2>3. subs[s][i].receivedData \cup new \in SUBSET Told
      BY <2>2 DEF Subscription
    <2>4. (subs[s][i].m_appMsgReceived \/ new # {}) \in BOOLEAN
      OBVIOUS
    <2> QED
      BY <2>1, <2>2, <2>3, <2>4 DEF Subscription
  <1>3. subs' = [s \in Stations |-> subs'[s]] /\ \A s \in Stations :
          subs'[s] = [i \in DOMAIN subs[s] |-> subs'[s][i]]
    BY DEF GetDataFromNs3
  <1>4. ASSUME NEW s \in Stations
        PROVE  subs'[s] \in Seq(Subscription)
    <2>1. DOMAIN subs[s] = 1 .. Len(subs[s]) /\ Len(subs[s]) \in Nat
      OBVIOUS
    <2>2. [i \in 1 .. Len(subs[s]) |-> subs'[s][i]] \in Seq(Subscription)
      BY <1>2, <2>1
    <2> QED
      BY <1>3, <2>1, <2>2
  <1> QED
    BY <1>3, <1>4
\* A message that is ordered has its type, in every list.
LEMMA SendTypes ==
  ASSUME TypeInv, NEW s \in Stations, NEW app \in Apps, NEW to \in Apps, NEW mode \in Modes,
         NEW dests \in DestinationLists, SubsAppMessageSend(s, app, to, mode, dests)
  PROVE  /\ count' \in 1 .. MaxMessages
         /\ rows' \subseteq Row
         /\ air' \cup sending' \subseteq Packet
         /\ \A p \in sending' : p.ts <= m_simStep
  <1>1. PICK list, ts, flag :
           /\ flag \in BOOLEAN
           /\ Schedule(s, mode, to, list, count', ts, flag)
           /\ \/ /\ mode = "uni" /\ ts = m_simStep + 1
                 /\ \A i \in DOMAIN list : list[i] \in Stations
              \/ /\ mode # "uni" /\ ts = m_simStep
                 /\ \A i \in DOMAIN list : list[i] = Everyone
    BY OrderedMessage
  <1> DEFINE packet(d) == FirstPacket(s, mode, to, d, count')
             row(d) == NewRow(s, mode, to, d, count', ts, flag)
  <1>2. m_simStep \in 0 .. MaxStep /\ MaxStep \in Nat /\ MaxMessages \in Nat
    BY AppMessagesAssumption DEF TypeInv, TypeOK
  <1>3. count' \in 1 .. MaxMessages
    BY <1>2 DEF SubsAppMessageSend, TypeInv, TypeOK
  <1>4. ASSUME NEW i \in DOMAIN list
        PROVE  packet(list[i]) \in Packet /\ row(list[i]) \in Row /\ packet(list[i]).ts = m_simStep
    <2>1. list[i] \in Stations \cup {Everyone}
      BY <1>1
    <2>2. ts \in 0 .. MaxStep + 1 /\ m_simStep \in 0 .. MaxStep + 1
      BY <1>1, <1>2
    <2> QED
      BY <2>1, <2>2, <1>1, <1>3 DEF Packet, Row, FirstPacket, NewRow
  <1> HIDE DEF packet, row
  <1>5. /\ \A r \in rows' : r \in rows \/ \E i \in DOMAIN list : r = row(list[i])
        /\ \A p \in air' : p \in air \/ \E i \in DOMAIN list : p = packet(list[i])
        /\ \A p \in sending' : p \in sending \/ \E i \in DOMAIN list : p = packet(list[i])
    BY <1>1, ScheduleEffect DEF packet, row
  <1> QED
    BY <1>2, <1>3, <1>4, <1>5 DEF TypeInv, TypeOK

\* The step of ns-3 leaves packets of its types.
LEMMA RadioTypes ==
  ASSUME TypeInv, RunOneNs3TimeStep
  PROVE  late' \cup inbox' \subseteq Copy
  <1>1. PICK again \in SUBSET sending :
          \E heard \in SUBSET Copies(air \cup {Again(p) : p \in again}) :
            \E now \in SUBSET heard :
              inbox' = now \cup {c \in late : c.at \in nodes} /\ late' = heard \ now
    BY DEF RunOneNs3TimeStep
  <1>2. \A p \in air \cup {Again(q) : q \in again} : p \in Packet
    <2>1. ASSUME NEW q \in again
          PROVE  Again(q) \in Packet
      <3>1. q \in Packet /\ q.ts <= m_simStep /\ m_simStep \in 0 .. MaxStep /\ MaxStep \in Nat
        BY AppMessagesAssumption DEF TypeInv, TypeOK
      <3>2. q.ts + 1 \in 0 .. MaxStep + 1
        BY <3>1 DEF Packet
      <3> QED
        BY <3>1, <3>2 DEF Again, Packet
    <2> QED
      BY <2>1 DEF TypeInv, TypeOK
  <1>3. nodes \subseteq Stations
    BY AppMessagesAssumption DEF TypeInv, TypeOK, Stations
  <1>4. Copies(air \cup {Again(p) : p \in again}) \subseteq Copy
    BY <1>2, <1>3 DEF Copies, Hearers, Copy
  <1> QED
    BY <1>1, <1>4 DEF TypeInv, TypeOK

LEMMA TypeInvariant == Spec => []TypeInv
  <1>1. Init => TypeInv
    BY AppMessagesAssumption DEF Init, TypeInv, TypeOK, FixedStations, Stations
  <1>2. TypeInv /\ [Next]_vars => TypeInv'
    <2> SUFFICES ASSUME TypeInv, [Next]_vars
                 PROVE  TypeInv'
      OBVIOUS
    <2> USE AppMessagesAssumption
    <2>1. CASE RunOneNs3TimeStep
      BY <2>1, RadioTypes DEF RunOneNs3TimeStep, TypeInv, TypeOK, Do, NextPhase, world
    <2>2. CASE GetDataFromNs3
      <3>1. subs' \in [Stations -> Seq(Subscription)]
        BY <2>2, DataTypes DEF TypeInv, TypeOK
      <3> QED
        BY <2>2, <3>1
           DEF GetDataFromNs3, RowsLeft, TypeInv, TypeOK, Do, NextPhase, world, radio
    <2>3. ASSUME NEW left \in SUBSET (nodes \ FixedStations),
                 NEW last \in created .. NumStations, RunOneSumoTimeStep(left, last)
          PROVE  TypeInv'
      <3>1. subs' \in [Stations -> Seq(Subscription)]
        BY <2>3 DEF RunOneSumoTimeStep, TypeInv, TypeOK
      <3>2. nodes' \subseteq 1 .. created' /\ created' \in 0 .. NumStations
        BY <2>3 DEF RunOneSumoTimeStep, TypeInv, TypeOK
      <3>3. turn' = {} /\ phase' = "apps"
        BY <2>3 DEF RunOneSumoTimeStep, TypeInv, Do, NextPhase
      <3> QED
        BY <2>3, <3>1, <3>2, <3>3 DEF RunOneSumoTimeStep, TypeInv, TypeOK, radio
    <2>4. ASSUME NEW s \in Stations, NEW app \in Apps, NEW what \in ReceiveSubs,
                 SubsAppMessageReceive(s, app, what)
          PROVE  TypeInv'
      <3>1. [kind |-> "receive", app |-> app, mode |-> what.mode,
             dest |-> what.dest, source |-> what.source,
             receivedData |-> {}, m_appMsgReceived |-> FALSE] \in Subscription
        BY DEF Subscription, Stations
      <3>2. subs' \in [Stations -> Seq(Subscription)]
        BY <2>4, <3>1 DEF SubsAppMessageReceive, Subscribed, TypeInv, TypeOK
      <3> QED
        BY <2>4, <3>2 DEF SubsAppMessageReceive, IsTurn, TypeInv, TypeOK, world
    <2>5. ASSUME NEW s \in Stations, NEW app \in Apps, NEW to \in Apps, NEW mode \in Modes,
                 NEW dests \in DestinationLists, SubsAppMessageSend(s, app, to, mode, dests)
          PROVE  TypeInv'
      <3>1. [kind |-> "send", app |-> app, mode |-> mode, dest |-> {},
             source |-> {}, receivedData |-> {}, m_appMsgReceived |-> FALSE] \in Subscription
        BY DEF Subscription
      <3>2. subs' \in [Stations -> Seq(Subscription)]
        BY <2>5, <3>1 DEF SubsAppMessageSend, Subscribed, TypeInv, TypeOK
      <3>3. /\ count' \in 1 .. MaxMessages
            /\ rows' \subseteq Row
            /\ air' \cup sending' \subseteq Packet
            /\ \A p \in sending' : p.ts <= m_simStep
        BY <2>5, SendTypes
      <3> QED
        BY <2>5, <3>2, <3>3 DEF SubsAppMessageSend, IsTurn, TypeInv, TypeOK, world
    <2>6. ASSUME NEW s \in Stations, NEW kept \in SUBSET DOMAIN subs[s], FinishTurn(s, kept)
          PROVE  TypeInv'
      <3>1. subs' \in [Stations -> Seq(Subscription)]
        BY <2>6, KeptSubscriptions DEF TypeInv, TypeOK
      <3> QED
        BY <2>6, <3>1 DEF FinishTurn, IsTurn, TypeInv, TypeOK, world
    <2>7. CASE RunApplicationLogicReturns
      BY <2>7 DEF RunApplicationLogicReturns, TypeInv, TypeOK, Do, NextPhase, world, radio
    <2>8. CASE ScheduleV2xMessages
      <3>1. m_simStep' = m_simStep + 1 /\ m_simStep' \in 0 .. MaxStep
        BY <2>8 DEF ScheduleV2xMessages, TypeInv, TypeOK
      <3>2. \A p \in sending : p.ts \in Int /\ p.ts <= m_simStep
        BY DEF TypeInv, TypeOK, Packet
      <3>3. \A p \in sending : p.ts <= m_simStep'
        BY <3>1, <3>2 DEF TypeInv, TypeOK
      <3> QED
        BY <2>8, <3>1, <3>3
           DEF ScheduleV2xMessages, TypeInv, TypeOK, Do, NextPhase, world, radio
    <2>9. CASE UNCHANGED vars
      BY <2>9 DEF vars, TypeInv, TypeOK, world, radio
    <2> QED
      BY <2>1, <2>2, <2>3, <2>4, <2>5, <2>6, <2>7, <2>8, <2>9 DEF Next
  <1> QED
    BY <1>1, <1>2, PTL DEF Spec

\* The variables of the messages have their types: the numbers, steps and stations in rows,
\* packets and reports stay those of the program.
THEOREM TypeCorrect == Spec => []TypeOK
  <1>1. TypeInv => TypeOK
    BY DEF TypeInv
  <1> QED
    BY <1>1, TypeInvariant, PTL
-----------------------------------------------------------------------------
(* What is told of a topobroadcast, when packets are received in the step  *)
(* in which they are sent.                                                 *)

\* Outside of GetDataFromNs3, what a subscription was told is what one was told before.
LEMMA ReportsInherited ==
  ASSUME subs \in [Stations -> Seq(Subscription)], [Next]_vars, ~GetDataFromNs3
  PROVE  \A t \in Stations : \A i \in DOMAIN subs'[t] :
           \/ subs'[t][i].receivedData = {}
           \/ \E j \in DOMAIN subs[t] :
                subs'[t][i].receivedData = subs[t][j].receivedData
  <1> DEFINE Inherited ==
        \A t \in Stations : \A i \in DOMAIN subs'[t] :
           \/ subs'[t][i].receivedData = {}
           \/ \E j \in DOMAIN subs[t] :
                subs'[t][i].receivedData = subs[t][j].receivedData
  <1> SUFFICES Inherited
    OBVIOUS
  <1>1. CASE subs' = subs
    BY <1>1
  <1>2. ASSUME NEW s \in Stations, NEW sub, sub.receivedData = {}, Subscribed(s, sub)
        PROVE  Inherited
    <2>1. subs' = [subs EXCEPT ![s] = Append(subs[s], sub)]
      BY <1>2 DEF Subscribed
    <2>2. ASSUME NEW i \in DOMAIN subs'[s]
          PROVE  subs'[s][i] = sub \/ (i \in DOMAIN subs[s] /\ subs'[s][i] = subs[s][i])
      BY <2>1
    <2>3. \A t \in Stations \ {s} : subs'[t] = subs[t]
      BY <2>1
    <2> QED
      BY <1>2, <2>2, <2>3
  <1>3. CASE RunOneNs3TimeStep
    BY <1>1, <1>3 DEF RunOneNs3TimeStep
  <1>4. ASSUME NEW left, NEW last, RunOneSumoTimeStep(left, last)
        PROVE  Inherited
    <2>1. ASSUME NEW t \in Stations
          PROVE  subs'[t] = <<>> \/ subs'[t] = subs[t]
      BY <1>4 DEF RunOneSumoTimeStep
    <2> QED
      BY <2>1
  <1>5. ASSUME NEW s \in Stations, NEW app, NEW what, SubsAppMessageReceive(s, app, what)
        PROVE  Inherited
    BY <1>2, <1>5 DEF SubsAppMessageReceive
  <1>6. ASSUME NEW s \in Stations, NEW app, NEW to, NEW mode, NEW dests,
               SubsAppMessageSend(s, app, to, mode, dests)
        PROVE  Inherited
    BY <1>2, <1>6 DEF SubsAppMessageSend
  <1>7. ASSUME NEW s \in Stations, NEW kept \in SUBSET DOMAIN subs[s], FinishTurn(s, kept)
        PROVE  Inherited
    BY <1>7, KeptSubscriptions
  <1>8. CASE RunApplicationLogicReturns
    BY <1>1, <1>8 DEF RunApplicationLogicReturns
  <1>9. CASE ScheduleV2xMessages
    BY <1>1, <1>9 DEF ScheduleV2xMessages
  <1>10. CASE UNCHANGED vars
    BY <1>1, <1>10 DEF vars
  <1> HIDE DEF Inherited
  <1>11. CASE Next
    BY <1>3, <1>4, <1>5, <1>6, <1>7, <1>8, <1>9, <1>11 DEF Next
  <1> QED
    BY <1>10, <1>11

AllReports == UNION {Reports(s) : s \in Stations}

LEMMA AllReportsAre ==
  ASSUME NEW d
  PROVE  d \in AllReports <=> \E s \in Stations : \E i \in DOMAIN subs[s] : d \in subs[s][i].receivedData
  BY DEF AllReports, Reports

\* The reports that an action leaves.
LEMMA ReportsAfter ==
  ASSUME subs \in [Stations -> Seq(Subscription)], [Next]_vars
  PROVE  /\ ~GetDataFromNs3 => AllReports' \subseteq AllReports
         /\ GetDataFromNs3 => \E taken \in Takings : \A d \in AllReports' :
              d \in AllReports \/ IsNewReport(d, taken)
  <1>1. CASE GetDataFromNs3
    <2>1. PICK taken \in Takings : \A s \in Stations : \A i \in DOMAIN subs'[s] :
           /\ i \in DOMAIN subs[s]
           /\ \A d \in subs'[s][i].receivedData :
                d \in subs[s][i].receivedData \/ IsNewReport(d, taken)
      BY <1>1, NewReportsIn
    <2>2. ASSUME NEW d \in AllReports'
          PROVE  d \in AllReports \/ IsNewReport(d, taken)
      <3>1. PICK s \in Stations : \E i \in DOMAIN subs'[s] : d \in subs'[s][i].receivedData
        BY <2>2 DEF AllReports, Reports
      <3> QED
        BY <2>1, <3>1, AllReportsAre
    <2> QED
      BY <1>1, <2>2
  <1>2. CASE ~GetDataFromNs3
    <2>1. ASSUME NEW d \in AllReports'
          PROVE  d \in AllReports
      <3>1. PICK s \in Stations : \E i \in DOMAIN subs'[s] : d \in subs'[s][i].receivedData
        BY <2>1 DEF AllReports, Reports
      <3>2. \E j \in DOMAIN subs[s] : d \in subs[s][j].receivedData
        BY <1>2, <3>1, ReportsInherited
      <3> QED
        BY <3>2, AllReportsAre
    <2> QED
      BY <1>2, <2>1
  <1> QED
    BY <1>1, <1>2

\* Rows of topobroadcasts are of steps that ns-3 has not finished while the loop is
\* in the second half of a step; the packets that are on the air are first ones,
\* ordered in the last round of applications.
Times ==
  /\ \A r \in rows : r.mode = "topo" =>
       r.ts <= m_simStep /\ (phase \in {"ns3", "data", "sumo"} => r.ts < m_simStep)
  /\ \A p \in air \cup sending :
       ~p.again /\ p.ts = IF phase = "ns3" THEN m_simStep - 1 ELSE m_simStep

\* A row for the topobroadcast p.
IsRowOf(r, p) == r.mode = "topo" /\ p.mode = "topo" /\ r.from = p.from /\ r.ts = p.ts

\* The row that a topobroadcast meets is its own.
OwnRow ==
  /\ phase = "apps" => \A p \in air : p.mode = "topo" => \E r \in rows : IsRowOf(r, p)
  /\ \A p \in air : \A r \in rows : IsRowOf(r, p) => r.msg = p.msg
  /\ phase = "data" => \A c \in inbox : \A r \in rows :
       IsRowOf(r, c.pkt) => r.msg = c.pkt.msg /\ ~c.pkt.again

\* What is told of a topobroadcast is its first packet, as its message.
TopoReports ==
  \A d \in AllReports : d.pkt.mode = "topo" => ~d.pkt.again /\ d.msg = d.pkt.msg

HonestInv == Times /\ OwnRow /\ TopoReports

\* The numbers in rows and packets.
LEMMA Numbers ==
  ASSUME TypeOK
  PROVE  /\ m_simStep \in Int
         /\ \A r \in rows : r.ts \in Int
         /\ \A p \in air \cup sending : p.ts \in Int
  BY DEF TypeOK, Row, Packet

\* The packets that ns-3 leaves in the inboxes when none is late.
LEMMA InboxPackets ==
  ASSUME SendersPresent, Late = FALSE, RunOneNs3TimeStep, NEW c \in inbox'
  PROVE  c.pkt \in air \/ \E q \in sending : c.pkt = Again(q)
  <1>1. PICK again \in SUBSET sending :
          \E heard \in SUBSET Copies(air \cup {Again(p) : p \in again}) : inbox' = heard
    BY DEF RunOneNs3TimeStep, SendersPresent
  <1> QED
    BY <1>1 DEF Copies

LEMMA HonestRadio ==
  ASSUME TypeOK, SendersPresent, Late = FALSE, HonestInv, RunOneNs3TimeStep
  PROVE  Times' /\ OwnRow'
  <1>1. /\ phase = "ns3" /\ phase' = "data" /\ m_simStep' = m_simStep /\ rows' = rows
        /\ air' = {} /\ sending' = {}
    BY DEF RunOneNs3TimeStep, Do, NextPhase
  <1>2. ASSUME NEW c \in inbox', NEW r \in rows, IsRowOf(r, c.pkt)
        PROVE  r.msg = c.pkt.msg /\ ~c.pkt.again
    <2>1. CASE c.pkt \in air
      BY <1>2, <2>1 DEF HonestInv, OwnRow, Times
    <2>2. ASSUME NEW q \in sending, c.pkt = Again(q)
          PROVE  FALSE
      <3>1. q \in Packet /\ q.ts = m_simStep - 1 /\ m_simStep \in Int
        BY <1>1, Numbers DEF HonestInv, Times, TypeOK
      <3>2. c.pkt.ts = m_simStep
        BY <3>1, <2>2 DEF Again, Packet
      <3>3. r.ts < m_simStep
        BY <1>1, <1>2 DEF HonestInv, Times, IsRowOf
      <3> QED
        BY <1>2, <3>1, <3>2, <3>3, Numbers DEF IsRowOf
    <2> QED
      BY <2>1, <2>2, InboxPackets
  <1> QED
    BY <1>1, <1>2 DEF HonestInv, Times, OwnRow, IsRowOf

LEMMA HonestSend ==
  ASSUME TypeInv, RowsDistinct, RowsDistinct', HonestInv,
         NEW s \in Stations, NEW app \in Apps, NEW to \in Apps, NEW mode \in Modes,
         NEW dests \in DestinationLists, SubsAppMessageSend(s, app, to, mode, dests)
  PROVE  Times' /\ OwnRow'
  <1>1. PICK list, ts, flag :
           /\ flag \in BOOLEAN
           /\ Schedule(s, mode, to, list, count', ts, flag)
           /\ \/ /\ mode = "uni" /\ ts = m_simStep + 1
                 /\ \A i \in DOMAIN list : list[i] \in Stations
              \/ /\ mode # "uni" /\ ts = m_simStep
                 /\ \A i \in DOMAIN list : list[i] = Everyone
    BY OrderedMessage
  <1> DEFINE packet(d) == FirstPacket(s, mode, to, d, count')
             row(d) == NewRow(s, mode, to, d, count', ts, flag)
  <1>2. /\ rows \subseteq rows'
        /\ \A r \in rows' : r \in rows \/ \E i \in DOMAIN list :
             r = row(list[i]) /\ ~AlreadyScheduled(mode, s, list[i], ts)
        /\ \A p \in air' : p \in air \/ \E i \in DOMAIN list :
             /\ p = packet(list[i]) /\ ~AlreadyScheduled(mode, s, list[i], ts)
             /\ row(list[i]) \in rows'
        /\ \A p \in sending' : p \in sending \/ \E i \in DOMAIN list : p = packet(list[i])
    BY <1>1, ScheduleEffect
  <1>3. /\ phase = "apps" /\ phase' = "apps" /\ m_simStep' = m_simStep /\ m_simStep \in Int
    BY Numbers DEF SubsAppMessageSend, IsTurn, TypeInv
  <1>4. \A d : /\ packet(d).mode = mode /\ packet(d).from = s /\ packet(d).ts = m_simStep
               /\ packet(d).msg = count' /\ packet(d).again = FALSE
               /\ row(d).mode = mode /\ row(d).from = s /\ row(d).ts = ts
               /\ row(d).msg = count' /\ row(d).to = d
    BY DEF FirstPacket, NewRow
  <1> HIDE DEF packet, row
  <1>5. Times'
    <2>1. ASSUME NEW r \in rows', r.mode = "topo"
          PROVE  r.ts <= m_simStep
      BY <1>1, <1>2, <1>3, <1>4, <2>1 DEF HonestInv, Times
    <2>2. ASSUME NEW p \in air' \cup sending'
          PROVE  ~p.again /\ p.ts = m_simStep
      BY <1>2, <1>3, <1>4, <2>2 DEF HonestInv, Times
    <2> QED
      BY <1>3, <2>1, <2>2 DEF Times
  <1>6. \A p \in air' : p.mode = "topo" => \E r \in rows' : IsRowOf(r, p)
    BY <1>1, <1>2, <1>3, <1>4 DEF HonestInv, OwnRow, IsRowOf
  <1>7. ASSUME NEW p \in air', NEW r \in rows', IsRowOf(r, p)
        PROVE  r.msg = p.msg
    <2>1. \A q \in rows' : q.mode = "topo" => q.to = Everyone
      BY DEF RowsDistinct
    <2>2. \A q \in rows', x \in rows' : IsRowOf(q, p) /\ IsRowOf(x, p) => q = x
      BY <2>1 DEF RowsDistinct, IsRowOf
    <2>3. CASE p \in air
      <3>1. PICK q \in rows : IsRowOf(q, p)
        BY <1>3, <1>7, <2>3 DEF HonestInv, OwnRow, IsRowOf
      <3>2. q = r /\ q.msg = p.msg
        BY <1>2, <1>7, <2>2, <2>3, <3>1 DEF HonestInv, OwnRow
      <3> QED
        BY <3>2
    <2>4. ASSUME NEW i \in DOMAIN list, p = packet(list[i]), row(list[i]) \in rows'
          PROVE  r.msg = p.msg
      <3>1. IsRowOf(row(list[i]), p)
        BY <1>1, <1>4, <1>7, <2>4 DEF IsRowOf
      <3> QED
        BY <1>4, <1>7, <2>2, <2>4, <3>1
    <2> QED
      BY <1>2, <2>3, <2>4
  <1> QED
    BY <1>3, <1>5, <1>6, <1>7 DEF OwnRow, IsRowOf

\* A topobroadcast is told by the row that it matches.
LEMMA HonestData ==
  ASSUME TypeOK, HonestInv, GetDataFromNs3
  PROVE  HonestInv'
  <1>1. /\ phase = "data" /\ phase' = "sumo" /\ m_simStep' = m_simStep /\ rows' \subseteq rows
        /\ air' = air /\ sending' = sending
    BY DEF GetDataFromNs3, Do, NextPhase, RowsLeft, radio
  <1>2. ASSUME NEW taken \in Takings, NEW d, IsNewReport(d, taken), d.pkt.mode = "topo"
        PROVE  ~d.pkt.again /\ d.msg = d.pkt.msg
    <2>1. ASSUME NEW r \in UnicastRowsMatched, d = Report(taken[r], r.msg)
          PROVE  FALSE
      <3>1. taken[r].pkt.mode = "uni"
        BY <2>1 DEF Takings, ReceivedIn
      <3> QED
        BY <1>2, <2>1, <3>1 DEF Report
    <2>2. ASSUME NEW c \in ReceivedIn("geo"), d.pkt = c.pkt
          PROVE  FALSE
      BY <1>2, <2>2 DEF ReceivedIn
    <2>3. ASSUME NEW c \in ReceivedIn("topo"), NEW r \in rows, Matches(c, r),
                 d = Report(c, r.msg)
          PROVE  ~d.pkt.again /\ d.msg = d.pkt.msg
      <3>1. IsRowOf(r, c.pkt) /\ c \in inbox
        BY <2>3 DEF Matches, IsRowOf, ReceivedIn, Received
      <3> QED
        BY <1>1, <2>3, <3>1 DEF HonestInv, OwnRow, Report
    <2> QED
      BY <1>2, <2>1, <2>2, <2>3 DEF IsNewReport, Report
  <1>3. TopoReports'
    <2>1. [Next]_vars
      BY DEF Next
    <2> QED
      BY <2>1, <1>2, ReportsAfter DEF HonestInv, TopoReports, TypeOK
  <1> QED
    BY <1>1, <1>3 DEF HonestInv, Times, OwnRow, IsRowOf

LEMMA HonestInvariant ==
  ASSUME Late = FALSE
  PROVE  Spec => []HonestInv
  <1>1. Init => HonestInv
    BY DEF Init, HonestInv, Times, OwnRow, TopoReports, AllReports, Reports
  <1>2. TypeInv /\ RowsDistinct /\ RowsDistinct' /\ SendersPresent /\ HonestInv /\ [Next]_vars
          => HonestInv'
    <2> SUFFICES ASSUME TypeInv, RowsDistinct, RowsDistinct', SendersPresent, HonestInv,
                        [Next]_vars
                 PROVE  HonestInv'
      OBVIOUS
    <2>0. TypeOK /\ m_simStep \in Int
      BY Numbers DEF TypeInv
    <2>1. CASE GetDataFromNs3
      BY <2>0, <2>1, HonestData
    <2>2. CASE ~GetDataFromNs3
      <3>1. TopoReports'
        BY <2>0, <2>2, ReportsAfter DEF HonestInv, TopoReports, TypeOK
      <3> SUFFICES Times' /\ OwnRow'
        BY <3>1 DEF HonestInv
      <3>2. CASE RunOneNs3TimeStep
        BY <3>2, <2>0, HonestRadio
      <3>3. ASSUME NEW left, NEW last, RunOneSumoTimeStep(left, last)
            PROVE  Times' /\ OwnRow'
        BY <3>3 DEF RunOneSumoTimeStep, HonestInv, Times, OwnRow, IsRowOf, SendersPresent,
                    Do, NextPhase, radio
      <3>4. ASSUME NEW s, NEW app, NEW what, SubsAppMessageReceive(s, app, what)
            PROVE  Times' /\ OwnRow'
        BY <3>4 DEF SubsAppMessageReceive, IsTurn, HonestInv, Times, OwnRow, IsRowOf
      <3>5. ASSUME NEW s \in Stations, NEW app \in Apps, NEW to \in Apps, NEW mode \in Modes,
                   NEW dests \in DestinationLists, SubsAppMessageSend(s, app, to, mode, dests)
            PROVE  Times' /\ OwnRow'
        BY <3>5, HonestSend
      <3>6. ASSUME NEW s, NEW kept, FinishTurn(s, kept)
            PROVE  Times' /\ OwnRow'
        BY <3>6 DEF FinishTurn, IsTurn, HonestInv, Times, OwnRow, IsRowOf
      <3>7. CASE RunApplicationLogicReturns
        BY <3>7 DEF RunApplicationLogicReturns, HonestInv, Times, OwnRow, IsRowOf,
                    Do, NextPhase, radio
      <3>8. CASE ScheduleV2xMessages
        <4>1. /\ phase = "schedule" /\ phase' = "ns3" /\ m_simStep' = m_simStep + 1
              /\ rows' \subseteq rows /\ air' = air /\ sending' = sending /\ inbox' = inbox
          BY <3>8 DEF ScheduleV2xMessages, Do, NextPhase, radio
        <4>2. Times'
          BY <4>1, <2>0, Numbers DEF HonestInv, Times
        <4>3. OwnRow'
          BY <4>1 DEF HonestInv, OwnRow, IsRowOf
        <4> QED
          BY <4>2, <4>3
      <3>9. CASE UNCHANGED vars
        BY <3>9 DEF vars, HonestInv, Times, OwnRow, IsRowOf, radio
      <3>10. CASE Next
        BY <2>2, <3>2, <3>3, <3>4, <3>5, <3>6, <3>7, <3>8, <3>10 DEF Next
      <3> QED
        BY <3>9, <3>10
    <2> QED
      BY <2>1, <2>2
  <1> QED
    BY <1>1, <1>2, TypeInvariant, RowsStayDistinct, SendersStayPresent, PTL DEF Spec

\* A topobroadcast is told as the message that was sent (TopoHonest), if packets are
\* received in the step in which they are sent: its repeat carries the time of a step for
\* which there is no row yet.
THEOREM TopobroadcastsAreHonest ==
  ASSUME Late = FALSE
  PROVE  Spec => []TopoHonest
  <1>1. HonestInv => TopoHonest
    BY DEF HonestInv, TopoReports, TopoHonest, AllReports
  <1> QED
    BY <1>1, HonestInvariant, PTL
-----------------------------------------------------------------------------
(* No message is told twice.                                               *)

AllPackets ==
  air \cup sending \cup {c.pkt : c \in inbox} \cup {d.pkt : d \in AllReports}

\* The step in which the message of packet p was ordered.
OrderedAt(p) == IF p.again THEN p.ts - 1 ELSE p.ts

\* Packets of one message, up to its destination.
SameOrder(p, q) ==
  /\ p.mode = q.mode /\ p.from = q.from /\ p.app = q.app
  /\ OrderedAt(p) = OrderedAt(q)

\* Numbers of messages are given one after the other.
Numbered ==
  /\ \A p \in AllPackets : p.msg <= count
  /\ \A r \in rows : r.msg <= count
  /\ \A d \in AllReports : d.msg <= count

\* A number is that of one message, in packets, rows and reports.
PacketsApart ==
  /\ \A p, q \in AllPackets : p.msg = q.msg => SameOrder(p, q)
  /\ \A p \in AllPackets : p.mode = "topo" => p.to = Everyone
RowsApart ==
  /\ \A r, q \in rows : r.msg = q.msg => r.mode = q.mode /\ r.from = q.from /\ r.ts = q.ts
  /\ \A d \in AllReports : \A r \in rows : d.msg = r.msg => d.pkt.mode = r.mode
  /\ \A d, e \in AllReports : d.msg = e.msg /\ d.msg # Phantom => d.pkt.mode = e.pkt.mode

\* A unicast that was told has no row any more, and was told once.
ToldRows ==
  \A d \in AllReports : d.pkt.mode = "uni" => \A r \in rows : r.msg = d.msg => r.to # d.at
UnicastOnce ==
  \A s \in Stations : \A i \in DOMAIN subs[s] : \A d, e \in subs[s][i].receivedData :
    d.msg = e.msg /\ d.at = e.at /\ d.msg # Phantom /\ d.pkt.mode = "uni" => d = e

OnceInv == Numbered /\ PacketsApart /\ RowsApart /\ ToldRows /\ UnicastOnce

\* Packet p is one that there was, or its second transmission.
Continues(p, q) == p = q \/ (p = Again(q) /\ ~q.again)

LEMMA ContinuesMessage ==
  ASSUME NEW q \in Packet, NEW p, Continues(p, q)
  PROVE  p.msg = q.msg /\ p.to = q.to /\ SameOrder(p, q)
  <1>1. CASE p = q
    BY <1>1 DEF SameOrder
  <1>2. CASE p = Again(q) /\ ~q.again
    <2>1. /\ p.msg = q.msg /\ p.to = q.to /\ p.mode = q.mode /\ p.from = q.from
          /\ p.app = q.app /\ p.ts = q.ts + 1 /\ p.again = TRUE
      BY <1>2 DEF Again, Packet
    <2>2. q.ts \in Int
      BY DEF Packet
    <2> QED
      BY <1>2, <2>1, <2>2 DEF SameOrder, OrderedAt
  <1> QED
    BY <1>1, <1>2 DEF Continues

LEMMA PacketTypes ==
  ASSUME TypeOK
  PROVE  /\ AllPackets \subseteq Packet /\ AllReports \subseteq Told
         /\ \A p \in AllPackets : p.msg \in Int
         /\ \A r \in rows : r.msg \in Int
         /\ count \in Int
  <1>1. AllReports \subseteq Told
    <2> SUFFICES ASSUME NEW d \in AllReports
                 PROVE  d \in Told
      OBVIOUS
    <2>1. PICK s \in Stations : \E i \in DOMAIN subs[s] : d \in subs[s][i].receivedData
      BY AllReportsAre
    <2>2. PICK i \in DOMAIN subs[s] : d \in subs[s][i].receivedData
      BY <2>1
    <2>3. subs[s][i] \in Subscription
      BY DEF TypeOK
    <2> QED
      BY <2>2, <2>3 DEF Subscription
  <1>2. AllPackets \subseteq Packet
    BY <1>1 DEF AllPackets, TypeOK, Told, Copy
  <1> QED
    BY <1>1, <1>2 DEF TypeOK, Packet, Row

\* Every action but the order of a message goes on with the packets there are.
LEMMA PacketsContinue ==
  ASSUME TypeOK, SendersPresent, Late = FALSE, Times, [Next]_vars,
         ~\E s \in Stations, app, to \in Apps, mode \in Modes, dests \in DestinationLists :
            SubsAppMessageSend(s, app, to, mode, dests)
  PROVE  /\ rows' \subseteq rows /\ count' = count
         /\ \A p \in AllPackets' : \E q \in AllPackets : Continues(p, q)
  <1>1. ASSUME air' \subseteq air, sending' \subseteq sending, AllReports' \subseteq AllReports,
               inbox' \subseteq inbox
        PROVE  \A p \in AllPackets' : \E q \in AllPackets : Continues(p, q)
    BY <1>1 DEF AllPackets, Continues
  <1>2. CASE RunOneNs3TimeStep
    <2>1. AllReports' = AllReports
      BY <1>2 DEF RunOneNs3TimeStep, AllReports, Reports
    <2>2. \A c \in inbox' : c.pkt \in air \/ \E q \in sending : c.pkt = Again(q)
      BY <1>2, InboxPackets
    <2>3. \A q \in sending : ~q.again
      BY DEF Times
    <2>4. air' = {} /\ sending' = {} /\ rows' = rows /\ count' = count
      BY <1>2 DEF RunOneNs3TimeStep
    <2> QED
      BY <2>1, <2>2, <2>3, <2>4 DEF AllPackets, Continues
  <1>3. CASE GetDataFromNs3
    <2>1. PICK taken \in Takings : \A d \in AllReports' : d \in AllReports \/ IsNewReport(d, taken)
      BY <1>3, ReportsAfter DEF TypeOK
    <2>2. ASSUME NEW d, IsNewReport(d, taken)
          PROVE  \E c \in inbox : d.pkt = c.pkt
      BY <2>2 DEF IsNewReport, Report, Takings, ReceivedIn, Received
    <2>3. inbox' = {} /\ air' = air /\ sending' = sending /\ rows' \subseteq rows /\ count' = count
      BY <1>3 DEF GetDataFromNs3, RowsLeft, radio
    <2> QED
      BY <2>1, <2>2, <2>3 DEF AllPackets, Continues
  <1>4. CASE ~RunOneNs3TimeStep /\ ~GetDataFromNs3
    <2>1. AllReports' \subseteq AllReports
      BY <1>4, ReportsAfter DEF TypeOK
    <2>2. /\ rows' \subseteq rows /\ count' = count
          /\ air' = air /\ sending' = sending /\ inbox' = inbox
      BY <1>4 DEF Next, vars, RunOneSumoTimeStep, SubsAppMessageReceive, IsTurn, FinishTurn,
                  RunApplicationLogicReturns, ScheduleV2xMessages, radio
    <2> QED
      BY <1>1, <2>1, <2>2
  <1> QED
    BY <1>2, <1>3, <1>4

\* What is reported anew is of a row, unless it is a phantom.
LEMMA NewReportRow ==
  ASSUME NEW taken \in Takings, NEW d, IsNewReport(d, taken)
  PROVE  \/ d.msg = Phantom
         \/ \E c \in Received : \E r \in rows :
              /\ Matches(c, r) /\ d = Report(c, r.msg)
              /\ r.mode = "uni" => r \in UnicastRowsMatched /\ c = taken[r]
  <1>1. ASSUME NEW r \in UnicastRowsMatched, d = Report(taken[r], r.msg)
        PROVE  taken[r] \in Received /\ r \in rows /\ Matches(taken[r], r)
    BY DEF Takings, UnicastRowsMatched, ReceivedIn
  <1>2. ASSUME NEW c \in ReceivedIn("geo") \cup ReceivedIn("topo"), NEW r \in rows, Matches(c, r)
        PROVE  c \in Received /\ r.mode # "uni"
    BY <1>2 DEF ReceivedIn, Matches
  <1>3. ASSUME NEW c, d = Report(c, Phantom)
        PROVE  d.msg = Phantom
    BY <1>3 DEF Report
  <1> QED
    BY <1>1, <1>2, <1>3 DEF IsNewReport

\* The number of a message and its row, of a report and what it is of.
LEMMA ReportFields ==
  ASSUME NEW c, NEW r, NEW d, Matches(c, r), d = Report(c, r.msg)
  PROVE  /\ d.msg = r.msg /\ d.pkt = c.pkt /\ d.at = c.at /\ d.pkt.mode = r.mode
         /\ r.to \in {Everyone, d.at}
  BY DEF Matches, Report

\* GetDataFromNs3 keeps the numbers of messages apart.
LEMMA DataOnce ==
  ASSUME TypeOK, RowsDistinct, OnceInv, GetDataFromNs3
  PROVE  /\ \A d \in AllReports' : d.msg <= count
         /\ RowsApart' /\ ToldRows' /\ UnicastOnce'
  <1>0. rows' \subseteq rows
    BY DEF GetDataFromNs3, RowsLeft
  <1>1. PICK taken \in Takings : \A s \in Stations : \A i \in DOMAIN subs'[s] :
           /\ i \in DOMAIN subs[s]
           /\ \A d \in subs'[s][i].receivedData :
                d \in subs[s][i].receivedData \/ IsNewReport(d, taken)
    BY NewReportsIn DEF TypeOK
  <1>2. ASSUME NEW d \in AllReports'
        PROVE  d \in AllReports \/ IsNewReport(d, taken)
    <2>1. PICK s \in Stations : \E i \in DOMAIN subs'[s] : d \in subs'[s][i].receivedData
      BY DEF AllReports, Reports
    <2> QED
      BY <2>1, <1>1, AllReportsAre
  <1>3. /\ \A d \in AllReports : d.msg \in Int
        /\ \A r \in rows : r.msg \in Int /\ r.msg # Phantom
        /\ count \in Nat
    BY PacketTypes DEF Told, TypeOK, Row, Phantom
  \* A new report has a row, whose mode is its own.
  <1>4. ASSUME NEW d, IsNewReport(d, taken), d.msg # Phantom
        PROVE  \E r \in rows : d.msg = r.msg /\ d.pkt.mode = r.mode
    BY <1>4, NewReportRow, ReportFields
  <1>5. \A d \in AllReports' : d.msg <= count
    BY <1>2, <1>3, <1>4 DEF OnceInv, Numbered, Phantom
  <1>6. \A d \in AllReports' : \A r \in rows : d.msg = r.msg => d.pkt.mode = r.mode
    BY <1>2, <1>3, <1>4 DEF OnceInv, RowsApart
  <1>7. \A d, e \in AllReports' : d.msg = e.msg /\ d.msg # Phantom => d.pkt.mode = e.pkt.mode
    <2> SUFFICES ASSUME NEW d \in AllReports', NEW e \in AllReports',
                        d.msg = e.msg, d.msg # Phantom
                 PROVE  d.pkt.mode = e.pkt.mode
      OBVIOUS
    <2>1. CASE IsNewReport(d, taken)
      BY <2>1, <1>4, <1>6
    <2>2. CASE IsNewReport(e, taken)
      BY <2>2, <1>4, <1>6
    <2> QED
      BY <2>1, <2>2, <1>2 DEF OnceInv, RowsApart
  <1>8. RowsApart'
    BY <1>0, <1>6, <1>7 DEF OnceInv, RowsApart
  \* A unicast that is told now has taken the row of its message and receiver.
  <1>9. ASSUME NEW d, IsNewReport(d, taken), d.pkt.mode = "uni"
        PROVE  \E r \in UnicastRowsMatched :
                 /\ d = Report(taken[r], r.msg) /\ d.msg = r.msg /\ d.at = r.to
                 /\ r \in rows /\ r \notin rows'
    <2>1. PICK r \in UnicastRowsMatched : d = Report(taken[r], r.msg)
      BY <1>9 DEF IsNewReport, Report, ReceivedIn
    <2>2. r \in rows /\ taken[r] \in ReceivedIn("uni") /\ Matches(taken[r], r)
      BY DEF UnicastRowsMatched, Takings
    <2>3. d.msg = r.msg /\ d.pkt.mode = r.mode /\ r.to \in {Everyone, d.at}
      BY <2>1, <2>2, ReportFields
    <2>4. r.to # Everyone
      BY <1>9, <2>2, <2>3 DEF RowsDistinct
    <2>5. r \notin rows'
      BY <1>9, <2>2, <2>3 DEF GetDataFromNs3, RowsLeft, ReceivedIn
    <2> QED
      BY <2>1, <2>2, <2>3, <2>4, <2>5
  <1>10. ASSUME NEW r \in rows, NEW q \in rows, r.msg = q.msg, r.to = q.to
         PROVE  r = q
    BY <1>10 DEF OnceInv, RowsApart, RowsDistinct
  <1>11. ToldRows'
    <2> SUFFICES ASSUME NEW d \in AllReports', d.pkt.mode = "uni", NEW r \in rows', r.msg = d.msg
                 PROVE  r.to # d.at
      BY DEF ToldRows
    <2>1. CASE d \in AllReports
      BY <2>1, <1>0 DEF OnceInv, ToldRows
    <2>2. CASE IsNewReport(d, taken)
      BY <2>2, <1>0, <1>9, <1>10
    <2> QED
      BY <2>1, <2>2, <1>2
  <1>12. UnicastOnce'
    <2> SUFFICES ASSUME NEW s \in Stations, NEW i \in DOMAIN subs'[s],
                        NEW d \in subs'[s][i].receivedData, NEW e \in subs'[s][i].receivedData,
                        d.msg = e.msg, d.at = e.at, d.msg # Phantom, d.pkt.mode = "uni"
                 PROVE  d = e
      BY DEF UnicastOnce
    <2>1. d \in AllReports' /\ e \in AllReports'
      BY DEF AllReports, Reports
    <2>2. e.pkt.mode = "uni"
      BY <2>1, <1>7
    <2>3. i \in DOMAIN subs[s]
      BY <1>1
    <2>4. CASE IsNewReport(d, taken) /\ IsNewReport(e, taken)
      BY <2>2, <2>4, <1>9, <1>10
    <2>5. ASSUME NEW x \in subs[s][i].receivedData, NEW y, IsNewReport(y, taken),
                 x.pkt.mode = "uni", y.pkt.mode = "uni", x.msg = y.msg, x.at = y.at
          PROVE  FALSE
      <3>1. x \in AllReports
        BY <2>3, AllReportsAre
      <3>2. \A r \in rows : r.msg = x.msg => r.to # x.at
        BY <2>5, <3>1 DEF OnceInv, ToldRows
      <3> QED
        BY <2>5, <3>2, <1>9
    <2>6. CASE d \in subs[s][i].receivedData /\ e \in subs[s][i].receivedData
      BY <2>3, <2>6 DEF OnceInv, UnicastOnce
    <2> QED
      BY <2>2, <2>4, <2>5, <2>6, <1>1
  <1> QED
    BY <1>5, <1>8, <1>11, <1>12
\* Packets that go on keep their numbers and stay apart.
LEMMA PacketsOnce ==
  ASSUME TypeOK, OnceInv, count' = count,
         \A p \in AllPackets' : \E q \in AllPackets : Continues(p, q)
  PROVE  (\A p \in AllPackets' : p.msg <= count) /\ PacketsApart'
  <1>1. \A p \in AllPackets' : \E q \in AllPackets :
          p.msg = q.msg /\ p.to = q.to /\ SameOrder(p, q)
    BY PacketTypes, ContinuesMessage
  <1>2. \A p \in AllPackets' : p.msg <= count
    BY <1>1 DEF OnceInv, Numbered
  <1>3. ASSUME NEW p \in AllPackets', NEW q \in AllPackets', p.msg = q.msg
        PROVE  SameOrder(p, q)
    <2>1. PICK x \in AllPackets : p.msg = x.msg /\ SameOrder(p, x)
      BY <1>1
    <2>2. PICK y \in AllPackets : q.msg = y.msg /\ SameOrder(q, y)
      BY <1>1
    <2>3. SameOrder(x, y)
      BY <1>3, <2>1, <2>2 DEF OnceInv, PacketsApart
    <2> QED
      BY <2>1, <2>2, <2>3 DEF SameOrder
  <1>4. \A p \in AllPackets' : p.mode = "topo" => p.to = Everyone
    BY <1>1 DEF OnceInv, PacketsApart, SameOrder
  <1> QED
    BY <1>2, <1>3, <1>4 DEF PacketsApart

\* Where no report is new, no unicast is told again.
LEMMA NoNewReports ==
  ASSUME TypeOK, OnceInv, [Next]_vars, ~GetDataFromNs3
  PROVE  AllReports' \subseteq AllReports /\ UnicastOnce'
  <1>1. AllReports' \subseteq AllReports
    BY ReportsAfter DEF TypeOK
  <1>2. ASSUME NEW s \in Stations, NEW i \in DOMAIN subs'[s],
               NEW d \in subs'[s][i].receivedData, NEW e \in subs'[s][i].receivedData,
               d.msg = e.msg, d.at = e.at, d.msg # Phantom, d.pkt.mode = "uni"
        PROVE  d = e
    <2>1. PICK j \in DOMAIN subs[s] : subs'[s][i].receivedData = subs[s][j].receivedData
      BY <1>2, ReportsInherited DEF TypeOK
    <2> QED
      BY <1>2, <2>1 DEF OnceInv, UnicastOnce
  <1> QED
    BY <1>1, <1>2 DEF UnicastOnce

\* The number of a message that is ordered is new everywhere.
LEMMA SendOnce ==
  ASSUME TypeInv, OnceInv, [Next]_vars,
         NEW s \in Stations, NEW app \in Apps, NEW to \in Apps, NEW mode \in Modes,
         NEW dests \in DestinationLists, SubsAppMessageSend(s, app, to, mode, dests)
  PROVE  OnceInv'
  <1>1. PICK list, ts, flag :
           /\ flag \in BOOLEAN
           /\ Schedule(s, mode, to, list, count', ts, flag)
           /\ \/ /\ mode = "uni" /\ ts = m_simStep + 1
                 /\ \A i \in DOMAIN list : list[i] \in Stations
              \/ /\ mode # "uni" /\ ts = m_simStep
                 /\ \A i \in DOMAIN list : list[i] = Everyone
    BY OrderedMessage
  <1> DEFINE packet(d) == FirstPacket(s, mode, to, d, count')
             row(d) == NewRow(s, mode, to, d, count', ts, flag)
  <1>2. /\ \A r \in rows' : r \in rows \/ \E i \in DOMAIN list : r = row(list[i])
        /\ \A p \in air' : p \in air \/ \E i \in DOMAIN list : p = packet(list[i])
        /\ \A p \in sending' : p \in sending \/ \E i \in DOMAIN list : p = packet(list[i])
    BY <1>1, ScheduleEffect
  <1>3. \A d : /\ packet(d).msg = count' /\ packet(d).mode = mode /\ packet(d).from = s
               /\ packet(d).app = to /\ packet(d).to = d /\ OrderedAt(packet(d)) = m_simStep
               /\ row(d).msg = count' /\ row(d).mode = mode /\ row(d).from = s
               /\ row(d).ts = ts
    BY DEF FirstPacket, NewRow, OrderedAt
  <1> HIDE DEF packet, row
  <1>4. TypeOK /\ count \in Int /\ count' = count + 1 /\ phase = "apps" /\ inbox' = inbox
    BY PacketTypes DEF TypeInv, SubsAppMessageSend, IsTurn
  <1>5. AllReports' \subseteq AllReports /\ UnicastOnce'
    BY <1>4, NoNewReports DEF GetDataFromNs3, Do
  <1>6. \A p \in AllPackets' : p \in AllPackets \/ \E i \in DOMAIN list : p = packet(list[i])
    BY <1>2, <1>4, <1>5 DEF AllPackets
  <1>7. /\ \A p \in AllPackets : p.msg \in Int /\ p.msg <= count
        /\ \A r \in rows : r.msg \in Int /\ r.msg <= count
        /\ \A d \in AllReports : d.msg \in Int /\ d.msg <= count
    BY <1>4, PacketTypes DEF OnceInv, Numbered, Told
  <1>8. Numbered'
    BY <1>2, <1>3, <1>4, <1>5, <1>6, <1>7 DEF Numbered
  <1>9. ASSUME NEW p \in AllPackets', NEW q \in AllPackets', p.msg = q.msg
        PROVE  SameOrder(p, q)
    <2>1. CASE p \in AllPackets /\ q \in AllPackets
      BY <1>9, <2>1 DEF OnceInv, PacketsApart
    <2>2. ASSUME NEW x \in AllPackets, NEW i
          PROVE  x.msg # packet(list[i]).msg
      BY <1>3, <1>4, <1>7
    <2>3. ASSUME NEW i, NEW j, p = packet(list[i]), q = packet(list[j])
          PROVE  SameOrder(p, q)
      BY <1>3, <2>3 DEF SameOrder
    <2> QED
      BY <1>6, <1>9, <2>1, <2>2, <2>3
  <1>10. ASSUME NEW p \in AllPackets', p.mode = "topo"
         PROVE  p.to = Everyone
    BY <1>1, <1>3, <1>6, <1>10 DEF OnceInv, PacketsApart
  <1>11. RowsApart'
    <2>1. ASSUME NEW r \in rows', NEW q \in rows', r.msg = q.msg
          PROVE  r.mode = q.mode /\ r.from = q.from /\ r.ts = q.ts
      <3>1. CASE r \in rows /\ q \in rows
        BY <2>1, <3>1 DEF OnceInv, RowsApart
      <3>2. \A x \in rows : \A i : x.msg # row(list[i]).msg
        BY <1>3, <1>4, <1>7
      <3>3. ASSUME NEW i, NEW j, r = row(list[i]), q = row(list[j])
            PROVE  r.mode = q.mode /\ r.from = q.from /\ r.ts = q.ts
        BY <1>3, <3>3
      <3> QED
        BY <1>2, <2>1, <3>1, <3>2, <3>3
    <2>2. ASSUME NEW d \in AllReports', NEW r \in rows', d.msg = r.msg
          PROVE  d.pkt.mode = r.mode
      <3>1. \A i : d.msg # row(list[i]).msg
        BY <1>3, <1>4, <1>5, <1>7
      <3> QED
        BY <1>2, <1>5, <2>2, <3>1 DEF OnceInv, RowsApart
    <2> QED
      BY <1>5, <2>1, <2>2 DEF OnceInv, RowsApart
  <1>12. ToldRows'
    <2> SUFFICES ASSUME NEW d \in AllReports', d.pkt.mode = "uni", NEW r \in rows', r.msg = d.msg
                 PROVE  r.to # d.at
      BY DEF ToldRows
    <2>1. \A i : d.msg # row(list[i]).msg
      BY <1>3, <1>4, <1>5, <1>7
    <2> QED
      BY <1>2, <1>5, <2>1 DEF OnceInv, ToldRows
  <1> QED
    BY <1>5, <1>8, <1>9, <1>10, <1>11, <1>12 DEF OnceInv, PacketsApart

LEMMA OnceInvariant ==
  ASSUME Late = FALSE
  PROVE  Spec => []OnceInv
  <1>1. Init => OnceInv
    BY DEF Init, OnceInv, Numbered, PacketsApart, RowsApart, ToldRows, UnicastOnce,
           AllPackets, AllReports, Reports
  <1>2. TypeInv /\ RowsDistinct /\ SendersPresent /\ HonestInv /\ OnceInv /\ [Next]_vars
          => OnceInv'
    <2> SUFFICES ASSUME TypeInv, RowsDistinct, SendersPresent, HonestInv, OnceInv, [Next]_vars
                 PROVE  OnceInv'
      OBVIOUS
    <2>0. TypeOK /\ Times
      BY DEF TypeInv, HonestInv
    <2>1. CASE \E s \in Stations, app, to \in Apps, mode \in Modes, dests \in DestinationLists :
                 SubsAppMessageSend(s, app, to, mode, dests)
      BY <2>1, SendOnce
    <2>2. CASE ~\E s \in Stations, app, to \in Apps, mode \in Modes, dests \in DestinationLists :
                 SubsAppMessageSend(s, app, to, mode, dests)
      <3>1. /\ rows' \subseteq rows /\ count' = count
            /\ \A p \in AllPackets' : \E q \in AllPackets : Continues(p, q)
        BY <2>0, <2>2, PacketsContinue
      <3>2. (\A p \in AllPackets' : p.msg <= count) /\ PacketsApart'
        BY <2>0, <3>1, PacketsOnce
      <3>3. /\ \A d \in AllReports' : d.msg <= count
            /\ RowsApart' /\ ToldRows' /\ UnicastOnce'
        <4>1. CASE GetDataFromNs3
          BY <2>0, <4>1, DataOnce
        <4>2. CASE ~GetDataFromNs3
          <5>1. AllReports' \subseteq AllReports /\ UnicastOnce'
            BY <2>0, <4>2, NoNewReports
          <5> QED
            BY <3>1, <5>1 DEF OnceInv, Numbered, RowsApart, ToldRows
        <4> QED
          BY <4>1, <4>2
      <3> QED
        BY <3>1, <3>2, <3>3 DEF OnceInv, Numbered
    <2> QED
      BY <2>1, <2>2
  <1> QED
    BY <1>1, <1>2, TypeInvariant, RowsStayDistinct, SendersStayPresent, HonestInvariant, PTL
       DEF Spec

\* No subscription is told of one unicast or topobroadcast at one station twice
\* (ReportedOnce), if packets are received in the step in which they are sent: the row of a
\* unicast is gone when it was told, and only the first packet of a topobroadcast meets
\* its row.
THEOREM MessagesAreToldOnce ==
  ASSUME Late = FALSE
  PROVE  Spec => []ReportedOnce
  <1>1. TypeInv /\ HonestInv /\ OnceInv => ReportedOnce
    <2> SUFFICES ASSUME TypeInv, HonestInv, OnceInv, NEW s \in Stations, NEW i \in DOMAIN subs[s],
                        NEW d \in subs[s][i].receivedData, NEW e \in subs[s][i].receivedData,
                        d.msg = e.msg, d.at = e.at, d.msg # Phantom, d.pkt.mode # "geo"
                 PROVE  d = e
      BY DEF ReportedOnce
    <2>1. d \in AllReports /\ e \in AllReports /\ d \in Told /\ e \in Told
      BY AllReportsAre, PacketTypes DEF TypeInv
    <2>2. e.pkt.mode = d.pkt.mode
      BY <2>1 DEF OnceInv, RowsApart
    <2>3. d.pkt \in Packet /\ e.pkt \in Packet /\ d.pkt.mode \in {"uni", "geo", "topo"}
      BY <2>1, AppMessagesAssumption DEF Told, Packet
    <2>4. CASE d.pkt.mode = "uni"
      BY <2>4 DEF OnceInv, UnicastOnce
    <2>5. CASE d.pkt.mode = "topo"
      <3>1. ~d.pkt.again /\ ~e.pkt.again /\ d.pkt.msg = e.pkt.msg
        BY <2>1, <2>2, <2>5 DEF HonestInv, TopoReports
      <3>2. d.pkt \in AllPackets /\ e.pkt \in AllPackets
        BY <2>1 DEF AllPackets
      <3>3. /\ d.pkt.to = e.pkt.to /\ d.pkt.from = e.pkt.from /\ d.pkt.app = e.pkt.app
            /\ d.pkt.ts = e.pkt.ts /\ d.pkt.again = e.pkt.again
        BY <2>2, <2>3, <2>5, <3>1, <3>2 DEF OnceInv, PacketsApart, SameOrder, OrderedAt, Packet
      <3>4. d.pkt = e.pkt
        BY <2>2, <2>3, <3>1, <3>3 DEF Packet
      <3> QED
        BY <2>1, <3>4 DEF Told
    <2> QED
      BY <2>3, <2>4, <2>5
  <1> QED
    BY <1>1, TypeInvariant, HonestInvariant, OnceInvariant, PTL

-----------------------------------------------------------------------------
(* What is heard is told.                                                  *)

\* The row in which packet p is told, under its own message.
IsToldBy(p, r, ts) ==
  /\ r.mode = p.mode /\ r.from = p.from /\ r.to = p.to
  /\ r.msg = p.msg /\ r.app = p.app /\ r.ts = ts

\* Packets that will be awaited have their row until GetDataFromNs3 looks for it, and no
\* other unicast of the same step comes from their sender.
RowsWait ==
  /\ \A p, q \in sending : p.mode = q.mode /\ p.from = q.from => p = q
  /\ \A p \in air : p.mode = "topo" => \E r \in rows : IsToldBy(p, r, p.ts)
  /\ \A p \in sending : p.mode = "uni" => \E r \in rows : IsToldBy(p, r, p.ts + 1)
  /\ phase = "data" => \A c \in inbox :
       /\ c.pkt.to \in {Everyone, c.at}
       /\ Awaited(c) /\ c.pkt.mode # "geo" => \E r \in rows : IsToldBy(c.pkt, r, c.pkt.ts)
       /\ Awaited(c) /\ c.pkt.mode = "uni" => \A d \in inbox :
            d.pkt.mode = "uni" /\ d.pkt.from = c.pkt.from /\ d.pkt.ts = c.pkt.ts
            => d.pkt = c.pkt

LEMMA WaitRadio ==
  ASSUME TypeOK, SendersPresent, Late = FALSE, Times, RowsWait, RunOneNs3TimeStep
  PROVE  RowsWait'
  <1>1. /\ phase = "ns3" /\ phase' = "data" /\ rows' = rows /\ air' = {} /\ sending' = {}
        /\ m_simStep \in Int
    BY Numbers DEF RunOneNs3TimeStep, Do, NextPhase
  <1>2. ASSUME NEW c \in inbox'
        PROVE  c.pkt \in air \/ \E q \in sending : c.pkt = Again(q)
    BY InboxPackets
  <1>3. ASSUME NEW c \in inbox'
        PROVE  c.pkt.to \in {Everyone, c.at}
    <2>1. PICK again \in SUBSET sending :
            inbox' \in SUBSET Copies(air \cup {Again(p) : p \in again})
      BY DEF RunOneNs3TimeStep, SendersPresent
    <2>2. PICK p \in air \cup {Again(q) : q \in again} : c \in [pkt : {p}, at : Hearers(p)]
      BY <2>1 DEF Copies
    <2>3. c.pkt = p /\ c.at \in Hearers(p)
      BY <2>2
    <2> QED
      BY <2>3 DEF Hearers
  <1>4. ASSUME NEW q \in sending
        PROVE  /\ Again(q).mode = q.mode /\ Again(q).from = q.from /\ Again(q).to = q.to
               /\ Again(q).msg = q.msg /\ Again(q).app = q.app /\ Again(q).ts = q.ts + 1
               /\ Again(q).again = TRUE /\ Again(q).ts = m_simStep
    <2>1. q \in Packet /\ q.ts = m_simStep - 1
      BY <1>1 DEF TypeOK, Times
    <2> QED
      BY <1>1, <2>1 DEF Again, Packet
  <1>5. \A p \in air : ~p.again /\ p.ts = m_simStep - 1
    BY <1>1 DEF Times
  <1>6. \A p \in air \cup sending : p.mode \in {"uni", "geo", "topo"}
    BY AppMessagesAssumption DEF TypeOK, Packet
  <1>7. ASSUME NEW c \in inbox', Awaited(c), c.pkt.mode # "geo"
        PROVE  \E r \in rows : IsToldBy(c.pkt, r, c.pkt.ts)
    <2>1. CASE c.pkt \in air
      BY <1>5, <1>6, <1>7, <2>1 DEF RowsWait, Awaited
    <2>2. ASSUME NEW q \in sending, c.pkt = Again(q)
          PROVE  \E r \in rows : IsToldBy(c.pkt, r, c.pkt.ts)
      <3>1. q.mode = "uni"
        BY <1>4, <1>7, <2>2 DEF Awaited
      <3>2. PICK r \in rows : IsToldBy(q, r, q.ts + 1)
        BY <3>1 DEF RowsWait
      <3> QED
        BY <1>4, <2>2, <3>2 DEF IsToldBy
    <2> QED
      BY <1>2, <2>1, <2>2
  <1>8. ASSUME NEW c \in inbox', NEW d \in inbox', Awaited(c), c.pkt.mode = "uni",
               d.pkt.mode = "uni", d.pkt.from = c.pkt.from, d.pkt.ts = c.pkt.ts
        PROVE  d.pkt = c.pkt
    <2>1. PICK q \in sending : c.pkt = Again(q)
      BY <1>2, <1>5, <1>8 DEF Awaited
    <2>2. d.pkt \notin air
      <3>1. d.pkt.ts = m_simStep
        BY <1>4, <1>8, <2>1
      <3>2. m_simStep # m_simStep - 1
        BY <1>1
      <3> QED
        BY <1>5, <3>1, <3>2
    <2>3. PICK x \in sending : d.pkt = Again(x)
      BY <1>2, <2>2
    <2>4. x.mode = "uni" /\ q.mode = "uni" /\ x.from = q.from
      BY <1>4, <1>8, <2>1, <2>3
    <2>5. x = q
      BY <2>4 DEF RowsWait
    <2> QED
      BY <2>1, <2>3, <2>5
  <1> QED
    BY <1>1, <1>3, <1>7, <1>8 DEF RowsWait, Awaited, IsToldBy

LEMMA WaitSend ==
  ASSUME TypeInv, Times, RowsWait,
         NEW s \in Stations, NEW app \in Apps, NEW to \in Apps, NEW mode \in Modes,
         NEW dests \in DestinationLists, SubsAppMessageSend(s, app, to, mode, dests)
  PROVE  RowsWait'
  <1>1. PICK list, ts, flag :
           /\ flag \in BOOLEAN
           /\ Schedule(s, mode, to, list, count', ts, flag)
           /\ \/ /\ mode = "uni" /\ ts = m_simStep + 1
                 /\ \A i \in DOMAIN list : list[i] \in Stations
              \/ /\ mode # "uni" /\ ts = m_simStep
                 /\ \A i \in DOMAIN list : list[i] = Everyone
    BY OrderedMessage
  <1> DEFINE packet(d) == FirstPacket(s, mode, to, d, count')
             row(d) == NewRow(s, mode, to, d, count', ts, flag)
  <1>2. /\ rows \subseteq rows'
        /\ \A p \in air' : p \in air \/ \E i \in DOMAIN list :
             p = packet(list[i]) /\ row(list[i]) \in rows'
        /\ \A p \in sending' : p \in sending \/ \E i \in DOMAIN list :
             p = packet(list[i]) /\ row(list[i]) \in rows'
        /\ sending' = sending \/ \E d : sending' = StartTransmitting(packet(d), sending)
    BY <1>1, ScheduleEffect
  <1>3. phase = "apps" /\ phase' = "apps"
    BY DEF SubsAppMessageSend, IsTurn
  <1>4. \A d : packet(d).mode = mode /\ packet(d).from = s /\ packet(d).ts = m_simStep
               /\ IsToldBy(packet(d), row(d), ts)
    BY DEF FirstPacket, NewRow, IsToldBy
  <1> HIDE DEF packet, row
  <1>5. ASSUME NEW p \in sending', NEW q \in sending', p.mode = q.mode, p.from = q.from
        PROVE  p = q
    BY <1>2, <1>4, <1>5 DEF RowsWait, StartTransmitting
  <1>6. ASSUME NEW p \in air', p.mode = "topo"
        PROVE  \E r \in rows' : IsToldBy(p, r, p.ts)
    BY <1>1, <1>2, <1>4, <1>6 DEF RowsWait
  <1>7. ASSUME NEW p \in sending', p.mode = "uni"
        PROVE  \E r \in rows' : IsToldBy(p, r, p.ts + 1)
    BY <1>1, <1>2, <1>4, <1>7 DEF RowsWait
  <1> QED
    BY <1>3, <1>5, <1>6, <1>7 DEF RowsWait, IsToldBy, Awaited

\* The clean-up leaves the rows of the packets that ns-3 is still to send.
LEMMA WaitCleanup ==
  ASSUME TypeOK, Times, RowsWait, Window >= 1, ScheduleV2xMessages
  PROVE  RowsWait'
  <1>1. /\ phase = "schedule" /\ phase' = "ns3" /\ air' = air /\ sending' = sending
        /\ rows' = {r \in rows : InWindow(r)}
        /\ m_simStep \in Int /\ Window \in Nat
    BY Numbers, AppMessagesAssumption DEF ScheduleV2xMessages, Do, NextPhase, radio
  <1>2. \A p \in air \cup sending : p.ts = m_simStep
    BY <1>1 DEF Times
  <1>3. \A r \in rows : r.ts \in {m_simStep, m_simStep + 1} => r \in rows'
    BY <1>1 DEF InWindow
  <1>4. ASSUME NEW p \in air, p.mode = "topo"
        PROVE  \E r \in rows' : IsToldBy(p, r, p.ts)
    BY <1>2, <1>3, <1>4 DEF RowsWait, IsToldBy
  <1>5. ASSUME NEW p \in sending, p.mode = "uni"
        PROVE  \E r \in rows' : IsToldBy(p, r, p.ts + 1)
    BY <1>2, <1>3, <1>5 DEF RowsWait, IsToldBy
  <1> QED
    BY <1>1, <1>4, <1>5 DEF RowsWait, IsToldBy

LEMMA WaitInvariant ==
  ASSUME Late = FALSE, Window >= 1
  PROVE  Spec => []RowsWait
  <1>1. Init => RowsWait
    BY DEF Init, RowsWait
  <1>2. TypeInv /\ SendersPresent /\ HonestInv /\ RowsWait /\ [Next]_vars => RowsWait'
    <2> SUFFICES ASSUME TypeInv, SendersPresent, HonestInv, RowsWait, [Next]_vars
                 PROVE  RowsWait'
      OBVIOUS
    <2>0. TypeOK /\ Times
      BY DEF TypeInv, HonestInv
    <2>1. CASE RunOneNs3TimeStep
      BY <2>0, <2>1, WaitRadio
    <2>2. CASE GetDataFromNs3
      BY <2>2 DEF GetDataFromNs3, SendersPresent, RowsWait, Do, NextPhase, radio
    <2>3. ASSUME NEW left, NEW last, RunOneSumoTimeStep(left, last)
          PROVE  RowsWait'
      BY <2>3 DEF RunOneSumoTimeStep, RowsWait, IsToldBy, Do, NextPhase, radio
    <2>4. ASSUME NEW s, NEW app, NEW what, SubsAppMessageReceive(s, app, what)
          PROVE  RowsWait'
      BY <2>4 DEF SubsAppMessageReceive, IsTurn, RowsWait, IsToldBy
    <2>5. ASSUME NEW s \in Stations, NEW app \in Apps, NEW to \in Apps, NEW mode \in Modes,
                 NEW dests \in DestinationLists, SubsAppMessageSend(s, app, to, mode, dests)
          PROVE  RowsWait'
      BY <2>0, <2>5, WaitSend
    <2>6. ASSUME NEW s, NEW kept, FinishTurn(s, kept)
          PROVE  RowsWait'
      BY <2>6 DEF FinishTurn, IsTurn, RowsWait, IsToldBy
    <2>7. CASE RunApplicationLogicReturns
      BY <2>7 DEF RunApplicationLogicReturns, RowsWait, IsToldBy, Do, NextPhase, radio
    <2>8. CASE ScheduleV2xMessages
      BY <2>0, <2>8, WaitCleanup
    <2>9. CASE UNCHANGED vars
      BY <2>9 DEF vars, RowsWait, IsToldBy, Awaited, radio
    <2> QED
      BY <2>1, <2>2, <2>3, <2>4, <2>5, <2>6, <2>7, <2>8, <2>9 DEF Next
  <1> QED
    BY <1>1, <1>2, TypeInvariant, SendersStayPresent, HonestInvariant, PTL DEF Spec

\* What GetDataFromNs3 tells, seen from a packet that is awaited.
LEMMA AwaitedIsTold ==
  ASSUME TypeOK, RowsDistinct, RowsWait, GetDataFromNs3, NEW c \in Received, Awaited(c),
         NEW s \in nodes, NEW i \in DOMAIN subs[s],
         \/ c.pkt.mode = "uni" /\ Accepts(subs[s][i], "uni", c.pkt.from, c.at)
         \/ c.pkt.mode = "topo" /\ ShownTo(c, s, i, c.pkt.app)
  PROVE  Report(c, c.pkt.msg) \in subs'[s][i].receivedData
  <1>1. PICK taken \in Takings, appType \in [Unscheduled -> Apps \cup {0}] :
          subs' = [t \in Stations |->
                     [j \in DOMAIN subs[t] |->
                        IF t \in nodes THEN WithReports(t, j, taken, appType)
                                       ELSE subs[t][j]]]
    BY DEF GetDataFromNs3
  <1>2. s \in Stations /\ subs[s][i] \in Subscription
    <2>1. s \in Stations
      BY AppMessagesAssumption DEF TypeOK, Stations
    <2>2. subs[s] \in Seq(Subscription)
      BY <2>1 DEF TypeOK
    <2> QED
      BY <2>1, <2>2
  <1>3. subs'[s][i] = WithReports(s, i, taken, appType)
    BY <1>1, <1>2
  <1> DEFINE new == UnicastReports(subs[s][i], taken) \cup BroadcastReports(s, i)
                      \cup PhantomReports(s, i, appType)
  <1>4. new \subseteq subs'[s][i].receivedData
    BY <1>2, <1>3 DEF WithReports, Subscription
  <1>5. phase = "data" /\ c \in inbox
    BY DEF GetDataFromNs3, Do, Received
  <1>6. PICK r \in rows : IsToldBy(c.pkt, r, c.pkt.ts)
    BY <1>5 DEF RowsWait
  <1>7. Matches(c, r) /\ r.msg = c.pkt.msg /\ r.from = c.pkt.from /\ r.app = c.pkt.app
    BY <1>5, <1>6 DEF Matches, IsToldBy, RowsWait
  <1>8. CASE c.pkt.mode = "uni" /\ Accepts(subs[s][i], "uni", c.pkt.from, c.at)
    <2>1. r \in UnicastRowsMatched
      BY <1>7, <1>8 DEF UnicastRowsMatched, ReceivedIn
    <2>2. taken[r] \in ReceivedIn("uni") /\ Matches(taken[r], r)
      BY <2>1 DEF Takings
    <2>3. taken[r] \in inbox /\ taken[r].pkt.mode = "uni" /\ taken[r].pkt.from = c.pkt.from
          /\ taken[r].pkt.ts = c.pkt.ts
      BY <1>7, <2>2 DEF ReceivedIn, Received, Matches
    <2>4. taken[r].pkt = c.pkt
      BY <1>5, <1>8, <2>3 DEF RowsWait
    <2>5. taken[r].at = c.at
      <3>1. r.to = c.pkt.to /\ r.to \in {Everyone, c.at} /\ r.to \in {Everyone, taken[r].at}
        BY <1>6, <1>7, <2>2 DEF IsToldBy, Matches
      <3>2. r.to # Everyone
        BY <1>6, <1>8 DEF RowsDistinct, IsToldBy
      <3> QED
        BY <3>1, <3>2
    <2>6. Report(taken[r], r.msg) \in UnicastReports(subs[s][i], taken)
      BY <1>7, <1>8, <2>1, <2>5 DEF UnicastReports, Takings
    <2> QED
      BY <1>4, <1>7, <2>4, <2>5, <2>6 DEF Report
  <1>9. CASE c.pkt.mode = "topo" /\ ShownTo(c, s, i, c.pkt.app)
    <2>1. c \in ReceivedIn("topo")
      BY <1>9 DEF ReceivedIn
    <2> DEFINE y == <<c, r>>
    <2>2. Report(c, r.msg) \in BroadcastReports(s, i)
      <3>1. y \in (ReceivedIn("geo") \cup ReceivedIn("topo")) \X rows
        BY <1>6, <2>1
      <3>2. y[1] = c /\ y[2] = r
        OBVIOUS
      <3>3. Matches(y[1], y[2]) /\ ShownTo(y[1], s, i, y[2].app)
        BY <1>7, <1>9, <3>2
      <3> HIDE DEF y
      <3>4. Report(y[1], y[2].msg) \in BroadcastReports(s, i)
        BY <3>1, <3>3 DEF BroadcastReports
      <3> QED
        BY <3>2, <3>4
    <2> QED
      BY <1>4, <1>7, <2>2
  <1> QED
    BY <1>8, <1>9

\* What is heard is told (HeardIsTold), if packets are received in the step in which they
\* are sent and m_scheduleMessageCleanUp is at least one step: the row of an awaited
\* unicast or topobroadcast is neither cleaned up nor taken by another packet.
THEOREM WhatIsHeardIsTold ==
  ASSUME Late = FALSE, Window >= 1
  PROVE  Spec => HeardIsTold
  <1> DEFINE AllTold ==
        phase = "data" =>
          \A c \in Received : Awaited(c) => \A s \in nodes : \A i \in DOMAIN subs[s] :
            (\/ c.pkt.mode = "uni" /\ Accepts(subs[s][i], "uni", c.pkt.from, c.at)
             \/ c.pkt.mode = "topo" /\ ShownTo(c, s, i, c.pkt.app))
            => Report(c, c.pkt.msg) \in subs'[s][i].receivedData
  <1>1. TypeInv /\ RowsDistinct /\ RowsWait /\ [Next]_vars => [AllTold]_vars
    <2> SUFFICES ASSUME TypeInv, RowsDistinct, RowsWait, Next, phase = "data"
                 PROVE  AllTold
      OBVIOUS
    <2>1. GetDataFromNs3
      BY DEF Next, Do, RunOneNs3TimeStep, RunOneSumoTimeStep, SubsAppMessageReceive,
             SubsAppMessageSend, FinishTurn, IsTurn, RunApplicationLogicReturns,
             ScheduleV2xMessages
    <2> QED
      BY <2>1, AwaitedIsTold DEF TypeInv
  <1>2. Spec => [][AllTold]_vars
    BY <1>1, TypeInvariant, RowsStayDistinct, WaitInvariant, PTL DEF Spec
  <1> QED
    BY <1>2 DEF HeardIsTold

=============================================================================
