---------------------------- MODULE AppMessages ----------------------------
(***************************************************************************)
(* Application messages: an application asks for a message to be sent      *)
(* (iCS/src/ics/applications_manager/subs-app-message-send.cpp), the loop  *)
(* writes a row for it and commands ns-3 (sync-manager.cpp), ns-3 sends it *)
(* twice (ns-3.7/src/applications/C2C-IP, iTETRIS-Application), the        *)
(* packets received are matched with the rows, and the application that    *)
(* subscribed to them is informed (subs-app-message-receive.cpp).          *)
(*                                                                         *)
(* SubsAppMessageSend always orders one message per second, regenerated    *)
(* for one second, so the sequence number of every row and every tag is 0. *)
(* Every station has the WAVE technology only and its messages name it as  *)
(* their source; commands succeed and the rules of the facilities reject   *)
(* no receiver (modules CoSim and Ldm have those).                         *)
(***************************************************************************)
EXTENDS Integers, FiniteSets, Sequences, SequencesExt, FiniteSetsExt

CONSTANTS
  NumStations,   \* all stations, numbered in the order they are created
  NumFixed,      \* those of them that are there from the start, and stay
  Apps,          \* the applications, installed in every station
  Modes,         \* the communication modes they use
  ReceiveSubs,   \* what they subscribe to: mode, receivers and senders listed
  MaxDests,      \* the length of a list of destinations
  Window,        \* m_scheduleMessageCleanUp
  Lossy,         \* whether the radio may lose packets
  Late,          \* whether a packet may arrive in the step after
  MaxMessages,   \* bound: messages
  MaxSubs,       \* bound: subscriptions a station has at a time
  MaxStep        \* bound: steps explored

ASSUME AppMessagesAssumption ==
  /\ NumStations \in Nat
  /\ NumFixed \in 0 .. NumStations
  /\ Apps \subseteq Nat \ {0}
  /\ Modes \subseteq {"uni", "geo", "topo"}
  /\ ReceiveSubs \subseteq [mode : Modes, dest : SUBSET (1 .. NumStations),
                            source : SUBSET (1 .. NumStations)]
  /\ MaxDests \in Nat
  /\ Window \in Nat
  /\ Lossy \in BOOLEAN /\ Late \in BOOLEAN
  /\ MaxMessages \in Nat /\ MaxSubs \in Nat /\ MaxStep \in Nat

VARIABLES
  m_simStep,
  phase,     \* what the loop does next
  status,    \* of the run
  nodes,     \* m_iTetrisNodeCollection
  created,   \* the number of stations created so far
  turn,      \* the nodes RunApplicationLogic is done with
  subs,      \* m_subscriptionCollection of each station
  rows,      \* the three tables of scheduled messages, one for each mode
  count,     \* the number of messages ordered: the next one has a new number
  air,       \* first packets of messages, sent when they were ordered
  sending,   \* m_sendEventC2C of the application of each mode at each station
  late,      \* receptions that come in the next step
  inbox      \* received packets of the stations

world == <<nodes, created>>
radio == <<air, sending, late>>
vars == <<m_simStep, phase, status, world, turn, subs, rows, count, radio, inbox>>

Stations == 1 .. NumStations
FixedStations == 1 .. NumFixed
Everyone == 0    \* the destination of a broadcast
Phantom == 0     \* the value of an appMessageId that was never assigned

Init ==
  /\ m_simStep = 0
  /\ phase = "ns3"
  /\ status = "running"
  /\ nodes = FixedStations
  /\ created = NumFixed
  /\ turn = {}
  /\ subs = [s \in Stations |-> <<>>]
  /\ rows = {}
  /\ count = 0
  /\ air = {}
  /\ sending = {}
  /\ late = {}
  /\ inbox = {}

\* The phases of SyncManager::Run that matter here.
LeaveFirst(p) ==    \* mutant of NextPhase
  CASE p = "ns3" -> "sumo" [] p = "sumo" -> "data" [] p = "data" -> "apps"
    [] p = "apps" -> "schedule" [] OTHER -> "ns3"
NextPhase(p) ==
  CASE p = "ns3" -> "data" [] p = "data" -> "sumo" [] p = "sumo" -> "apps"
    [] p = "apps" -> "schedule" [] OTHER -> "ns3"

Do(p) == phase = p /\ status = "running" /\ phase' = NextPhase(p)

-----------------------------------------------------------------------------
(* ns-3.  Simulator::Now() when a message is ordered is in the current     *)
(* step, and so is the tag of its first packet; the second packet follows  *)
(* a second later, in the next step, unless another message of that mode   *)
(* is ordered before.                                                      *)

\* StartTransmitting sends at once, and cancels the second packet of the last
\* message.
StartTransmitting(p, pending) ==
  {q \in pending : q.from # p.from \/ q.mode # p.mode} \cup {p}

\* SendPacketC2C: the time step of the tag is the next one.
Again(p) == [p EXCEPT !.ts = @ + 1, !.again = TRUE]

\* The destination of a unicast, and anyone the hops of a broadcast reach.
Hearers(p) == IF p.to = Everyone THEN nodes \ {p.from} ELSE nodes \cap {p.to}

Copies(packets) == UNION {[pkt : {p}, at : Hearers(p)] : p \in packets}

\* The second packet is sent if the time since the first, a difference of two
\* doubles, is at most one second: rounding decides.
RunOneNs3TimeStep ==
  /\ Do("ns3")
  /\ \E again \in SUBSET sending :
       LET packets == air \cup {Again(p) : p \in again} IN
       \E heard \in SUBSET Copies(packets) : \E now \in SUBSET heard :
         /\ Lossy \/ (again = sending /\ heard = Copies(packets))
         /\ Late \/ now = heard
         /\ inbox' = now \cup {c \in late : c.at \in nodes}
         /\ late' = heard \ now
  /\ air' = {}
  /\ sending' = {}
  /\ UNCHANGED <<m_simStep, status, world, turn, subs, rows, count>>

-----------------------------------------------------------------------------
(* GetDataFromNs3.                                                         *)

\* CompareUnicastRows, CompareGeobroadcastRows and CompareTopobroadcastRows.
AnyStep(c, r) ==    \* mutant of Matches
  /\ r.mode = c.pkt.mode
  /\ r.from = c.pkt.from
  /\ r.to \in {Everyone, c.at}
Matches(c, r) ==
  /\ r.mode = c.pkt.mode
  /\ r.from = c.pkt.from
  /\ r.ts = c.pkt.ts
  /\ r.to \in {Everyone, c.at}

Received == {c \in inbox : c.at \in nodes}
ReceivedIn(mode) == {c \in Received : c.pkt.mode = mode}
RowsOf(c) == {r \in rows : Matches(c, r)}

\* ProcessReceivedAppMessage; for a broadcast only its first two tests.
Accepts(sub, mode, from, at) ==
  /\ sub.kind = "receive"
  /\ sub.mode = mode
  /\ sub.dest = {} \/ at \in sub.dest
  /\ mode = "uni" => sub.source = {} \/ from \in sub.source

Report(c, msg) == [msg |-> msg, at |-> c.at, pkt |-> c.pkt]

\* A unicast row is taken by the first packet that matches it, in the order of the
\* inbox; that unicast is shown to every subscription of every station.
UnicastRowsMatched == {r \in rows : \E c \in ReceivedIn("uni") : Matches(c, r)}
Takings ==
  {taken \in [UnicastRowsMatched -> ReceivedIn("uni")] :
     \A r \in UnicastRowsMatched : Matches(taken[r], r)}

UnicastReports(sub, taken) ==
  {Report(taken[r], r.msg) : r \in
     {q \in DOMAIN taken : Accepts(sub, "uni", q.from, taken[q].at)}}

\* ProcessAppMessages: a broadcast is shown to the first subscription of that
\* application its receiver has, of whatever kind.
FirstOfApp(s, app) == Min({i \in DOMAIN subs[s] : subs[s][i].app = app})
IsShown(s, i, app) ==
  /\ \E j \in DOMAIN subs[s] : subs[s][j].app = app
  /\ i = FirstOfApp(s, app)

ShownTo(c, s, i, app) ==
  /\ c.at = s
  /\ IsShown(s, i, app)
  /\ Accepts(subs[s][i], c.pkt.mode, c.pkt.from, c.at)

BroadcastReports(s, i) ==
  {Report(x[1], x[2].msg) : x \in
     {y \in (ReceivedIn("geo") \cup ReceivedIn("topo")) \X rows :
        Matches(y[1], y[2]) /\ ShownTo(y[1], s, i, y[2].app)}}

\* ProcessGeobroadcastMessages without a matching row, in a table that is not
\* empty, goes on with an appType and a messageId it never assigned.
Unscheduled ==
  IF \E r \in rows : r.mode = "geo"
  THEN {c \in ReceivedIn("geo") : RowsOf(c) = {}}
  ELSE {}

PhantomReports(s, i, appType) ==
  {Report(c, Phantom) : c \in {d \in Unscheduled : ShownTo(d, s, i, appType[d])}}

WithReports(s, i, taken, appType) ==
  LET new == UnicastReports(subs[s][i], taken) \cup BroadcastReports(s, i)
               \cup PhantomReports(s, i, appType)
  IN [subs[s][i] EXCEPT !.receivedData = @ \cup new,
                        !.m_appMsgReceived = @ \/ new # {}]

\* A unicast row is erased when it is matched, a geobroadcast row at the end when
\* its flag is set and any geobroadcast came, a topobroadcast row by time only.
KeepUnicast ==    \* mutant of RowsLeft
  {r \in rows : r.mode = "geo" => ReceivedIn("geo") = {}
                  \/ (~r.received /\ ~\E c \in Received : Matches(c, r))}
RowsLeft ==
  {r \in rows :
     /\ r.mode = "uni" => ~\E c \in Received : Matches(c, r)
     /\ r.mode = "geo" => ReceivedIn("geo") = {}
                            \/ (~r.received /\ ~\E c \in Received : Matches(c, r))}

\* A packet whose sender has left ends the run, as a unicast, when there is any
\* subscription to show it to; as a broadcast it is looked up by GetNodeByNs3Id,
\* which then returns no value at all.
SenderLeft(mode) == {c \in ReceivedIn(mode) : c.pkt.from \notin nodes}
SomeoneReceives == \E s \in nodes : \E i \in DOMAIN subs[s] : subs[s][i].kind = "receive"
FailsOnUnicast == SomeoneReceives /\ \E c \in SenderLeft("uni") : RowsOf(c) # {}
NoReturnValue ==
  \/ SenderLeft("geo") # {}
  \/ \E c \in SenderLeft("topo") : RowsOf(c) # {}

GetDataFromNs3 ==
  /\ Do("data")
  /\ \E taken \in Takings, appType \in [Unscheduled -> Apps \cup {0}] :
       subs' = [s \in Stations |->
                  [i \in DOMAIN subs[s] |->
                     IF s \in nodes THEN WithReports(s, i, taken, appType) ELSE subs[s][i]]]
  /\ rows' = RowsLeft
  /\ inbox' = {}
  /\ status' \in {st \in {"running", "failed", "crashed"} :
                    /\ st = "running" => ~FailsOnUnicast
                    /\ st = "failed" => FailsOnUnicast \/ NoReturnValue
                    /\ st = "crashed" => NoReturnValue}
  /\ UNCHANGED <<m_simStep, world, turn, count, radio>>

-----------------------------------------------------------------------------
(* SUMO's step: vehicles leave, with their subscriptions, and enter.       *)

RunOneSumoTimeStep(left, last) ==
  /\ Do("sumo")
  /\ nodes' = (nodes \ left) \cup (created + 1 .. last)
  /\ created' = last
  /\ subs' = [s \in Stations |-> IF s \in left THEN <<>> ELSE subs[s]]
  /\ UNCHANGED <<m_simStep, status, turn, rows, count, radio, inbox>>

-----------------------------------------------------------------------------
(* RunApplicationLogic: node after node, in the order of their creation.   *)

IsTurn(s) ==
  /\ phase = "apps" /\ status = "running"
  /\ s \in nodes \ turn
  /\ \A n \in nodes \ turn : s <= n
  /\ UNCHANGED <<m_simStep, phase, status, world, late, inbox>>

Subscribed(s, sub) ==
  /\ Len(subs[s]) < MaxSubs
  /\ subs' = [subs EXCEPT ![s] = Append(@, sub)]

SubsAppMessageReceive(s, app, what) ==
  /\ IsTurn(s)
  /\ Subscribed(s, [kind |-> "receive", app |-> app, mode |-> what.mode,
                    dest |-> what.dest, source |-> what.source,
                    receivedData |-> {}, m_appMsgReceived |-> FALSE])
  /\ UNCHANGED <<turn, rows, count, air, sending>>

\* A row of the same sender, destination, time step and sequence number.
NeverScheduled(mode, s, to, ts) == FALSE    \* mutant of AlreadyScheduled
AlreadyScheduled(mode, s, to, ts) ==
  \E r \in rows : r.mode = mode /\ r.from = s /\ r.to = to /\ r.ts = ts

\* The list is followed up to the first station that has left.
Reachable(dests) ==
  {i \in DOMAIN dests : \A j \in 1 .. i : dests[j] \in nodes \cup {Everyone}}

\* A row for each destination of the list, and a start in ns-3.  A message that is
\* already scheduled is not sent, and that is a success too.  Each start
\* cancels what the one before it left to send, so the last one stands.
Schedule(s, mode, app, dests, msg, ts, flag) ==
  LET new == {i \in Reachable(dests) :
                /\ ~AlreadyScheduled(mode, s, dests[i], ts)
                /\ \A j \in 1 .. i - 1 : dests[j] # dests[i]}
      packet(d) == [mode |-> mode, from |-> s, to |-> d, ts |-> m_simStep,
                    msg |-> msg, app |-> app, again |-> FALSE]
  IN /\ rows' = rows \cup {[mode |-> mode, from |-> s, to |-> dests[i], ts |-> ts,
                            msg |-> msg, app |-> app, received |-> flag] : i \in new}
     /\ air' = air \cup {packet(dests[i]) : i \in new}
     /\ \/ new = {} /\ sending' = sending
        \/ \E last \in new :
             /\ \A i \in new : i <= last
             /\ sending' = StartTransmitting(packet(dests[last]), sending)

\* Unicasts are awaited with the tag of their second packet.
ScheduleV2xUnicastMessages(s, app, dests, msg) ==
  Schedule(s, "uni", app, dests, msg, m_simStep + 1, FALSE)

\* The flag "received" of a new row is not assigned.
ScheduleV2xGeobroadcastMessages(s, app, msg) ==
  \E flag \in BOOLEAN : Schedule(s, "geo", app, <<Everyone>>, msg, m_simStep, flag)

ScheduleV2xTopobroadcastMessages(s, app, msg) ==
  Schedule(s, "topo", app, <<Everyone>>, msg, m_simStep, FALSE)

\* The constructor sends the message, which names the application it is for; the
\* subscription stays in the collection.
SubsAppMessageSend(s, app, to, mode, dests) ==
  /\ IsTurn(s)
  /\ count < MaxMessages
  /\ s \notin ToSet(dests)
  /\ Subscribed(s, [kind |-> "send", app |-> app, mode |-> mode, dest |-> {},
                    source |-> {}, receivedData |-> {}, m_appMsgReceived |-> FALSE])
  /\ count' = count + 1
  /\ \/ /\ mode = "uni"
        /\ ScheduleV2xUnicastMessages(s, to, dests, count')
     \/ /\ mode = "geo" /\ dests = <<>>
        /\ ScheduleV2xGeobroadcastMessages(s, to, count')
     \/ /\ mode = "topo" /\ dests = <<>>
        /\ ScheduleV2xTopobroadcastMessages(s, to, count')
  /\ UNCHANGED turn

\* The places in S, in their order.
InOrder(S) ==
  {f \in [1 .. Cardinality(S) -> S] : \A i, j \in DOMAIN f : i < j => f[i] < f[j]}

\* DropSubscriptions, and ForwardSubscribedDataToApplication with InformApp, which
\* sends all of receivedData when the flag is set, and never empties it.
FinishTurn(s, kept) ==
  /\ IsTurn(s)
  /\ \E place \in InOrder(kept) :
       subs' = [subs EXCEPT ![s] =
         [i \in DOMAIN place |-> [@[place[i]] EXCEPT !.m_appMsgReceived = FALSE]]]
  /\ turn' = turn \cup {s}
  /\ UNCHANGED <<rows, count, air, sending>>

SameTurns ==    \* mutant of RunApplicationLogicReturns
  /\ Do("apps")
  /\ nodes \subseteq turn
  /\ UNCHANGED <<m_simStep, status, world, turn, subs, rows, count, radio, inbox>>
RunApplicationLogicReturns ==
  /\ Do("apps")
  /\ nodes \subseteq turn
  /\ turn' = {}
  /\ UNCHANGED <<m_simStep, status, world, subs, rows, count, radio, inbox>>

-----------------------------------------------------------------------------
(* ScheduleV2xMessages: the rows that are too old are erased.              *)

NoWindow(r) == m_simStep < r.ts    \* mutant of InWindow
InWindow(r) == m_simStep < r.ts + Window

ScheduleV2xMessages ==
  /\ Do("schedule")
  /\ m_simStep < MaxStep
  /\ rows' = {r \in rows : InWindow(r)}
  /\ m_simStep' = m_simStep + 1
  /\ UNCHANGED <<status, world, turn, subs, count, radio, inbox>>

DestinationLists == SeqOf(Stations, MaxDests)

Next ==
  \/ RunOneNs3TimeStep
  \/ GetDataFromNs3
  \/ \E left \in SUBSET (nodes \ FixedStations), last \in created .. NumStations :
       RunOneSumoTimeStep(left, last)
  \/ \E s \in Stations, app \in Apps :
       \/ \E what \in ReceiveSubs : SubsAppMessageReceive(s, app, what)
       \/ \E to \in Apps, mode \in Modes, dests \in DestinationLists :
            SubsAppMessageSend(s, app, to, mode, dests)
  \/ \E s \in Stations : \E kept \in SUBSET DOMAIN subs[s] : FinishTurn(s, kept)
  \/ RunApplicationLogicReturns
  \/ ScheduleV2xMessages

Spec == Init /\ [][Next]_vars

-----------------------------------------------------------------------------
(* Properties.                                                             *)

Packet == [mode : Modes, from : Stations, to : Stations \cup {Everyone},
           ts : 0 .. MaxStep + 1, msg : 1 .. MaxMessages, app : Apps, again : BOOLEAN]
Copy == [pkt : Packet, at : Stations]
Row == [mode : Modes, from : Stations, to : Stations \cup {Everyone},
        ts : 0 .. MaxStep + 1, msg : 1 .. MaxMessages, app : Apps, received : BOOLEAN]

Told == [msg : 0 .. MaxMessages, at : Stations, pkt : Packet]
Subscription == [kind : {"send", "receive"}, app : Apps, mode : Modes,
                 dest : SUBSET Stations, source : SUBSET Stations,
                 receivedData : SUBSET Told, m_appMsgReceived : BOOLEAN]

\* The type invariant.
TypeOK ==
  /\ m_simStep \in 0 .. MaxStep
  /\ phase \in {"ns3", "data", "sumo", "apps", "schedule"}
  /\ status \in {"running", "failed", "crashed"}
  /\ nodes \subseteq 1 .. created /\ created \in 0 .. NumStations
  /\ turn \subseteq nodes
  /\ count \in 0 .. MaxMessages
  /\ rows \subseteq Row
  /\ air \cup sending \subseteq Packet
  /\ late \cup inbox \subseteq Copy
  /\ subs \in [Stations -> Seq(Subscription)]

\* A received packet never matches two rows.  All three loops of the matching go on
\* after a match, so one reception would be stored, and told, as two messages, the
\* later of which overwrites the messageId of a geobroadcast.
OneRowPerPacket == \A c \in Received : Cardinality(RowsOf(c)) <= 1

\* No message makes the run fail: since ns-3 is asked for the packets of a step before
\* vehicles leave, the sender of a packet is still a node when its message is
\* shown to a subscription or it is looked up by GetNodeByNs3Id.
RunSurvives == status = "running"

Reports(s) == UNION {subs[s][i].receivedData : i \in DOMAIN subs[s]}

\* A topobroadcast is told as the message that was sent: the repeat of a message,
\* under the tag of the next step, does not meet the row of the next message
\* of that sender, although rows stay in the table after they are matched.
TopoHonest ==
  \A s \in Stations : \A d \in Reports(s) : d.pkt.mode = "topo" => d.msg = d.pkt.msg

\* ns-3 sends every message twice and receivedData is a list that grows: no
\* subscription is told of one unicast or topobroadcast at one station twice.
ReportedOnce ==
  \A s \in Stations : \A i \in DOMAIN subs[s] : \A d, e \in subs[s][i].receivedData :
    d.msg = e.msg /\ d.at = e.at /\ d.msg # Phantom /\ d.pkt.mode # "geo" => d = e

\* The packet that the row of its message waits for.
Awaited(c) == c.pkt.again = (c.pkt.mode = "uni")

\* What is heard is told: every awaited unicast or topobroadcast that a station
\* receives is in the data of the subscriptions that are to have it when
\* GetDataFromNs3 returns, under its own message.  No clean-up, and no other
\* packet, has taken its row.
HeardIsTold ==
  [][phase = "data" =>
       \A c \in Received : Awaited(c) => \A s \in nodes : \A i \in DOMAIN subs[s] :
         (\/ c.pkt.mode = "uni" /\ Accepts(subs[s][i], "uni", c.pkt.from, c.at)
          \/ c.pkt.mode = "topo" /\ ShownTo(c, s, i, c.pkt.app))
         => Report(c, c.pkt.msg) \in subs'[s][i].receivedData]_vars

\* ProcessGeobroadcastMessages says "Check if the message was scheduled" (a geobroadcast
\* without a row is then told to no application).
NoPhantom == \A s \in Stations : \A d \in Reports(s) : d.msg # Phantom

\* A list of destinations means, says SubsAppMessageSend, "each with a single UNICAST
\* message": the second packet of each of them is still to be sent, if one is.
EachDestinationServed ==
  phase = "schedule" => \A r \in rows : r.mode = "uni" /\ r.ts = m_simStep + 1 =>
    \E p \in sending : p.from = r.from /\ p.to = r.to /\ p.msg = r.msg

\* A unicast is told as the message that was sent.
UnicastHonest ==
  \A s \in Stations : \A d \in Reports(s) : d.pkt.mode = "uni" => d.msg = d.pkt.msg

=============================================================================
