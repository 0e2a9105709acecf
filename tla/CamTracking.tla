---------------------------- MODULE CamTracking ----------------------------
(***************************************************************************)
(* How CAMs are ordered, sent, received and matched: the CAM areas of the  *)
(* applications (iCS/src/ics/applications_manager/subs-set-cam-area.cpp),  *)
(* the phases of SyncManager that use them (sync-manager.cpp), the tables  *)
(* of wirelesscom_sim_message_tracker/V2X-message-manager.cpp, and the CAM *)
(* application of ns-3 with its tags and lists of received packets         *)
(* (ns-3.7/src/applications, inci-utils, inci).                            *)
(*                                                                         *)
(* The time of ns-3 is cut into slots, SlotsPerStep in each step of the    *)
(* iCS.  A station has one name in SUMO, the iCS and ns-3: its number, in  *)
(* the order in which the stations were created, which is their order in   *)
(* m_iTetrisNodeCollection.  It does not come back after it left.          *)
(* Commands succeed (module CoSim has the identifiers and the failures);   *)
(* every station has the WAVE technology and every CAM the same length.    *)
(***************************************************************************)
EXTENDS Integers, FiniteSets, Sequences, SequencesExt, FiniteSetsExt

CONSTANTS
  NumStations,     \* all stations; a vehicle enters at most once
  NumFixed,        \* those of them that are there, and active, from the start
  FixedInside,     \* the areas each of those is in
  Areas,           \* the CAM areas the applications may subscribe to
  Droppable,       \* those they may unsubscribe from
  Freq,            \* their frequencies, as GetFrequency returns them
  SlotsPerStep,
  Window,          \* m_scheduleMessageCleanUp
  Deliveries,      \* how a CAM may reach its receivers: "now", that is in the
                   \* step it is sent in, "late", or "split" over two steps
  MaxStep          \* bound: steps explored

ASSUME CamTrackingAssumption ==
  /\ NumStations \in Nat
  /\ NumFixed \in 0 .. NumStations
  /\ FixedInside \in [1 .. NumFixed -> SUBSET Areas]
  /\ IsFiniteSet(Areas)
  /\ Droppable \subseteq Areas
  /\ SlotsPerStep \in Nat \ {0}
  /\ Freq \in [Areas -> {f \in 1 .. SlotsPerStep : SlotsPerStep % f = 0}]
  /\ Window \in Nat
  /\ Deliveries \subseteq {"now", "late", "split"}
  /\ MaxStep \in Nat

VARIABLES
  m_simStep,
  phase,         \* what the loop does next
  nodes,         \* m_iTetrisNodeCollection
  created,       \* the number of stations created so far
  inside,        \* the areas each present station is in, by its position
  camAreas,      \* m_v2xCamAreaCollection, with the m_subscriptionCollection of
                 \* SyncManager that it is joined with
  wanted,        \* the areas in the m_subscriptionCollection of some node
  nodesInArea,   \* m_nodesInArea of each area
  general,       \* generalCamSubscriptions: the frequency of each entry
  rows,          \* ScheduledCamMessageTable
  stores,        \* what GetDataFromNs3 gave to storeMessage in this step
  events,        \* pending SendPacket events of ns-3
  running,       \* stations whose CAM application has m_running set
  tag,           \* m_previousTimeStep and m_stepSequenceNumber of each
  period,        \* slots between two CAMs of each
  inbox,         \* InciPacketList of each
  late,          \* CAMs that arrive in the next step
  sent,          \* history: the CAMs tagged with a step that is not over
  started        \* history: the step in which each application was started

apps == <<camAreas, wanted>>
world == <<nodes, created, inside>>
tables == <<nodesInArea, general, rows>>
sender == <<events, running, tag, period>>
radio == <<inbox, late, sent>>
vars == <<m_simStep, phase, world, apps, tables, stores, sender, radio, started>>

Stations == 1 .. NumStations
FixedStations == 1 .. NumFixed
StepStart == m_simStep * SlotsPerStep
StepEnd == StepStart + SlotsPerStep    \* ns-3 runs one step ahead
Never == -1

Init ==
  /\ m_simStep = 0
  /\ phase = "ns3"
  /\ nodes = FixedStations
  /\ created = NumFixed
  /\ inside = [s \in Stations |-> IF s \in FixedStations THEN FixedInside[s] ELSE {}]
  /\ camAreas = {}
  /\ wanted = {}
  /\ nodesInArea = [a \in Areas |-> {}]
  /\ general = [s \in {} |-> 0]
  /\ rows = {}
  /\ stores = {}
  /\ events = {}
  /\ running = {}
  /\ tag = [s \in Stations |-> [ts |-> 0, seq |-> 0]]
  /\ period = [s \in Stations |-> SlotsPerStep]
  /\ inbox = [s \in Stations |-> <<>>]
  /\ late = {}
  /\ sent = {}
  /\ started = [s \in Stations |-> Never]

-----------------------------------------------------------------------------
(* ns-3 runs its events up to the end of the step.                         *)

\* AddInciPacketTags: the time step, and a number that starts again in each.
NumberNothing(s, ts) == [ts |-> ts, seq |-> 0]    \* mutant of AddInciPacketTags
AddInciPacketTags(s, ts) ==
  IF ts > tag[s].ts THEN [ts |-> ts, seq |-> 0]
                    ELSE [ts |-> tag[s].ts, seq |-> tag[s].seq + 1]

\* The INCI packet a receiver hands to the iCS.  The slot, and whether a row
\* was waiting for it when it was sent, are history.
Row(c) == [from |-> c.from, ts |-> c.ts, seq |-> c.seq]

Cam(e) ==
  LET ts == e.slot \div SlotsPerStep
      row == [from |-> e.from, ts |-> ts, seq |-> AddInciPacketTags(e.from, ts).seq]
  IN [from |-> e.from, ts |-> ts, seq |-> row.seq, slot |-> e.slot,
      due |-> row \in rows]

\* A CAM goes one hop, to any of the active stations.  One that is sent in the
\* last slot may arrive after the end of the step.
Broadcast(c, now, after) ==
  /\ now \cap after = {}
  /\ now # {} => "now" \in Deliveries
  /\ after # {} => "late" \in Deliveries /\ c.slot = StepEnd - 1
  /\ now # {} /\ after # {} => "split" \in Deliveries
  /\ inbox' = [s \in Stations |-> IF s \in now THEN Append(inbox[s], c) ELSE inbox[s]]
  /\ late' = late \cup {[to |-> s, cam |-> c] : s \in after}
  /\ sent' = sent \cup {c}

ScheduleTx(e) ==
  IF e.from \in running
  THEN {[from |-> e.from, slot |-> e.slot + period[e.from], inSendEvent |-> TRUE]}
  ELSE {}

LateOnes == {l \in late : l.cam.slot < StepStart}

DeliverLate ==
  /\ phase = "ns3"
  /\ LateOnes # {}
  /\ inbox' = [s \in Stations |->
                 IF s \in nodes
                 THEN inbox[s] \o SetToSeq({l.cam : l \in {k \in LateOnes : k.to = s}})
                 ELSE inbox[s]]
  /\ late' = late \ LateOnes
  /\ UNCHANGED <<m_simStep, phase, world, apps, tables, stores, sender, sent, started>>

\* A station that left is deactivated in ns-3 at the end of that step, but its
\* CAM application is not stopped: it goes on without being heard.
SendPacket(e) ==
  /\ phase = "ns3"
  /\ LateOnes = {}
  /\ e \in events
  /\ e.slot < StepEnd
  /\ \A f \in events : e.slot <= f.slot
  /\ \E now, after \in SUBSET (nodes \ {e.from}) :
       /\ e.from \notin nodes => now = {} /\ after = {}
       /\ Broadcast(Cam(e), now, after)
  /\ tag' = [tag EXCEPT ![e.from] = AddInciPacketTags(e.from, e.slot \div SlotsPerStep)]
  /\ events' = (events \ {e}) \cup ScheduleTx(e)
  /\ UNCHANGED <<m_simStep, phase, world, apps, tables, stores, running, period, started>>

RunSimStepReturns ==
  /\ phase = "ns3"
  /\ LateOnes = {}
  /\ \A e \in events : e.slot >= StepEnd
  /\ phase' = "data"
  /\ UNCHANGED <<m_simStep, world, apps, tables, stores, sender, radio, started>>

-----------------------------------------------------------------------------
(* GetDataFromNs3: the packets of each station, last received first, are   *)
(* matched with the rows, and their receivers grouped by action ID.  A row *)
(* stands for its action ID too: createCAMpayload gave it a new one.       *)

GetReceivedMessages(s) == Reverse(inbox[s])

Received ==
  FlattenSeq([s \in Stations |->
    IF s \in nodes
    THEN [j \in DOMAIN inbox[s] |-> [to |-> s, cam |-> GetReceivedMessages(s)[j]]]
    ELSE <<>>])

\* The receptions in no order, and those of them that meet a row.
Heard == UNION {[to : {s}, cam : ToSet(inbox[s])] : s \in nodes}
Matched == {x \in Heard : Row(x.cam) \in rows}

\* An entry that is there already is marked as stored.  Whether a new one is
\* pushed depends on the last entry that was looked at, not on that one.
PushIfEmpty(table, x) ==    \* mutant of UpdateIdentifiersTable
  IF table = <<>> THEN <<[row |-> Row(x.cam), to |-> x.to, stored |-> FALSE]>>
                  ELSE table
UpdateIdentifiersTable(table, x) ==
  LET Same(i) == table[i].row = Row(x.cam) /\ table[i].to = x.to
      marked == [i \in DOMAIN table |->
                   [table[i] EXCEPT !.stored = @ \/ Same(i)]]
      exists == table # <<>> /\ Same(Len(table))
  IN IF exists THEN marked
     ELSE Append(marked, [row |-> Row(x.cam), to |-> x.to, stored |-> FALSE])

\* The table after the receptions of a list, one after the other.
TableOf(list) ==
  LET table[i \in 0 .. Len(list)] ==
        IF i = 0 THEN <<>>
        ELSE IF Row(list[i].cam) \in rows THEN UpdateIdentifiersTable(table[i - 1], list[i])
        ELSE table[i - 1]
  IN table[Len(list)]

IdentifiersStorageTable == TableOf(Received)

\* Entries marked as stored are erased when they are met; the first one that is
\* not groups all those of its action ID that are still there.
GroupReceivers(table) ==
  {[row |-> table[i].row, to |-> table[i].to] :
     i \in {j \in DOMAIN table :
              \E k \in 1 .. j : table[k].row = table[j].row /\ ~table[k].stored}}

RowsLeft == rows \ {Row(x.cam) : x \in Heard}

GetDataFromNs3 ==
  /\ phase = "data"
  /\ stores' = GroupReceivers(IdentifiersStorageTable)
  /\ rows' = RowsLeft
  /\ inbox' = [s \in Stations |-> IF s \in nodes THEN <<>> ELSE inbox[s]]
  /\ phase' = "sumo"
  /\ UNCHANGED <<m_simStep, world, apps, nodesInArea, general, sender, late, sent, started>>

-----------------------------------------------------------------------------
(* SUMO's step and the applications'.                                      *)

RemoveNowhere(left) == nodesInArea    \* mutant of RemoveNodesInTheArea
RemoveNodesInTheArea(left) ==
  [a \in Areas |-> IF a \in camAreas THEN nodesInArea[a] \ left ELSE nodesInArea[a]]

RunOneSumoTimeStep(left, last) ==
  /\ phase = "sumo"
  /\ nodes' = (nodes \ left) \cup (created + 1 .. last)
  /\ created' = last
  /\ nodesInArea' = RemoveNodesInTheArea(left)
  /\ \E where \in [nodes' \ FixedStations -> SUBSET Areas] :
       inside' = [s \in Stations |->
                    IF s \in FixedStations THEN inside[s]
                    ELSE IF s \in DOMAIN where THEN where[s] ELSE {}]
  /\ stores' = {}
  /\ phase' = "apps"
  /\ UNCHANGED <<m_simStep, apps, general, rows, sender, radio, started>>

\* A new subscription goes to three collections, in the node, in SyncManager and,
\* as an area, in the tracker; an application that drops one, which it may do as
\* soon as it has it, has it erased from that of the node only.
EraseFromNode(dropped, collection) == collection \ dropped

RunApplicationLogic(subscribed, dropped) ==
  /\ phase = "apps"
  /\ dropped \subseteq wanted \cup subscribed
  /\ camAreas' = camAreas \cup subscribed
  /\ wanted' = EraseFromNode(dropped, wanted \cup subscribed)
  /\ phase' = "schedule"
  /\ UNCHANGED <<m_simStep, world, tables, stores, sender, radio, started>>

-----------------------------------------------------------------------------
(* ScheduleV2xCamAreaMessages.                                             *)

AreasOf(s) == camAreas \cap inside[s]
IsNodeInAnyArea(s) == AreasOf(s) # {}
MaxFrequency(s) == Max({Freq[a] : a \in AreasOf(s)} \cup {0})
IsNodeInGeneral(s) == s \in DOMAIN general

\* checkNodeStatus and what is done for a node that just arrived or just left.
UpdatedNodesInArea ==
  [a \in Areas |->
     IF a \in camAreas
     THEN {s \in nodesInArea[a] : s \in nodes => a \in inside[s]}
            \cup {s \in nodes : a \in inside[s]}
     ELSE nodesInArea[a]]

StopOnChangeOnly ==    \* mutant of IdNodesToStop
  {s \in nodes : IsNodeInGeneral(s) /\ IsNodeInAnyArea(s) /\ MaxFrequency(s) # general[s]}
IdNodesToStop ==
  {s \in nodes : IsNodeInGeneral(s) /\
     (IsNodeInAnyArea(s) => MaxFrequency(s) # general[s])}

IdNodesToStart ==
  {s \in nodes : IsNodeInAnyArea(s) /\
     (IsNodeInGeneral(s) => MaxFrequency(s) # general[s])}

\* An entry of a station that left stays, with its frequency.
UpdatedGeneral ==
  LET out == {s \in nodes : ~IsNodeInAnyArea(s)}
  IN [s \in (DOMAIN general \ out) \cup IdNodesToStart |->
        IF s \in IdNodesToStart THEN MaxFrequency(s) ELSE general[s]]

MaxGeneralFrequency(g) == Max({g[s] : s \in DOMAIN g} \cup {0})

\* One row, and one payload, for each CAM of the next step.
RowsFromOne(g) ==    \* mutants of NewRows
  [from : DOMAIN g \cap nodes, ts : {m_simStep + 1}, seq : 1 .. MaxGeneralFrequency(g)]
RowsFromMinusOne(g) ==
  [from : DOMAIN g \cap nodes, ts : {m_simStep + 1}, seq : -1 .. MaxGeneralFrequency(g) - 2]
NewRows(g) ==
  [from : DOMAIN g \cap nodes, ts : {m_simStep + 1}, seq : 0 .. MaxGeneralFrequency(g) - 1]

OneStepShort(table) ==    \* mutant of RefreshScheduledCamMessageTable
  {r \in table : m_simStep < r.ts + Window - 1}
RefreshScheduledCamMessageTable(table) ==
  {r \in table : m_simStep < r.ts + Window}

\* StopTransmitting: the first event of a start is not kept in m_sendEvent, and
\* is not cancelled.
StopTransmitting(stop) ==
  {e \in events : ~(e.from \in stop /\ e.inSendEvent)}

\* StartTransmitting: the first CAM follows within a second.
WithinTwo == 2 * SlotsPerStep    \* mutant of FirstDelay
FirstDelay == SlotsPerStep

StartTransmitting(first) ==
  {[from |-> s, slot |-> first[s], inSendEvent |-> FALSE] : s \in DOMAIN first}

InitializeINCIvariables(now) == [ts |-> now \div SlotsPerStep, seq |-> -1]

\* Every start is commanded with the highest frequency of the entries.
SlotsBetweenCams(g) == SlotsPerStep \div MaxGeneralFrequency(g)

\* Simulator::Now() when a command comes is the time of the last event.
Now == {n \in StepStart .. StepEnd - 1 : \A c \in sent : c.slot <= n}

ScheduleV2xMessages ==
  /\ phase = "schedule"
  /\ nodesInArea' = UpdatedNodesInArea
  /\ general' = UpdatedGeneral
  /\ rows' = RefreshScheduledCamMessageTable(rows \cup NewRows(UpdatedGeneral))
  /\ running' = (running \ IdNodesToStop) \cup IdNodesToStart
  /\ \E now \in Now :
       /\ tag' = [s \in Stations |->
                    IF s \in IdNodesToStart THEN InitializeINCIvariables(now) ELSE tag[s]]
       /\ \E first \in [IdNodesToStart -> now .. now + FirstDelay] :
            events' = StopTransmitting(IdNodesToStop) \cup StartTransmitting(first)
  /\ period' = [s \in Stations |->
                  IF s \in IdNodesToStart THEN SlotsBetweenCams(UpdatedGeneral) ELSE period[s]]
  /\ started' = [s \in Stations |-> IF s \in IdNodesToStart THEN m_simStep ELSE started[s]]
  /\ sent' = {c \in sent : c.ts >= m_simStep}
  /\ m_simStep' = m_simStep + 1
  /\ phase' = "ns3"
  /\ UNCHANGED <<world, apps, stores, inbox, late>>

Next ==
  \/ DeliverLate
  \/ \E e \in events : SendPacket(e)
  \/ RunSimStepReturns
  \/ GetDataFromNs3
  \/ \E left \in SUBSET (nodes \ FixedStations), last \in created .. NumStations :
       RunOneSumoTimeStep(left, last)
  \/ \E subscribed \in SUBSET (Areas \ camAreas), dropped \in SUBSET Droppable :
       RunApplicationLogic(subscribed, dropped)
  \/ m_simStep < MaxStep /\ ScheduleV2xMessages

Spec == Init /\ [][Next]_vars

-----------------------------------------------------------------------------
(* Properties.                                                             *)

CamRow == [from : Stations, ts : Nat, seq : Nat]
CamPacket == [from : Stations, ts : Nat, seq : Int, slot : Nat, due : BOOLEAN]

\* Type invariant of the CAM pipeline.
TypeOK ==
  /\ m_simStep \in Nat
  /\ phase \in {"ns3", "data", "sumo", "apps", "schedule"}
  /\ nodes \subseteq Stations
  /\ created \in 0 .. NumStations
  /\ inside \in [Stations -> SUBSET Areas]
  /\ camAreas \subseteq Areas
  /\ wanted \subseteq Areas
  /\ nodesInArea \in [Areas -> SUBSET Stations]
  /\ DOMAIN general \subseteq Stations
  /\ \A s \in DOMAIN general : general[s] \in Nat
  /\ rows \subseteq CamRow
  /\ stores \subseteq [row : CamRow, to : Stations]
  /\ events \subseteq [from : Stations, slot : Nat, inSendEvent : BOOLEAN]
  /\ running \subseteq Stations
  /\ tag \in [Stations -> [ts : Nat, seq : Int]]
  /\ period \in [Stations -> Nat]
  /\ inbox \in [Stations -> Seq(CamPacket)]
  /\ late \subseteq [to : Stations, cam : CamPacket]
  /\ sent \subseteq CamPacket
  /\ started \in [Stations -> Int]

\* The vectors of nodes inside an area hold no pointer to a vehicle that left,
\* which the loop has deleted, in whatever step it left and the area came.
NodesInAreaPresent == \A a \in Areas : nodesInArea[a] \subseteq nodes

\* When ns-3 is given a step, the stations with a CAM to send are those of the
\* present ones that are inside an area, whichever areas they entered or left,
\* and whichever came, in the steps before.
SendingIffInside ==
  phase = "ns3" =>
    {s \in nodes : \E e \in events : e.from = s}
      = {s \in nodes : IsNodeInAnyArea(s)}

\* A station has at most one chain of CAMs: the event that StopTransmitting
\* cannot cancel is over before a new start can come.
OneChain == \A e, f \in events : e.from = f.from => e = f

\* Two CAMs of a station never carry the same time step and number, so a row
\* stands for one of them.
TagsUnique == \A c, d \in sent : Row(c) = Row(d) => c = d

CamsOf(s) == {Row(c) : c \in {d \in sent : d.from = s /\ d.ts = m_simStep}}
RowsOf(s) == {r \in rows : r.from = s /\ r.ts = m_simStep}
SendingSince(s, step) == IsNodeInGeneral(s) /\ started[s] \in 0 .. step

\* "Stores one Action ID per message in the timestep (i.e. frequency)"
\* (sync-manager.cpp:1830): a station whose CAM application was started before
\* the step sends no CAM without a row.
CamHasRow ==
  phase = "data" =>
    \A s \in nodes : SendingSince(s, m_simStep - 1) => CamsOf(s) \subseteq RowsOf(s)

\* The same in both directions: from its second whole step on the station also
\* sends a CAM for every row, so no payload is created in vain.
OneRowPerCam ==
  /\ CamHasRow
  /\ phase = "data" =>
       \A s \in nodes : SendingSince(s, m_simStep - 2) => RowsOf(s) \subseteq CamsOf(s)

\* A CAM that was sent with a row waiting for it still finds that row when it is
\* received, in the same step or in the next one ("marks as received but more
\* nodes could receive it", sync-manager.cpp:1276).
RowOnArrival ==
  phase = "data" => \A x \in Heard : x.cam.due => Row(x.cam) \in rows

\* Every reception of a CAM with a row, and nothing else, is given to the
\* facilities, with its own receiver and action ID.
ReceptionsStored ==
  [][phase = "data" =>
       stores' = {[row |-> Row(x.cam), to |-> x.to] : x \in Matched}]_vars

\* "Collection of all current subscriptions" (sync-manager.h:426): a station sends
\* only inside areas that some application is still subscribed to.
OnlyWantedAreas ==
  phase = "ns3" => \A s \in nodes \cap running : wanted \cap inside[s] # {}

=============================================================================
