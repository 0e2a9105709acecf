# A TLA+ model of the iTETRIS Control System (iCS) and its C2C stack

iTETRIS couples a traffic simulator (SUMO), a network simulator (ns-3, with the
iTETRIS C2C stack) and user applications. The *iCS* is the program in the middle:
it runs the three in steps of one second, keeps their vehicles the same, starts
and stops radio messages in ns-3, matches the packets ns-3 reports with the
messages it ordered, and stores them in the *facilities*, where applications
read them. This directory specifies the iCS, the parts of ns-3 it drives, and the C2C
network stack that carries the messages from station to station.

## 1. Inventory

| component | state | operations | what makes it correct |
|---|---|---|---|
| Loop, `sync-manager.cpp` (`Run`), `ics.cpp` | step, node collection, nodes to deactivate, scheduled-message tables | one step: ns-3, its messages, SUMO, applications, scheduling, positions, clock | both simulators have the same vehicles, ns-3 is one step ahead, a lost simulator stops the run |
| Nodes, `itetris-node.cpp`, `vehicle-node.cpp`, `fixed-node.cpp`, `tmc-node.cpp` | `m_idCounter`, `m_preAssignedIds`, `m_moved` | constructors, `CheckPosition` | identifiers are unique |
| ns-3 client and server, `ns3-client.cpp`, `ns3-server.cc`, `iTETRISNodeManager.cc` | one TCP connection, ns-3 nodes and whether they are active | one command, one answer | a failure at any command leaves both sides in states they can explain |
| Message store, `LDMLogic.cpp`, `FacilityMessages.cpp` | iFPT, iFMT, `eventList`, `deletionList`, sequence numbers, rules | create payload, `storeMessage`, `updateClock`, queries | tables agree, messages are deleted in time, only relevant receptions are kept |
| CAM areas, `subs-set-cam-area.cpp` | nodes inside each area | `ScanArea`, add, remove, general areas | CAMs are sent by the nodes of the areas and by no other |
| Message tracking, `V2X-message-manager.cpp`, `GetDataFromNs3`, `ScheduleV2x*` | rows of scheduled messages, `IdentifiersTable` | insert, compare, group receivers, refresh | a packet is stored under the action ID of the message that was sent |
| CAM transmission in ns-3, `CAMmanagement.cc`, `iTETRIS-Application.cc`, `packet-manager.cc`, `inci-packet-list.cc` | send events, tags, received packets | start, stop, send, receive | one chain of sends per active node |
| Application messages, `subs-app-message-send.cpp`, `subs-app-message-receive.cpp`, `ScheduleV2x*Messages`, `C2C-IP-app.cc` | `receivedData` of a subscription, rows, pending second packets | send, match, process, inform | what is heard is told, once, as what was sent, to those who asked |
| C2C network, `c2c-l3-protocol.cc`, `c2c-transport.cc`, `routing/geo-routing/*` | packets received (per protocol, source, application), MAC addresses, counters | send, receive, forward for topo-broadcast, geo-broadcast, geo-unicast | a packet is handed up once, in no circle, within its hops; a flood leaves no gaps and dies out (of one application) |
| Location table, `location-table.cc` | a vector of position entries, two timed events | store from a header or a vector, own entry, clean | one entry per station, neighbours are stations heard, old entries go |
| Applications, `application-handler.cpp`, `app-message-manager.cpp`, `subs-*.cpp` | subscriptions, results | subscribe, drop, forward data, execute | results of the step they were computed in |
| Results, `app-result-*.cpp` | travel times, jams, speed limits | compute, deliver | data |
| Stations and map, `StationFacilities.cpp`, `MapFacilities.cpp` | stations, lanes, positions | update, geometric queries | geometry |
| Configuration, `*-configfile-parser.cpp` | rules, stations, applications | read once | parameters |

Interactions: the loop calls everything else; there is one thread in the iCS and
no callback. ns-3 and SUMO are processes behind a TCP connection each: a command
is answered before the next one is sent. The message tables are shared by the
scheduling phase (which writes rows and payloads) and by the reception phase of
the following steps (which reads them).

In ns-3 the stack of a station is called from above by the applications and from
below by reception events; stations share nothing but the frames. The network
protocol of a station writes its location table, and the routing protocols read it.

What is hard here: state that must agree across processes although any command
may be lost; results that are ignored; identifiers given by three parties;
messages that come back steps later, in another order, under another tag, to
stations that moved or left; tables whose entries must be deleted in time;
counters that wrap. The places that matter are listed, at their lines, under `hazards` in
`PROJECT.json`, with the properties that would catch them going wrong; a hazard that the bounds or
assumptions of the runs leave out has a note, which names the configuration that shows it when there is one.

## 2. Plan

In order of importance:

1. `Ldm` with its abstract specification `MessageLife` (done): the store.
2. `CoSim` (done): the loop, the lifecycle of nodes, failures of the connection.
3. `Ldm_proofs` (done): type correctness, the deletion lists, deletion in time;
   `Ldm_life_proofs` (done): the store implements `MessageLife` and never aborts, until the
   numbers wrap.
4. `CamTracking` (done): CAM areas, subscription of stations, commands to ns-3, the
   send chains of ns-3 and their tags, matching of received packets and the action
   IDs they are stored under.
5. `CoSim_proofs` (done): type correctness, active nodes, their identity in the iCS and in
   ns-3, time, loss of the connection, identifiers; `CamTracking_proofs` (done): the nodes
   in the areas, the chains of CAMs, who sends, the tags of CAMs; `CamReceptions_proofs`
   (done): the types of `CamTracking`, what is received and stored, rows that wait for their
   CAM, and one row per CAM.
6. `AppMessages`, `AppMessages_proofs` (done): unicast, geobroadcast and topobroadcast
   messages of applications. Left: the results of applications (speed limits, travel
   times, bus lanes), which are shown the same receptions.
7. `GeoNet` with its abstract specification `Delivery`, and `GeoNet_proofs` (done): the C2C
   network. Left: anycast, and the geometry that decides who is in an area.
8. `LocationTable`, `LocationTable_proofs` (done): the table of positions and neighbours.
9. `Subscriptions`: life cycle of subscriptions in the handlers.
10. SUMO's side of the loop (`traci-client`), with departures and arrivals of one
   step in every order SUMO can report them.

Runs stay small: 2 to 3 vehicles, 1 fixed station, 3 steps of the loop, 2 or 3 payloads
per station; theorems are for all values.

## 3. Modules

### `Ldm` - the message store (`LDMLogic.cpp`)

State: `iFPT`, `iFMT`, `eventList`, `deletionList`, `stationsSeqNoRecord`, `simTime`
are the members of the same names. An action ID is the pair of station and
sequence number that `createActionID` prints with zero padding. A `vector` of
receivers is the number of times each station occurs in it, because the filters
duplicate, drop, and never reorder what anything reads. `areaHits` and `inDirection`
are what the rules see of the position of a station; `moveStation` is
`updateMobileStationDynamicInformation`. `status` says whether the process is
`running`, `aborted` (the code called `abort()`) or `crashed`.

Actions: `createCAMpayload`, `createDENMpayload`, `createApplicationMessagePayload`;
`storeMessage` with its branches `storeInBoth` (abort), `discardPayload` (no
receiver, or a kind the rules reject), `storePayloadReceived` and `addReceivers`;
`updateClock` with the clean-up; `moveStation`. The calls that return false and
change nothing are stuttering. `scheduleMessageRemoval` erases the old entry in a loop
that, when the entry was alone, reads the vector it has just freed
(`LDMLogic.cpp:982`): the model lets the process crash there or go on.

The clock: the facilities are told -1 at set-up and 1 at the end of step 0, so it
never shows 0. ns-3 is asked for received messages before the iCS creates new
ones, so nothing is stored while the clock shows -1. A reception and a creation in the
same step may come in either order in the model, which is more than the loop does.

`MessageLife` is what the store promises about one action ID: unborn, generated,
stored, gone, in that order, and never generated a second time. `Ldm` implements it
(`MessageLifeSpec`) as long as no station uses more numbers than there are.

### `CoSim` - the loop and the lifecycle of nodes

State: `m_simStep`, `nodes` (the vehicles of `m_iTetrisNodeCollection`, with their SUMO, iCS
and ns-3 identifiers), `pending` (`m_vehiclesToBeDeactivated`), `moved`,
`m_idCounter`, `preAssigned`; `entering` and `toActivate` are the locals of
`RunOneSumoTimeStep`; `ns3Time`, `ns3Count`, `ns3Active` belong to ns-3; `link` is
the TCP connection. `phase` is the place in `SyncManager::Run`, `result` what it returned.

Each phase is an action: `RunOneNs3TimeStep`, `GetDataFromNs3`, `LeaveVehicles`,
`EnterVehicle` (one per departed vehicle: constructor, `CommandCreateNode2`),
`RejectVehicle` (no usable radio technology), `ActivateVehicles`,
`UpdateTrafficLights`, `RunApplications`, `ScheduleV2xMessages`,
`DeactivateVehicles`, `UpdatePositions`. A command to ns-3 is executed or not and its
answer is read or not (`Command`); once it fails the connection is down for good, as the
client never reconnects. Which results the iCS checks is as in the code: creation,
activation, deactivation are not checked, the others end the run.

### `CamTracking` - CAMs from the areas to the facilities

State. Of the iCS: `nodes`, numbered in their order of creation, `camAreas` with `nodesInArea` of each,
`general` (`generalCamSubscriptions`, as the frequency of each entry), `rows`
(`ScheduledCamMessageTable`), and `stores`, what one step gives to `storeMessage`. Of ns-3:
the pending `events` of the CAM applications, `running`, the `tag` variables
(`m_previousTimeStep`, `m_stepSequenceNumber`), the `period` between two CAMs, and the
`inbox` (`InciPacketList`) of each node. `created` and `inside` are SUMO's: how many stations
have entered and who is in the circle of which area. `wanted` is the areas in the
subscriptions of the nodes. `sent` and `started` are
histories that only properties read (and, for `sent`, the time of the last event).

Actions, in the order of the loop: `SendPacket` (one event of ns-3, with who hears it) and
`DeliverLate` until `RunSimStepReturns`; `GetDataFromNs3` (all packets, matching, grouping,
erasing rows); `RunOneSumoTimeStep` (who left, entered, moved); `RunApplicationLogic` (areas
subscribed, and dropped from the node's subscriptions only); `ScheduleV2xMessages` (who is inside, whom to stop and start, the
rows of the next step, the rows that are too old).

Abstractions. The time of ns-3 is cut into `SlotsPerStep` slots per step; frequencies
divide that number. The first CAM after a start comes at any slot from the time of the command
to one step later, which contains the random offset of `CAMmanage`. A command that
comes between two steps finds `Simulator::Now()` at the last event, which may be of any
node or layer: any slot from the last CAM to the end of the step. Every station has WAVE and
the payload length is always 20, as that is what `SubsSetCamArea` passes. The
action ID of a row is new for each row, so the row stands for it. A station has one name on
all sides, its number in the order of creation: any run is one of these after a renaming. A
vehicle does not return; commands succeed. The subscribers of areas are stations that stay.
`FixedStations` are the road-side units, there from the start and active in ns-3 without a command. `CoSim` has the identifiers,
the returns and the failures, and `ActiveInSync` there is why any present station
can hear here. The CAM application of a vehicle that left keeps running unheard, as in
the code. Positions change once a step, as `inside` does.

### `AppMessages` - messages of applications

State: `nodes`, `subs` (`m_subscriptionCollection` of each node, with `receivedData` and
`m_appMsgReceived`), `rows` (the three tables of scheduled messages, told apart by `mode`),
`turn` (how far `RunApplicationLogic` is). Of ns-3: `air` (first packets, sent when a
message is ordered), `sending` (the second packet of the application of each mode at each
station), `inbox`, and `late` (receptions of the next step). A message is a number, the
actionID and the appMessageId in one. Packets carry `msg` and `app` for the properties to
read; what the code compares is `mode`, `from`, `to`, `ts`.

Actions, in the order of the loop: `RunOneNs3TimeStep` (which second packets are sent, who hears
what), `GetDataFromNs3` (matching, telling the subscriptions, erasing rows, failing when the
sender is gone), `RunOneSumoTimeStep`, then node after node `SubsAppMessageReceive`,
`SubsAppMessageSend` (the constructor orders the message) and `FinishTurn` (subscriptions
dropped, application informed), `RunApplicationLogicReturns`, `ScheduleV2xMessages` (clean-up).

Abstractions. A message is sent with frequency 1 and a regeneration time of 1, as
`SubsAppMessageSend` fixes them: ns-3 sends it at once and a second later, numbered 0 each
time, the second time only if a difference of doubles is at most 1. ns-3 is assumed to have
events in every second, so that the first packet is of the step in which it is ordered. Each mode
has a service of its own. Payloads stay in the facilities while their row is in the
table. The areas of a geobroadcast and the hops of a topobroadcast only decide who hears it, which
is open anyway. All three processing functions give a packet to every row it matches; by
`OneRowPerPacket` that is one row.

What the model has and no property judges: a second broadcast of a station in one step is not
sent although the application is told it was; a subscription that sends, made first, hides the
one that receives; `receivedData` is never emptied, so every report repeats the former
ones; geobroadcasts are never given to `storeMessage`.

### `GeoNet` and `Delivery` - the C2C network of ns-3

State. Of every station: `sendCount` and `recvCount` (`m_sendCountC2C`, `m_recvCountC2C` of the
application), `received` (`m_packetReceived` of each routing protocol: sequence numbers of each
source and application), `heard` (`m_nodeIdAddressMap`), `neighbours` (what the location table
says). Of the channel: `air`, the frames that were sent and not yet received, each with its
hop limit and, for properties, the `path` of stations that transmitted it. `sent` and `log`
are histories.

Actions: `SendPacket` (`DoSendC2C`, through transport and routing to `c2cL3Protocol::Send`) and the
reception of a frame, which is one call from `c2cL3Protocol::Receive` to the last `Send`:
`ReceiveDuplicate`, `ReceiveTopo`, `ReceiveInArea`, `ReceiveOutside`, `ReceiveUnicast`, after the places
where `RouteInput` of the three protocols decides. All of them first learn the MAC address and
the position of the transmitter (`Arrive`), then ask `checkReception` (`Duplicate`, `Recorded`).
`Recorded` keeps what the code does with a second application of the same source: its
list replaces the first one's. `CleanTable` makes neighbours go.

Abstractions. Where stations are is left open: who is in an area, who hears a frame and which
neighbour is nearest are choices, made again each time. Frames between stations that
are `Reliable` to each other always arrive, any other frame may be lost; frames arrive in any
order. `neighbours` may or may not gain the transmitter, as the location table ignores a vector
of the second it already has; `LocationTable` is the table itself, and its properties
`OnlyHeardDirectly` and `NeighbourLeavesByCleaning` are what makes `Arrive` and `CleanTable` here
right. The sequence number is the application's counter modulo 2^16 and the hop limit is
a byte, `SeqMod` and `HopMod` in the model. `getMinDistToDest` can answer with a station that was never set or whose
address is unknown; the packet is then dropped.

`Delivery` is what applications may expect: a packet is handed up after it was sent, never to
its own station, never twice to the same one. `GeoNet` implements it (`DeliverySpec`) if only
one application of a station uses each protocol; the run `twice` shows why.

### `LocationTable` - the positions a station knows

State: `table` is `m_Table` in its order, `ownAt` and `cleanAt` are the times of the two events,
`now` is `Simulator::Now` in ticks, `SECOND` of them a second: vectors carry whole seconds.
`inBounds` says whether the loop of `CleanTable` has stayed inside the vector. Actions:
`ReceiveFrame` (the header of a frame), `ReceivePacket` (header and source vector), `AddOwnEntry`,
`CleanTable`, `Tick`. `erase` returns the following entry and the `for` then steps past it: of a row
of expired entries every second one is erased, and when the last entry of the vector is
erased the iterator leaves it (`IsErased`, `Keeps`, `inBounds`). A vector arrives at most
`MaxDelay` ticks after it was made. Positions themselves are left out.

Mutants (operators commented as such) stand before the definition they are a wrong form of.

## 4. Runs

| run | module, cfg | shows |
|---|---|---|
| `life` | `MCLdm`, `MCLdm_life.cfg` | lists, tables, clock consistent; `NeverAborts`; `Ldm` implements `MessageLife` |
| `wrap` | `MCLdm`, `MCLdm_wrap.cfg` | sequence numbers stay in range when they wrap; only relevant receptions are stored |
| `loop` | `MCCoSim`, `MCCoSim_loop.cfg` | identifiers, activity, time and loss of the connection; radios of vehicles that left are eventually off |
| `cam` | `MCCamTracking`, `MCCamTracking_one.cfg` | each CAM has one row, and still has it when it is received |
| `cam_groups` | `MCCamTracking`, `MCCamTracking_groups.cfg` | every reception is stored under its CAM, and nothing else is |
| `cam_areas` | `MCCamTracking`, `MCCamTracking_two.cfg` | who sends CAMs: exactly the stations inside an area, once |
| `messages` | `MCAppMessages`, `MCAppMessages_messages.cfg` | application messages: what is heard is told, once, as what was sent; no message stops the run |
| `once` | `MCGeoNet`, `MCGeoNet_once.cfg` | a packet is handed up once, travels in no circle and within its hops; `GeoNet` implements `Delivery` |
| `flood` | `MCGeoNet`, `MCGeoNet_flood.cfg` | floods leave no gaps, reach whoever is always heard, and die out |
| `table` | `MCLocationTable`, `MCLocationTable_table.cfg` | the cleaning loop stays in the vector; the age of entries is bounded; neighbours are stations heard |
| `geo_phantom`, `twice` | `MCAppMessages`, `MCGeoNet` | the disagreements between code and comments below |

Bounds. `life`: one sender, one receiver, 3 payloads, times up to 5, a message received at
most twice, life interval 2. A message can be received, received again before and
after another one, deleted, and every order of two messages on the two lists occurs.
`wrap`: a road-side unit with 2 numbers and 4 payloads, so a number comes back while its
message is in either table or in none; a vehicle that moves and the unit itself receive; two
areas that overlap (a receiver in both is pushed twice, hence 4 receptions), a direction
rule, and a kind that the rules reject. `loop`: 3 vehicles, one with a predefined identifier, one fixed station whose
identifier the counter would reach, steps 0 to 2 with ns-3 starting at step 1: a vehicle can
enter, leave, and enter again while another one is being deactivated, and the
connection can break at any of the commands. `cam`: two stations, one area of two CAMs
per step, rows kept one step more, steps 0 to 4, CAMs heard by anyone, at once or (the last of
a step) in the next one: a row can wait for its CAM over the end of a step and a clean-up.
`cam_groups`: one vehicle and two road-side units, of which one is inside the area, one CAM
per step: three receivers and two senders, in every order of arrival.
`cam_areas`: an area of one and an area of two CAMs per step, either of which may
appear at any step, two stations that move in and out of both; nothing is heard, since
who hears what does not change who sends. `messages`: a road-side unit and a vehicle that comes and
leaves, two messages of any mode, two subscriptions each, steps 0 to 3, rows kept two
steps, every packet heard or lost: a message can be repeated while the next one of its
sender is ordered, and the row of a broadcast is still there when the next one is heard. There is one
application: with two, the run does not end in minutes. `once`: three stations, any of which may
or may not hear a frame, so every route, loss and order of arrival of a packet occurs. `MaxSend` is 1
and a station has one counter for all protocols, so in one behaviour the first station sends its
topobroadcast or its unicast, never both, beside the geobroadcast of the second; each protocol has a
table of its own, so nothing depends on this. The hop limit starts at 4, more than the longest way without a circle. `flood`: a line of
three stations that always hear their neighbours, the relay in the middle, and two floods of one
source on the air together, which may overtake each other. `table`: the station and two others, heard directly
and over each other, times up to 20 ticks, which is ten seconds or three rounds of cleaning;
a vector is at most a tick, half a second, old.

`CHECK_DEADLOCK FALSE`: `Run` returns, the store's bounded histories end.

Findings (violation runs):

- `geo_phantom`: a geobroadcast that meets no row, as the second packet of every one does, is
  processed with an application and a message that were never assigned
  (`sync-manager.cpp:2711`), and may be told to an application.
- `twice`: when CAMs and a flood of one station alternate, the record of one application
  replaces that of the other, and a packet that comes again over another way is handed up and
  sent on a second time (`topo-broadcast.cc:204`).

More configurations are there to be run by hand; each ends with the violation described.
`MCLdm_direction.cfg`: a relevant direction in the rules file has no effect, as the flag is set to
false when it is read (`LDMLogic.cpp:489`; `OnlyRelevantDirection`). `MCCoSim_predef.cfg`: an identifier predefined for a vehicle is not compared
with those the counter has given (`UniqueIcsIds`). `MCCamTracking_rate.cfg`: rows are written for the highest
frequency of all entries now, but a station sends with the highest one of the moment
it was started: with areas of two frequencies CAMs are sent that have no action ID
(`CamHasRow`). `MCCamTracking_mixed.cfg`: a station stopped and started again within a second gives a
number twice, and an entry that two receptions meet is marked as stored and erased
without being stored (`ReceptionsStored`; `TagsUnique` and `OneRowPerCam` also fail there). `MCCamTracking_drop.cfg`: an application that unsubscribes has its subscription erased from
the collection of the node only (`application-handler.cpp:133`); `SyncManager`'s "collection of all
current subscriptions" (`sync-manager.h:426`) and the CAM area keep it, and the stations of
the area go on sending (`OnlyWantedAreas`; `SubsSetCamArea::Delete`, which would not find the
area either, has no caller). `MCGeoNet_nohops.cfg`: a topological broadcast of 0 hops is not
stopped at its first receivers: the limit goes from 0 to 255 there (`HopBudget`).
`MCLocationTable_clean.cfg`: after a cleaning there can be entries that are older than the lifetime
(`CleanedIsClean`). `MCLocationTable_late.cfg`: when frames wait longer than the lifetime allows, as
those in a full WifiMacQueue may (up to 10 s), the last entry of the table can
expire and the loop leaves the vector (`CleanInBounds`).
`MCLdm_wrap_both.cfg`: `getNewSeqNo` gives a number again while the iFMT still holds it, and
`storeMessage` then aborts the simulation (`LDMLogic.cpp:725`). It needs USHRT_MAX payloads
of one station within the life of a message. `MCLdm_nolog.cfg`: without `LOG_ON` nothing is ever
deleted, as the loop is inside the `#ifdef`. `MCLdm_freed.cfg`: a message whose deletion
time it has alone is received again, and the loop that erases the old time reads freed memory
(`NeverCrashes`, as a crash is one of the outcomes). `MCAppMessages_list.cfg`: of a list of unicast
destinations only the last is served (`EachDestinationServed`), as each start in ns-3 cancels the
second packet of the one before, and only that has the tag the row waits for.
`MCAppMessages_retry.cfg`: when the second packet of a unicast is lost, the first packet of the next
one, ordered a step later, takes its row and is told as the old message (`UnicastHonest`).
`MCAppMessages_late.cfg`: a packet received in the step after its sender left ends
the run (`RunSurvives`). `MCLdm_shortlife.cfg`: with a life
interval of 0 a message is scheduled for a time whose clean-up is over, and `NothingOverdue`
fails. `MCCamTracking_split.cfg`: `RowOnArrival` fails when one CAM reaches two stations on
either side of the end of a step, because a row is erased as soon as one station
received it; that needs a reception within microseconds of a whole second, so the
other runs leave it out (`Deliveries` has no "split"), and `RowOnArrival` is checked under
that assumption. Also visible in the model: the entry of a station that left is never taken from
`general`, against the comment at `sync-manager.cpp:1797`, and its frequency still counts.

## 5. Fairness

`FairSpec` of `CoSim` assumes weak fairness of the whole next-state relation: the loop is one
thread and every call it makes returns, with an answer or with an error. Nothing
is assumed about which vehicles enter or leave, nor about the connection. `FairSpec`
of `GeoNet` assumes that ns-3 executes the reception events it has scheduled; that frames
arrive at all is assumed only between `Reliable` stations, and `FloodReaches` speaks of
those. `Ldm`, `CamTracking`, `AppMessages` and `LocationTable` have no liveness property.

## 6. Proofs

The theorems hold for all constants that satisfy `LdmAssumption`, `CoSimAssumption`,
`CamTrackingAssumption`, `AppMessagesAssumption`, `GeoNetAssumption` and `LocationTableAssumption`: any number
of stations, steps, areas, slots, frequencies, hops, lifetimes. Where a theorem needs more, it says so.

`Ldm_proofs`:

- `TypeCorrect`: `Spec => []TypeOK`.
- `ScheduleCorrect`: `Spec => [](ListsSynchronized /\ StoredIffScheduled)`. The
  conjunction is inductive together with the type invariant; each alone is not, because
  re-scheduling looks up the old entry by `eventList` and the clean-up by `deletionList`.
  `MessagesAreScheduled` states its second part by itself.
- `LifeCounted`: `LifeFromLastReception` is inductive with the type invariant and
  `StoredIffScheduled` (`CountedLife`): a message that leaves the table takes its
  deletion time with it.
- `OnlyRelevantStored`: `ReceiversRelevant` compares the receivers of a message with the rules at
  the moment they are added; `KindsRelevant` is the part that is true of the table at any time.
- `DeletedInTime`: with `LOG_ON` and a life interval of at least 1, no message but a DENM
  is kept past its time. The strengthening `Deadlines` adds that nothing is stored while the
  clock shows -1, since the clock then skips 0.

`Ldm_life_proofs`, for `MaxCreate <= SeqMod`, that is, as long as no station used all its
numbers (`MCLdm_wrap_both.cfg` shows why this is needed):

- `NoAbortBeforeWrap`: `Spec => []NeverAborts`. `NumbersDrawn` relates the last number of a
  station to the number of payloads it created, so the next one is in neither table.
- `ImplementsMessageLife`: `Spec => MessageLifeSpec`. `LifeMeans` reads the life of a message off
  the tables; creation maps to `Generate`, a rejected payload to `Discard`, the first reception
  to `Receive`, the clean-up to `Delete`, everything else to a stutter.

`CoSim_proofs`:

- `TypeCorrect`; the numbers given in advance stay finitely many, so the counter finds a free one.
- `ActiveAlwaysTracked`: `ActiveNodesTracked` is inductive: the list of departures is only
  cleared when ns-3 answered, and an answer means it executed the command.
- `Ns3NodesDistinct`: needs that all identifiers in use are below the number of nodes created.
- `ActiveAlwaysInSync`: `SyncInv` says for every phase who is active while the connection
  holds: all but the vehicles not yet activated, and those that left in this step. Clearing
  the list is then right because no present vehicle is on it (`Ns3NodesDistinct`).
- `AlwaysLockstep`, `LossAlwaysStopsRun` (by `LossNoticed`, which tells in which phase and step the
  loss can still be unnoticed), and `CounterGivesUniqueIds`, for scenarios without predefined
  identifiers: with them `UniqueIcsIds` fails (`MCCoSim_predef.cfg`).

`CamTracking_proofs`:

- `NoDanglingNode`: an area is not told of departures before it exists, but its vector
  is empty then.
- `AtMostOneChain` and `SendersAreInside`: `ChainInv` says that each entry of the general
  subscriptions has one event and no other station any, and that an event `StopTransmitting` cannot
  cancel lies before the time to which ns-3 runs next, so none is left when the next
  stop is decided.
- `TagsAreUnique`, for areas of one frequency (`OneFrequency`): `NumbersInv` says that no CAM of a
  station has a number beyond its tag variables, and that who sent in this step is still in the general
  subscriptions, so a station that is started in it has given no number yet. With two frequencies TLC finds a station that is stopped and started again
  within one second and gives a number twice.

`CamReceptions_proofs`:

- Induction. The library's induction theorems take an operator, which the provers cannot
  instantiate. Its theorem that a well-founded order has minimal elements in every
  set (`WFMin`) takes none: `NatSetInduction` gets induction over sets of numbers from it, and
  from that come `RecursionExists` (a function can be defined step by step), the maximum of a bounded set
  (`MaxExists`), what `FlattenSeq` concatenates (`FlattenSets`) and what the identifiers table
  holds after a list of receptions (`TableSteps`, `TableEntries`).
- `CamTypeCorrect`, for any frequencies: `TypeInv` adds to the type invariant that a frequency in the general
  subscriptions is one an application may ask for, so that the division of `SlotsBetweenCams` has a
  positive divisor, and that late CAMs are finitely many, so that there is an order to hear them in.
- `EveryReceptionStored`, for `OneFrequency`: `HeardInv`, which holds for any frequencies, says that what
  is in a list or on its way was sent in a step that is not over; `OnceInv` that a station has no CAM
  twice in its list, nor one that is still on the way to it, because a new CAM has a new number
  (`NewNumber`). With `TagsUnique`, two receptions of one
  station never meet the same row, so the flag `exists` of `UpdateIdentifiersTable`, which only the last
  entry decides, is never needed: no entry is found twice and none is marked as stored.
- `RowsWait`, for any frequencies, no CAM heard in two steps, and `Window >= 1` (`OnePiece`): `RowInv` says that
  no late CAM is in any list, and `NowInv` that two CAMs of the step ns-3 is at never have the same number (a
  station is not started between two of them; only those of the step before, in which it was stopped and started, can
  repeat one). So the rows that `GetDataFromNs3` erases are not those of late CAMs; the clean-up
  keeps the rows of the step that is not over. `MCCamTracking_split.cfg` shows why one piece is needed.
- `RowsAreCams`, for `OneFrequency`: `CountSlots` places the next event of a station after as many periods
  of the step as it has sent CAMs in it, so their numbers stay below the frequency; `CountRegular`
  places it no later than the next period for a station that was started two steps ago, so that when
  ns-3 returns all periods are over and every number was used. `CountNumbers` says the same numbers are those of the rows.

`AppMessages_proofs`:

- `AlwaysOneRow`: `RowsDistinct` says that mode, sender, destination and step determine a row and
  that only broadcasts are for everyone. It is inductive by itself, since a row is only added
  when none has its key; a packet then matches at most one.
- `MessagesDoNotStopTheRun`, for `Late = FALSE`: `SendersPresent` follows the packets round the
  loop: nothing is on the air when vehicles leave, so senders of packets are nodes until
  `GetDataFromNs3` has processed them.
- `TypeCorrect`: `TypeInv` adds to the type invariant that no turn is taken outside
  `RunApplicationLogic` and that a packet which will be repeated is not of a later step.
- `TopobroadcastsAreHonest`, for `Late = FALSE`: `Times` ties the packets on the air to the last
  round of applications, and `OwnRow` says that the row a topobroadcast meets is that of its
  message. The repeat of a message carries the tag of a step for which its sender has written no
  row yet.
- `MessagesAreToldOnce`, for `Late = FALSE`: `OnceInv` says that numbers are given one after the
  other (`Numbered`), that a number is that of one message in packets (`PacketsApart`) and in rows
  and reports (`RowsApart`), that a unicast that was told has no row for its receiver any
  more (`ToldRows`), and that it was told once (`UnicastOnce`).
- `WhatIsHeardIsTold`, for `Late = FALSE` and `Window >= 1`: `RowsWait` says that a packet that will
  be awaited has its row from the order until `GetDataFromNs3` looks for it, through the
  clean-up between, and that no other unicast of its sender carries its tag. With a window
  of 0 the row of a topobroadcast is erased in the step in which it is written.

`GeoNet_proofs`:

- `TypeCorrect`, `NeighbourHasAddressCorrect`.
- `LoopFreeCorrect` and `OnceCorrect`, for one application per protocol and station (`OneSender`):
  `WayKnown` says that every station a frame has passed, and every one that was handed its
  packet, has the number in its table or is the source. That is inductive because with one
  application nothing is ever taken out of the table (`KnownStays`). A station that
  accepts a frame is then neither on its path nor in the log of the packet.
- `NoGapsCorrect`, for `MaxSend < SeqMod`, that is, before numbers wrap, with any number of
  applications: `TableHonest` says that a number in the table belongs to a packet that was handed
  up, so a frame dropped as a duplicate was one.
- `HopBudgetCorrect`, for broadcasts of at least one hop (`SomeHops`): the way so far and the hops left
  add up to a constant (`HopsLeft`); with 0 hops they do not (`MCGeoNet_nohops.cfg`).
- `DeliveryCorrect`: `SendPacket` maps to `Send` (its number is new, `SentInv`), a reception that is
  handed up to `HandUp` (new at that station, `OnceInv`), everything else to a stutter.

`LocationTable_proofs`:

- `UniqueEntriesCorrect`, `OnlyHeardDirectlyCorrect`, `NeighbourLeavesByCleaningCorrect`, from
  what `Put` does to the entries, however late frames arrive.
- `CleanInBoundsCorrect` and `AgeBoundCorrect`, for `Prompt` (`MaxDelay + 2 * SECOND + BEACON <= LIFE`). The
  invariant `Sound` says that the entries after the station's own were stored later and are nearly
  as fresh, so the last entry never expires. For the age, `Budget` bounds how old the entry at
  each place was at the last cleaning: an expired entry survives only when the one before it is
  erased, so it moves to the front by a place in every cleaning it survives.

Only model-checked: liveness under fairness (`DeparturesDeactivated`, `FloodReaches`, `FloodEnds`), which
is out of the prover's reach. All other properties of the passing runs are theorems. Those of
`CamTracking` that speak of the numbers of CAMs (`TagsUnique`, `ReceptionsStored`, `OneRowPerCam`) are proved for
areas of one frequency, which is what the runs check too, and fail with two: TLC finds each of the three violated in
`MCCamTracking_mixed.cfg`. `TypeOK` and `RowOnArrival` are proved for any frequencies.

## 7. Not modelled

See `components` in `PROJECT.json`, with a reason each: the queries of the store, the encodings
of the three protocols, geometry, the computation of application results, the
parsers, geo-anycast, beacons as frames, the IP stack and the radio technologies of ns-3.

Nearly all of the repository's lines are third-party programs it carries along: SUMO, the core and
the stock models of ns-3, xerces, GeographicLib, the Mersenne twister. They are not iTETRIS'
own logic, and the models see them from outside: SUMO as the choice of who departs, moves
and arrives, ns-3's scheduler as the order of events, its channel as the choice of who hears a
frame. The share of the whole repository that is mapped therefore stays small by nature;
within the iCS and the C2C stack it is the loop, the store, the tracking of messages,
the applications' messages, the network and its tables.
