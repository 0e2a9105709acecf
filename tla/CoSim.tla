------------------------------- MODULE CoSim -------------------------------
(***************************************************************************)
(* The co-simulation loop of the iCS: SyncManager::Run and the calls it    *)
(* makes to SUMO and ns-3 to keep their vehicles the same (iCS/src/ics/    *)
(* sync-manager.cpp, vehicle-node.cpp, itetris-node.cpp), with the part of *)
(* ns-3 those calls change (ns-3.7/src/inci/ns3-server.cc, inci-utils/     *)
(* iTETRISNodeManager.cc).                                                 *)
(*                                                                         *)
(* One step of the loop is a sequence of phases.  Every ns-3 command is a  *)
(* request and an answer over one TCP connection that may break before the *)
(* request is executed or before its answer is read, and is never opened   *)
(* again.  What the applications compute, and the messages they send, are  *)
(* left to other modules; here those phases only succeed or fail.          *)
(***************************************************************************)
EXTENDS Integers, FiniteSets

CONSTANTS
  TsIds,            \* SUMO's vehicle identifiers
  PredefId,         \* iCS identifier the user gave to a vehicle; 0: none
  FixedIds,         \* iCS identifiers of the fixed stations
  m_firstTimeStep,
  m_lastTimeStep

ASSUME CoSimAssumption ==
  /\ PredefId \in [TsIds -> Nat]
  /\ FixedIds \subseteq Nat \ {0}
  /\ IsFiniteSet(FixedIds)
  /\ m_firstTimeStep \in Nat
  /\ m_lastTimeStep \in Nat
  /\ m_firstTimeStep < m_lastTimeStep \/ m_firstTimeStep = 0

VARIABLES
  m_simStep,    \* current step
  phase,        \* what the loop does next within the step
  result,       \* "running", or how Run returned: "ok" or "failed"
  nodes,        \* m_iTetrisNodeCollection, the vehicles of it
  pending,      \* m_vehiclesToBeDeactivated
  entering,     \* vehicles of the departed list still to be created
  toActivate,   \* vehicles created in this step, to be activated
  moved,        \* vehicles whose m_moved flag is set
  m_idCounter,
  preAssigned,  \* m_preAssignedIds
  link,         \* the connection to ns-3: "up" or "down"
  brokenAt,     \* history: the step in which the connection broke
  ns3Time,      \* the time ns-3 was last told to run to
  ns3Count,     \* nodes created in ns-3; the next one gets this identifier
  ns3Active     \* identifiers of the active mobile nodes of ns-3

iCS == <<nodes, pending, entering, toActivate, moved, m_idCounter, preAssigned>>
conn == <<link, brokenAt>>
ns3 == <<ns3Time, ns3Count, ns3Active>>
vars == <<m_simStep, phase, result, iCS, conn, ns3>>

Phases == {"ns3", "data", "sumo", "enter", "lights", "apps", "schedule",
           "deactivate", "update"}
NoNode == -1    \* what CommandCreateNode2 returns when the call fails

\* Run after a successful ICS::Setup: the TMC node and the fixed nodes each
\* moved m_idCounter, which starts at -1, and the latter exist in ns-3.
Init ==
  /\ m_simStep = 0
  /\ phase = "ns3"
  /\ result = "running"
  /\ nodes = {}
  /\ pending = {}
  /\ entering = {}
  /\ toActivate = {}
  /\ moved = {}
  /\ m_idCounter = Cardinality(FixedIds)
  /\ preAssigned = FixedIds
  /\ link = "up"
  /\ brokenAt = -1
  /\ ns3Time = 0
  /\ ns3Count = Cardinality(FixedIds)
  /\ ns3Active = {}

In(p) == result = "running" /\ phase = p
GoTo(p) == phase' = p /\ UNCHANGED <<result, m_simStep>>
Fail == result' = "failed" /\ UNCHANGED <<phase, m_simStep>>

FailureIgnored(ok, p) == GoTo(p)    \* mutant of GoToIf
GoToIf(ok, p) == IF ok THEN GoTo(p) ELSE Fail

\* One command to ns-3: executed says that ns-3 ran it, ok that the client
\* read the answer.
Command(executed, ok) ==
  \/ /\ link = "up" /\ executed /\ ok
     /\ UNCHANGED conn
  \/ /\ link = "up" /\ ~ok
     /\ link' = "down"
     /\ brokenAt' = m_simStep
  \/ /\ link = "down" /\ ~executed /\ ~ok
     /\ UNCHANGED conn

-----------------------------------------------------------------------------
(* Step 5: ns-3 runs one step ahead, then its received messages are read   *)
(* node by node.                                                           *)

Running == m_simStep >= m_firstTimeStep

LastStepDone == m_simStep > m_lastTimeStep

Together == m_simStep    \* mutant of ns3timeStep
ns3timeStep == m_simStep + 1

ReturnFromRun ==
  /\ In("ns3")
  /\ LastStepDone
  /\ result' = "ok"
  /\ UNCHANGED <<phase, m_simStep, iCS, conn, ns3>>

SkipNs3 ==
  /\ In("ns3")
  /\ ~LastStepDone
  /\ ~Running
  /\ GoTo("sumo")
  /\ UNCHANGED <<iCS, conn, ns3>>

RunOneNs3TimeStep ==
  /\ In("ns3")
  /\ ~LastStepDone
  /\ Running
  /\ \E executed, ok \in BOOLEAN :
       /\ Command(executed, ok)
       /\ ns3Time' = IF executed THEN ns3timeStep ELSE ns3Time
       /\ GoToIf(ok, "data")
  /\ UNCHANGED <<iCS, ns3Count, ns3Active>>

GetDataFromNs3 ==
  /\ In("data")
  /\ IF nodes = {} /\ FixedIds = {}
     THEN GoTo("sumo") /\ UNCHANGED conn
     ELSE \E executed, ok \in BOOLEAN :
            /\ Command(executed, ok)
            /\ GoToIf(ok, "sumo")
  /\ UNCHANGED <<iCS, ns3>>

-----------------------------------------------------------------------------
(* Step 6: RunOneSumoTimeStep.                                             *)

Present == {n.ts : n \in nodes}

SumoFails ==
  /\ phase \in {"sumo", "lights"}
  /\ result = "running"
  /\ Fail
  /\ UNCHANGED <<iCS, conn, ns3>>

\* SUMO's step: the vehicles that arrived leave the collection.
LeaveVehicles(arrived, departed) ==
  /\ In("sumo")
  /\ nodes' = {n \in nodes : n.ts \notin arrived}
  /\ pending' = pending \cup {n.ns3 : n \in {m \in nodes : m.ts \in arrived}}
  /\ moved' = moved \ arrived
  /\ entering' = departed
  /\ GoTo("enter")
  /\ UNCHANGED <<toActivate, m_idCounter, preAssigned, conn, ns3>>

\* The constructors of ITetrisNode and VehicleNode: the counter moves for
\* every node; without a predefined identifier it skips those pre-assigned.
AssignNext(ts, id) ==    \* mutant of AssignId
  /\ id = IF PredefId[ts] # 0 THEN PredefId[ts] ELSE m_idCounter + 1
  /\ m_idCounter' = m_idCounter + 1
  /\ preAssigned' = preAssigned

AssignId(ts, id) ==
  LET next == m_idCounter + 1 IN
  IF PredefId[ts] # 0
  THEN /\ id = PredefId[ts]
       /\ m_idCounter' = next
       /\ preAssigned' = preAssigned \cup {id}
  ELSE /\ id >= next
       /\ id \notin preAssigned
       /\ \A i \in next .. id - 1 : i \in preAssigned
       /\ m_idCounter' = id
       /\ UNCHANGED preAssigned

CandidateIds(ts) ==
  {PredefId[ts]} \cup (m_idCounter + 1 .. m_idCounter + 1 + Cardinality(preAssigned))

CountActive == Cardinality(FixedIds) + Cardinality(ns3Active)    \* mutant of NewNs3Id
NewNs3Id == ns3Count

\* The result of CommandCreateNode2 is not checked.
EnterVehicle(ts) ==
  /\ In("enter")
  /\ ts \in entering
  /\ entering' = entering \ {ts}
  /\ \E executed, ok \in BOOLEAN : \E id \in CandidateIds(ts) :
       /\ AssignId(ts, id)
       /\ Command(executed, ok)
       /\ ns3Count' = IF executed THEN ns3Count + 1 ELSE ns3Count
       /\ nodes' = nodes \cup {[ts |-> ts, ics |-> id,
                                ns3 |-> IF ok THEN NewNs3Id ELSE NoNode]}
  /\ toActivate' = toActivate \cup {ts}
  /\ UNCHANGED <<m_simStep, phase, result, pending, moved, ns3Time, ns3Active>>

\* No radio technology, or one that is not supported, was drawn for it.
RejectVehicle(ts) ==
  /\ In("enter")
  /\ ts \in entering
  /\ Fail
  /\ UNCHANGED <<iCS, conn, ns3>>

\* CommandActivateNode, whose result is ignored; then the new positions are
\* read: m_moved tells the vehicles that were there before and moved.
ActivateVehicles(movedNow) ==
  /\ In("enter")
  /\ entering = {}
  /\ \E executed, ok \in BOOLEAN :
       /\ Command(executed, ok)
       /\ ns3Active' = IF executed
            THEN ns3Active \cup ({n.ns3 : n \in {m \in nodes : m.ts \in toActivate}}
                                  \cap (0 .. ns3Count - 1))
            ELSE ns3Active
  /\ moved' = movedNow
  /\ toActivate' = {}
  /\ GoTo("lights")
  /\ UNCHANGED <<nodes, pending, entering, m_idCounter, preAssigned,
                 ns3Time, ns3Count>>

UpdateTrafficLights ==
  /\ In("lights")
  /\ GoTo("apps")
  /\ UNCHANGED <<iCS, conn, ns3>>

RunOneSumoTimeStep ==
  \/ SumoFails
  \/ \E arrived \in SUBSET Present :
       \E departed \in SUBSET (TsIds \ (Present \ arrived)) :
         LeaveVehicles(arrived, departed)
  \/ \E ts \in entering : EnterVehicle(ts) \/ RejectVehicle(ts)
  \/ \E movedNow \in SUBSET (Present \ toActivate) : ActivateVehicles(movedNow)
  \/ UpdateTrafficLights

-----------------------------------------------------------------------------
(* Steps 7 to 9: applications, messages to be sent, positions.             *)

RunApplications ==
  /\ In("apps")
  /\ \/ GoTo("schedule")
     \/ Running /\ Fail
  /\ UNCHANGED <<iCS, conn, ns3>>

\* ScheduleV2xMessages may have nothing to tell ns-3.  It gives up when a CAM
\* transmission cannot be started, and ignores the failure to stop one.
ScheduleV2xMessages ==
  /\ In("schedule")
  /\ \/ GoTo("deactivate") /\ UNCHANGED conn
     \/ /\ Running
        /\ \E executed, ok \in BOOLEAN :
             /\ Command(executed, ok)
             /\ GoTo("deactivate") \/ (~ok /\ Fail)
  /\ UNCHANGED <<iCS, ns3>>

ClearAlways(ok) == {}         \* mutants of StillPending
ClearNever(ok) == pending
StillPending(ok) == IF ok THEN {} ELSE pending

FirstOnly == ns3Active \ {CHOOSE i \in pending : TRUE}    \* mutant of Deactivated
Deactivated == ns3Active \ pending

\* UpdatePositionsInNs3, first part: on failure the list is kept for the next
\* step and the run goes on.
DeactivateVehicles ==
  /\ In("deactivate")
  /\ IF pending = {}
     THEN UNCHANGED <<pending, conn, ns3Active>>
     ELSE \E executed, ok \in BOOLEAN :
            /\ Command(executed, ok)
            /\ ns3Active' = IF executed THEN Deactivated ELSE ns3Active
            /\ pending' = StillPending(ok)
  /\ GoTo("update")
  /\ UNCHANGED <<nodes, entering, toActivate, moved, m_idCounter, preAssigned,
                 ns3Time, ns3Count>>

\* Second part, and the end of the step.
UpdatePositions ==
  /\ In("update")
  /\ \/ /\ moved = {}
        /\ phase' = "ns3" /\ m_simStep' = m_simStep + 1
        /\ UNCHANGED <<result, moved, conn>>
     \/ /\ moved # {}
        /\ \E executed, ok \in BOOLEAN :
             /\ Command(executed, ok)
             /\ IF ok THEN /\ moved' = {}
                           /\ phase' = "ns3" /\ m_simStep' = m_simStep + 1
                           /\ UNCHANGED result
                      ELSE Fail /\ UNCHANGED moved
  /\ UNCHANGED <<nodes, pending, entering, toActivate, m_idCounter, preAssigned, ns3>>

Next ==
  \/ ReturnFromRun
  \/ SkipNs3
  \/ RunOneNs3TimeStep
  \/ GetDataFromNs3
  \/ RunOneSumoTimeStep
  \/ RunApplications
  \/ ScheduleV2xMessages
  \/ DeactivateVehicles
  \/ UpdatePositions

Spec == Init /\ [][Next]_vars

\* The loop is one thread and every call it makes returns.
FairSpec == Spec /\ WF_vars(Next)

-----------------------------------------------------------------------------
(* Properties.                                                             *)

Ns3Ids(N) == {n.ns3 : n \in N}

Vehicle == [ts : TsIds, ics : Nat, ns3 : Int]

\* Type invariant of the loop.
TypeOK ==
  /\ m_simStep \in 0 .. m_lastTimeStep + 1
  /\ phase \in Phases
  /\ result \in {"running", "ok", "failed"}
  /\ nodes \subseteq Vehicle
  /\ pending \subseteq Int
  /\ entering \subseteq TsIds
  /\ toActivate \subseteq TsIds
  /\ moved \subseteq TsIds
  /\ m_idCounter \in Nat
  /\ preAssigned \subseteq Nat
  /\ link \in {"up", "down"}
  /\ brokenAt \in Int
  /\ ns3Time \in Nat
  /\ ns3Count \in Nat
  /\ ns3Active \subseteq Nat

\* An active node of ns-3 is a vehicle of the iCS or one that left and is
\* still to be deactivated: no radio keeps sending for a vehicle nobody
\* remembers, whichever command was lost.
ActiveNodesTracked == ns3Active \subseteq Ns3Ids(nodes) \cup pending

\* While the connection holds, every step starts with the same vehicles in
\* the iCS and in ns-3, and nothing left to deactivate.
ActiveInSync ==
  (phase = "ns3" /\ link = "up") =>
    /\ pending = {}
    /\ ns3Active = Ns3Ids(nodes)

\* Two vehicles never share an ns-3 node, and a vehicle that left does not
\* share one with a vehicle that is there.
DistinctNs3Nodes ==
  \A n \in nodes : n.ns3 # NoNode =>
    /\ n.ns3 \notin pending
    /\ \A m \in nodes : m.ns3 = n.ns3 => m = n

\* "ns-3 time step is one step ahead" (RunOneNs3TimeStep): between its step
\* and the end of the iCS's step ns-3 is exactly one step ahead, and at the
\* start of the next one they meet.
Lockstep ==
  (m_simStep > m_firstTimeStep \/ (Running /\ phase # "ns3")) =>
    \/ ns3Time = m_simStep /\ (phase = "ns3" \/ result = "failed")
    \/ ns3Time = m_simStep + 1 /\ (phase # "ns3" \/ result = "failed")

\* After the connection to ns-3 is lost the run completes at most the step it
\* is in (or the steps before m_firstTimeStep, in which ns-3 does not run):
\* the ignored results of CommandCreateNode2, CommandActivateNode and
\* CommandDeactivateNode cannot hide the loss for longer.
LossStopsRun ==
  (link = "down" /\ m_simStep > brokenAt + 1 /\ m_simStep > m_firstTimeStep)
    => result # "running"

\* No two stations of the iCS have the same identifier: neither two vehicles,
\* nor a vehicle and a fixed station, nor a vehicle and the TMC, which is 0.
UniqueIcsIds ==
  /\ \A n \in nodes : n.ics \notin FixedIds \cup {0}
  /\ \A m, n \in nodes : m.ics = n.ics => m = n

\* The radios of vehicles that left are eventually off, all of them at once,
\* unless the connection is lost or the run fails first.
Orphans == ns3Active \ Ns3Ids(nodes)

DeparturesDeactivated ==
  (Orphans # {} /\ link = "up") ~>
    (Orphans = {} \/ link = "down" \/ result = "failed")

=============================================================================
