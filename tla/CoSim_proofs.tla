---------------------------- MODULE CoSim_proofs ----------------------------
(***************************************************************************)
(* Proofs about the co-simulation loop, for every set of vehicles, every   *)
(* assignment of identifiers and every first and last step.                *)
(***************************************************************************)
EXTENDS CoSim, FiniteSetTheorems, TLAPS

-----------------------------------------------------------------------------
(* Facts about commands and steps.                                         *)

\* The client reads an answer only of a command that ns-3 executed, over a
\* connection that is still there.
LEMMA AnsweredMeansExecuted ==
  ASSUME NEW executed \in BOOLEAN, NEW ok \in BOOLEAN, Command(executed, ok), ok
  PROVE  executed /\ link = "up" /\ UNCHANGED conn
BY DEF Command

\* A command that is not answered leaves the connection down.
LEMMA UnansweredMeansDown ==
  ASSUME NEW executed \in BOOLEAN, NEW ok \in BOOLEAN, Command(executed, ok), ~ok
  PROVE  link' = "down"
BY DEF Command, conn

\* A command does not repair a connection.
LEMMA LinkStaysDown ==
  ASSUME NEW executed \in BOOLEAN, NEW ok \in BOOLEAN, Command(executed, ok)
  PROVE  /\ link' = "up" => link = "up" /\ executed /\ ok
         /\ link = "down" => UNCHANGED conn
         /\ link = "up" /\ link' = "down" => brokenAt' = m_simStep
BY DEF Command, conn

-----------------------------------------------------------------------------
(* Type correctness.  Past the phase "ns3" there is a step left to do, and *)
(* the pre-assigned identifiers are finitely many, so a free one is found. *)

TypeInv ==
  /\ TypeOK
  /\ link = "down" => brokenAt \in Nat
  /\ phase # "ns3" => m_simStep <= m_lastTimeStep
  /\ IsFiniteSet(preAssigned)

LEMMA InitTypeInv == Init => TypeInv
<1>1. Cardinality(FixedIds) \in Nat
  BY CoSimAssumption, FS_CardinalityType
<1> QED BY <1>1, CoSimAssumption DEF Init, TypeInv, TypeOK, Phases

LEMMA CommandTypes ==
  ASSUME TypeInv, NEW executed \in BOOLEAN, NEW ok \in BOOLEAN, Command(executed, ok)
  PROVE  link' \in {"up", "down"} /\ brokenAt' \in Int /\ (link' = "down" => brokenAt' \in Nat)
BY DEF Command, conn, TypeInv, TypeOK

LEMMA AssignedIdType ==
  ASSUME TypeInv, NEW ts \in TsIds, NEW id \in CandidateIds(ts), AssignId(ts, id)
  PROVE  id \in Nat /\ m_idCounter' \in Nat /\ preAssigned' \subseteq Nat /\ IsFiniteSet(preAssigned')
<1>1. Cardinality(preAssigned) \in Nat
  BY FS_CardinalityType DEF TypeInv
<1>2. id \in Nat
  BY <1>1, CoSimAssumption DEF CandidateIds, TypeInv, TypeOK
<1>3. IsFiniteSet(preAssigned \cup {id})
  BY FS_AddElement DEF TypeInv
<1>4. m_idCounter + 1 \in Nat /\ preAssigned \subseteq Nat /\ IsFiniteSet(preAssigned)
  BY DEF TypeInv, TypeOK
<1>5. CASE PredefId[ts] # 0
  <2>1. m_idCounter' = m_idCounter + 1 /\ preAssigned' = preAssigned \cup {id}
    BY <1>5 DEF AssignId
  <2> QED BY <2>1, <1>2, <1>3, <1>4
<1>6. CASE PredefId[ts] = 0
  <2>1. m_idCounter' = id /\ preAssigned' = preAssigned
    BY <1>6 DEF AssignId
  <2> QED BY <2>1, <1>2, <1>4
<1> QED BY <1>5, <1>6

LEMMA EnterTypeInv ==
  ASSUME TypeInv, NEW ts \in entering, EnterVehicle(ts)
  PROVE  TypeInv'
<1>0. ts \in TsIds
  BY DEF TypeInv, TypeOK
<1>1. PICK executed \in BOOLEAN, ok \in BOOLEAN, id \in CandidateIds(ts) :
        /\ AssignId(ts, id)
        /\ Command(executed, ok)
        /\ ns3Count' = IF executed THEN ns3Count + 1 ELSE ns3Count
        /\ nodes' = nodes \cup {[ts |-> ts, ics |-> id,
                                 ns3 |-> IF ok THEN NewNs3Id ELSE NoNode]}
  BY DEF EnterVehicle
<1>2. id \in Nat /\ m_idCounter' \in Nat /\ preAssigned' \subseteq Nat /\ IsFiniteSet(preAssigned')
  BY <1>0, <1>1, AssignedIdType
<1>3. link' \in {"up", "down"} /\ brokenAt' \in Int /\ (link' = "down" => brokenAt' \in Nat)
  BY <1>1, CommandTypes
<1>4. nodes' \subseteq Vehicle
  BY <1>0, <1>1, <1>2 DEF Vehicle, NewNs3Id, NoNode, TypeInv, TypeOK
<1>5. ns3Count' \in Nat
  BY <1>1 DEF TypeInv, TypeOK
<1> QED BY <1>0, <1>2, <1>3, <1>4, <1>5 DEF EnterVehicle, TypeInv, TypeOK

LEMMA StepTypeInv == TypeInv /\ [Next]_vars => TypeInv'
<1> SUFFICES ASSUME TypeInv, [Next]_vars PROVE TypeInv'
  OBVIOUS
<1> USE DEF TypeInv, TypeOK, In, GoTo, Fail, GoToIf, Phases, iCS, conn, ns3
<1>1. CASE ReturnFromRun
  BY <1>1 DEF ReturnFromRun
<1>2. CASE SkipNs3
  BY <1>2, CoSimAssumption DEF SkipNs3, LastStepDone
<1>3. CASE RunOneNs3TimeStep
  BY <1>3, CommandTypes, CoSimAssumption DEF RunOneNs3TimeStep, ns3timeStep, LastStepDone
<1>4. CASE GetDataFromNs3
  BY <1>4, CommandTypes DEF GetDataFromNs3
<1>5. CASE RunOneSumoTimeStep
  <2>1. CASE SumoFails
    BY <2>1 DEF SumoFails
  <2>2. ASSUME NEW arrived \in SUBSET Present,
               NEW departed \in SUBSET (TsIds \ (Present \ arrived)),
               LeaveVehicles(arrived, departed)
        PROVE  TypeInv'
    BY <2>2 DEF LeaveVehicles, Vehicle
  <2>3. ASSUME NEW ts \in entering, EnterVehicle(ts) PROVE TypeInv'
    BY <2>3, EnterTypeInv
  <2>4. ASSUME NEW ts \in entering, RejectVehicle(ts) PROVE TypeInv'
    BY <2>4 DEF RejectVehicle
  <2>5. ASSUME NEW movedNow \in SUBSET (Present \ toActivate), ActivateVehicles(movedNow)
        PROVE  TypeInv'
    BY <2>5, CommandTypes DEF ActivateVehicles, Present, Vehicle
  <2>6. CASE UpdateTrafficLights
    BY <2>6 DEF UpdateTrafficLights
  <2> QED BY <1>5, <2>1, <2>2, <2>3, <2>4, <2>5, <2>6 DEF RunOneSumoTimeStep
<1>6. CASE RunApplications
  BY <1>6 DEF RunApplications
<1>7. CASE ScheduleV2xMessages
  BY <1>7, CommandTypes DEF ScheduleV2xMessages
<1>8. CASE DeactivateVehicles
  BY <1>8, CommandTypes DEF DeactivateVehicles, Deactivated, StillPending
<1>9. CASE UpdatePositions
  BY <1>9, CommandTypes, CoSimAssumption DEF UpdatePositions
<1>10. CASE UNCHANGED vars
  BY <1>10 DEF vars
<1> QED BY <1>1, <1>2, <1>3, <1>4, <1>5, <1>6, <1>7, <1>8, <1>9, <1>10 DEF Next

LEMMA TypeInvHolds == Spec => []TypeInv
BY InitTypeInv, StepTypeInv, PTL DEF Spec

\* The variables of the loop keep their types, and the loop never starts a
\* step after m_lastTimeStep + 1 (SyncManager::Run).
THEOREM TypeCorrect == Spec => []TypeOK
<1>1. TypeInv => TypeOK
  BY DEF TypeInv
<1> QED BY <1>1, TypeInvHolds, PTL

-----------------------------------------------------------------------------
(* Active nodes of ns-3.                                                   *)

LEMMA StepTracked == TypeInv /\ ActiveNodesTracked /\ [Next]_vars => ActiveNodesTracked'
<1> SUFFICES ASSUME TypeInv, ActiveNodesTracked, [Next]_vars PROVE ActiveNodesTracked'
  OBVIOUS
<1> USE DEF ActiveNodesTracked, Ns3Ids
<1>1. ASSUME UNCHANGED <<nodes, pending, ns3Active>> PROVE ActiveNodesTracked'
  BY <1>1
<1>2. ASSUME NEW arrived \in SUBSET Present, NEW departed, LeaveVehicles(arrived, departed)
      PROVE  ActiveNodesTracked'
  BY <1>2 DEF LeaveVehicles, ns3
<1>3. ASSUME NEW ts \in entering, EnterVehicle(ts) PROVE ActiveNodesTracked'
  <2>1. nodes \subseteq nodes' /\ UNCHANGED <<pending, ns3Active>>
    BY <1>3 DEF EnterVehicle
  <2> QED BY <2>1
<1>4. ASSUME NEW movedNow, ActivateVehicles(movedNow) PROVE ActiveNodesTracked'
  <2>1. ns3Active' \subseteq ns3Active \cup {n.ns3 : n \in nodes}
    BY <1>4 DEF ActivateVehicles
  <2> QED BY <1>4, <2>1 DEF ActivateVehicles
<1>5. CASE DeactivateVehicles
  <2>1. CASE pending = {}
    BY <1>5, <2>1 DEF DeactivateVehicles
  <2>2. CASE pending # {}
    <3>1. PICK executed \in BOOLEAN, ok \in BOOLEAN :
            /\ Command(executed, ok)
            /\ ns3Active' = IF executed THEN Deactivated ELSE ns3Active
            /\ pending' = StillPending(ok)
      BY <1>5, <2>2 DEF DeactivateVehicles
    <3>2. CASE ok
      <4>1. ns3Active' = ns3Active \ pending
        BY <3>1, <3>2, AnsweredMeansExecuted DEF Deactivated
      <4> QED BY <4>1, <1>5 DEF DeactivateVehicles
    <3>3. CASE ~ok
      <4>1. ns3Active' \subseteq ns3Active /\ pending' = pending
        BY <3>1, <3>3 DEF Deactivated, StillPending
      <4> QED BY <4>1, <1>5 DEF DeactivateVehicles
    <3> QED BY <3>2, <3>3
  <2> QED BY <2>1, <2>2
<1>6. CASE ReturnFromRun \/ SkipNs3 \/ RunOneNs3TimeStep \/ GetDataFromNs3
           \/ RunApplications \/ ScheduleV2xMessages \/ UpdatePositions \/ UNCHANGED vars
  BY <1>6, <1>1 DEF ReturnFromRun, SkipNs3, RunOneNs3TimeStep, GetDataFromNs3,
     RunApplications, ScheduleV2xMessages, UpdatePositions, vars, iCS, ns3
<1>7. CASE RunOneSumoTimeStep
  <2>1. CASE SumoFails \/ UpdateTrafficLights
    BY <2>1, <1>1 DEF SumoFails, UpdateTrafficLights, iCS, ns3
  <2>2. ASSUME NEW ts \in entering, RejectVehicle(ts) PROVE ActiveNodesTracked'
    BY <2>2, <1>1 DEF RejectVehicle, iCS, ns3
  <2> QED BY <1>7, <1>2, <1>3, <1>4, <2>1, <2>2 DEF RunOneSumoTimeStep
<1> QED BY <1>5, <1>6, <1>7 DEF Next

\* No command of the loop that is lost leaves a radio on in ns-3 for a vehicle
\* that is neither there nor in m_vehiclesToBeDeactivated
\* (SyncManager::UpdatePositionsInNs3, CommandActivateNode).
THEOREM ActiveAlwaysTracked == Spec => []ActiveNodesTracked
<1>1. Init => ActiveNodesTracked
  BY DEF Init, ActiveNodesTracked
<1> QED BY <1>1, StepTracked, TypeInvHolds, PTL DEF Spec

-----------------------------------------------------------------------------
(* Nodes of ns-3.  Identifiers below ns3Count have been given, so the next *)
(* one is new; a vehicle that enters is not there yet.                     *)

GivenIds ==
  /\ \A n \in nodes : n.ns3 = NoNode \/ n.ns3 \in 0 .. ns3Count - 1
  /\ \A i \in pending : i = NoNode \/ i \in 0 .. ns3Count - 1

NodesInv ==
  /\ GivenIds
  /\ DistinctNs3Nodes
  /\ entering \cap Present = {}
  /\ phase # "enter" => toActivate = {}

LEMMA EnterNodesInv ==
  ASSUME TypeInv, NodesInv, NEW ts \in entering, EnterVehicle(ts)
  PROVE  NodesInv'
<1>1. PICK executed \in BOOLEAN, ok \in BOOLEAN, id \in CandidateIds(ts) :
        /\ Command(executed, ok)
        /\ ns3Count' = IF executed THEN ns3Count + 1 ELSE ns3Count
        /\ nodes' = nodes \cup {[ts |-> ts, ics |-> id,
                                 ns3 |-> IF ok THEN NewNs3Id ELSE NoNode]}
  BY DEF EnterVehicle
<1> DEFINE new == [ts |-> ts, ics |-> id, ns3 |-> IF ok THEN NewNs3Id ELSE NoNode]
<1>2. ns3Count \in Nat /\ ns3Count' \in {ns3Count, ns3Count + 1}
  BY <1>1 DEF TypeInv, TypeOK
<1>3. new.ns3 = NoNode \/ (new.ns3 = ns3Count /\ ns3Count' = ns3Count + 1)
  BY <1>1, AnsweredMeansExecuted DEF NewNs3Id
<1>4. pending' = pending /\ entering' = entering \ {ts} /\ phase' = "enter"
  BY DEF EnterVehicle, In
<1> HIDE DEF new
<1>5. nodes' = nodes \cup {new} /\ new.ts = ts
  BY <1>1 DEF new
<1>6. GivenIds'
  BY <1>2, <1>3, <1>4, <1>5 DEF GivenIds, NodesInv, NoNode
<1>7. DistinctNs3Nodes'
  BY <1>2, <1>3, <1>4, <1>5 DEF GivenIds, NodesInv, NoNode, DistinctNs3Nodes
<1>8. (entering \cap Present = {})'
  BY <1>4, <1>5 DEF NodesInv, Present
<1> QED BY <1>4, <1>6, <1>7, <1>8 DEF NodesInv

LEMMA StepNodesInv == TypeInv /\ NodesInv /\ [Next]_vars => NodesInv'
<1> SUFFICES ASSUME TypeInv, NodesInv, [Next]_vars PROVE NodesInv'
  OBVIOUS
<1>1. ASSUME UNCHANGED <<nodes, pending, entering, toActivate, ns3Count>>,
             phase # "enter" \/ phase' = "enter"
      PROVE  NodesInv'
  BY <1>1 DEF NodesInv, GivenIds, DistinctNs3Nodes, Present
<1>2. CASE RunOneSumoTimeStep
  <2>1. CASE SumoFails \/ UpdateTrafficLights
    BY <2>1, <1>1 DEF SumoFails, UpdateTrafficLights, In, GoTo, Fail, iCS, ns3
  <2>2. ASSUME NEW arrived \in SUBSET Present,
               NEW departed \in SUBSET (TsIds \ (Present \ arrived)),
               LeaveVehicles(arrived, departed)
        PROVE  NodesInv'
    <3>1. /\ nodes' = {n \in nodes : n.ts \notin arrived}
          /\ pending' = pending \cup {n.ns3 : n \in {m \in nodes : m.ts \in arrived}}
          /\ entering' = departed /\ toActivate' = {} /\ ns3Count' = ns3Count
      BY <2>2 DEF LeaveVehicles, NodesInv, In, ns3
    <3>2. GivenIds'
      BY <3>1 DEF NodesInv, GivenIds
    <3>3. DistinctNs3Nodes'
      BY <3>1 DEF NodesInv, DistinctNs3Nodes
    <3>4. (entering \cap Present = {})'
      BY <3>1 DEF Present
    <3> QED BY <3>1, <3>2, <3>3, <3>4 DEF NodesInv
  <2>3. ASSUME NEW ts \in entering, EnterVehicle(ts) PROVE NodesInv'
    BY <2>3, EnterNodesInv
  <2>4. ASSUME NEW ts, RejectVehicle(ts) PROVE NodesInv'
    BY <2>4, <1>1 DEF RejectVehicle, Fail, iCS, ns3
  <2>5. ASSUME NEW movedNow, ActivateVehicles(movedNow) PROVE NodesInv'
    BY <2>5 DEF ActivateVehicles, NodesInv, GivenIds, DistinctNs3Nodes, Present
  <2> QED BY <1>2, <2>1, <2>2, <2>3, <2>4, <2>5 DEF RunOneSumoTimeStep
<1>3. CASE DeactivateVehicles
  <2>1. pending' \subseteq pending /\ phase # "enter"
    BY <1>3 DEF DeactivateVehicles, StillPending, In
  <2> QED BY <1>3, <2>1 DEF DeactivateVehicles, NodesInv, GivenIds, DistinctNs3Nodes, Present
<1>4. CASE ReturnFromRun \/ SkipNs3 \/ RunOneNs3TimeStep \/ GetDataFromNs3
           \/ RunApplications \/ ScheduleV2xMessages \/ UpdatePositions
  BY <1>4, <1>1 DEF ReturnFromRun, SkipNs3, RunOneNs3TimeStep, GetDataFromNs3,
     RunApplications, ScheduleV2xMessages, UpdatePositions, In, iCS, ns3
<1>5. CASE UNCHANGED vars
  BY <1>5, <1>1 DEF vars, iCS, ns3
<1> QED BY <1>2, <1>3, <1>4, <1>5 DEF Next

LEMMA NodesInvHolds == Spec => []NodesInv
<1>1. Init => NodesInv
  BY DEF Init, NodesInv, GivenIds, DistinctNs3Nodes
<1> QED BY <1>1, StepNodesInv, TypeInvHolds, PTL DEF Spec

\* No two vehicles, there or gone, are the same ns-3 node, whichever creations
\* failed (VehicleNode::VehicleNode, CommandCreateNode2).
THEOREM Ns3NodesDistinct == Spec => []DistinctNs3Nodes
<1>1. NodesInv => DistinctNs3Nodes
  BY DEF NodesInv
<1> QED BY <1>1, NodesInvHolds, PTL

\* While no command was lost, the active nodes are the vehicles activated so far
\* and those that left in this step.
SyncInv ==
  link = "up" =>
    /\ \A n \in nodes : n.ns3 # NoNode
    /\ ns3Active = Ns3Ids({n \in nodes : n.ts \notin toActivate}) \cup pending
    /\ phase \in {"update", "ns3", "data", "sumo"} => pending = {}

LEMMA StepSyncInv == TypeInv /\ NodesInv /\ SyncInv /\ [Next]_vars => SyncInv'
<1> SUFFICES ASSUME TypeInv, NodesInv, SyncInv, [Next]_vars, link' = "up" PROVE SyncInv'
  BY DEF SyncInv
<1>1. ASSUME UNCHANGED <<nodes, pending, toActivate, ns3Active>>, link = "up",
             phase' \in {"update", "ns3", "data", "sumo"}
               => phase \in {"update", "ns3", "data", "sumo"}
      PROVE  SyncInv'
  BY <1>1 DEF SyncInv, Ns3Ids
<1>2. CASE RunOneSumoTimeStep
  <2>1. CASE SumoFails \/ UpdateTrafficLights
    BY <2>1, <1>1 DEF SumoFails, UpdateTrafficLights, In, GoTo, Fail, iCS, ns3, conn
  <2>2. ASSUME NEW arrived, NEW departed, LeaveVehicles(arrived, departed) PROVE SyncInv'
    <3>1. /\ nodes' = {n \in nodes : n.ts \notin arrived}
          /\ pending' = {n.ns3 : n \in {m \in nodes : m.ts \in arrived}}
          /\ toActivate = {} /\ toActivate' = {}
          /\ ns3Active' = {n.ns3 : n \in nodes}
          /\ phase' = "enter"
          /\ \A n \in nodes : n.ns3 # NoNode
      BY <2>2 DEF LeaveVehicles, SyncInv, NodesInv, Ns3Ids, In, GoTo, conn, ns3
    <3> QED BY <3>1 DEF SyncInv, Ns3Ids
  <2>3. ASSUME NEW ts \in entering, EnterVehicle(ts) PROVE SyncInv'
    <3>1. PICK executed \in BOOLEAN, ok \in BOOLEAN, id \in CandidateIds(ts) :
            /\ Command(executed, ok)
            /\ nodes' = nodes \cup {[ts |-> ts, ics |-> id,
                                     ns3 |-> IF ok THEN NewNs3Id ELSE NoNode]}
      BY <2>3 DEF EnterVehicle
    <3>2. link = "up" /\ ok
      BY <3>1, LinkStaysDown
    <3> DEFINE new == [ts |-> ts, ics |-> id, ns3 |-> ns3Count]
    <3>3. nodes' = nodes \cup {new} /\ new.ts = ts /\ new.ns3 = ns3Count
      BY <3>1, <3>2 DEF NewNs3Id
    <3> HIDE DEF new
    <3>4. /\ toActivate' = toActivate \cup {ts} /\ pending' = pending
          /\ ns3Active' = ns3Active /\ phase' = "enter"
      BY <2>3 DEF EnterVehicle, In
    <3>5. \A n \in nodes : n.ts # ts
      BY DEF NodesInv, Present
    <3>6. {n \in nodes' : n.ts \notin toActivate'} = {n \in nodes : n.ts \notin toActivate}
      BY <3>3, <3>4, <3>5
    <3>7. ns3Count # NoNode
      BY DEF NoNode, TypeInv, TypeOK
    <3> QED BY <3>2, <3>3, <3>4, <3>6, <3>7 DEF SyncInv, Ns3Ids
  <2>4. ASSUME NEW ts, RejectVehicle(ts) PROVE SyncInv'
    BY <2>4, <1>1 DEF RejectVehicle, Fail, iCS, ns3, conn
  <2>5. ASSUME NEW movedNow, ActivateVehicles(movedNow) PROVE SyncInv'
    <3>1. PICK executed \in BOOLEAN, ok \in BOOLEAN :
            /\ Command(executed, ok)
            /\ ns3Active' = IF executed
                 THEN ns3Active \cup ({n.ns3 : n \in {m \in nodes : m.ts \in toActivate}}
                                       \cap (0 .. ns3Count - 1))
                 ELSE ns3Active
      BY <2>5 DEF ActivateVehicles
    <3>2. link = "up" /\ executed
      BY <3>1, LinkStaysDown
    <3>3. \A n \in nodes : n.ns3 \in 0 .. ns3Count - 1
      BY <3>2 DEF SyncInv, NodesInv, GivenIds
    <3>4. ns3Active' = ns3Active \cup {n.ns3 : n \in {m \in nodes : m.ts \in toActivate}}
      BY <3>1, <3>2, <3>3
    <3>5. nodes' = nodes /\ pending' = pending /\ toActivate' = {} /\ phase' = "lights"
      BY <2>5 DEF ActivateVehicles, GoTo
    <3> QED BY <3>2, <3>4, <3>5 DEF SyncInv, Ns3Ids
  <2> QED BY <1>2, <2>1, <2>2, <2>3, <2>4, <2>5 DEF RunOneSumoTimeStep
<1>3. CASE DeactivateVehicles
  <2>1. /\ nodes' = nodes /\ toActivate' = {} /\ toActivate = {}
    BY <1>3 DEF DeactivateVehicles, NodesInv, In
  <2>2. CASE pending = {}
    BY <1>3, <2>1, <2>2 DEF DeactivateVehicles, SyncInv, Ns3Ids, conn
  <2>3. CASE pending # {}
    <3>1. PICK executed \in BOOLEAN, ok \in BOOLEAN :
            /\ Command(executed, ok)
            /\ ns3Active' = IF executed THEN Deactivated ELSE ns3Active
            /\ pending' = StillPending(ok)
      BY <1>3, <2>3 DEF DeactivateVehicles
    <3>2. link = "up" /\ ns3Active' = ns3Active \ pending /\ pending' = {}
      BY <3>1, LinkStaysDown DEF Deactivated, StillPending
    <3>3. \A n \in nodes : n.ns3 # NoNode /\ n.ns3 \notin pending
      BY <3>2 DEF SyncInv, NodesInv, DistinctNs3Nodes
    <3>4. ns3Active = {n.ns3 : n \in nodes} \cup pending
      BY <2>1, <3>2 DEF SyncInv, Ns3Ids
    <3> QED BY <2>1, <3>2, <3>3, <3>4 DEF SyncInv, Ns3Ids
  <2> QED BY <2>2, <2>3
<1>4. CASE ReturnFromRun \/ SkipNs3
  BY <1>4, <1>1 DEF ReturnFromRun, SkipNs3, In, GoTo, iCS, ns3, conn
<1>5. CASE RunOneNs3TimeStep
  BY <1>5, <1>1, LinkStaysDown DEF RunOneNs3TimeStep, In, iCS
<1>6. CASE GetDataFromNs3
  BY <1>6, <1>1, LinkStaysDown DEF GetDataFromNs3, In, iCS, ns3, conn
<1>7. CASE RunApplications
  BY <1>7, <1>1 DEF RunApplications, In, GoTo, Fail, iCS, ns3, conn
<1>8. CASE ScheduleV2xMessages
  BY <1>8, <1>1, LinkStaysDown DEF ScheduleV2xMessages, In, GoTo, Fail, iCS, ns3, conn
<1>9. CASE UpdatePositions
  BY <1>9, <1>1, LinkStaysDown DEF UpdatePositions, In, ns3, conn
<1>10. CASE UNCHANGED vars
  BY <1>10, <1>1 DEF vars, iCS, ns3, conn
<1> QED BY <1>2, <1>3, <1>4, <1>5, <1>6, <1>7, <1>8, <1>9, <1>10 DEF Next

\* Over a connection that holds, the iCS and ns-3 agree on their vehicles at the
\* start of every step (SyncManager::RunOneSumoTimeStep, UpdatePositionsInNs3).
THEOREM ActiveAlwaysInSync == Spec => []ActiveInSync
<1>1. Init => SyncInv
  BY DEF Init, SyncInv, Ns3Ids
<1>2. NodesInv /\ SyncInv => ActiveInSync
  BY DEF NodesInv, SyncInv, ActiveInSync, Ns3Ids
<1> QED BY <1>1, <1>2, StepSyncInv, NodesInvHolds, TypeInvHolds, PTL DEF Spec

-----------------------------------------------------------------------------
(* Time.                                                                   *)

LEMMA StepLockstep == TypeInv /\ Lockstep /\ [Next]_vars => Lockstep'
<1> SUFFICES ASSUME TypeInv, Lockstep, [Next]_vars PROVE Lockstep'
  OBVIOUS
<1>0. /\ m_simStep \in Int /\ ns3Time \in Int /\ m_firstTimeStep \in Int
      /\ result \in {"running", "ok", "failed"}
  BY CoSimAssumption DEF TypeInv, TypeOK
<1> USE <1>0 DEF Lockstep, Running, In, GoTo, Fail, GoToIf
<1>1. CASE ReturnFromRun
  BY <1>1 DEF ReturnFromRun, ns3
<1>2. CASE SkipNs3
  BY <1>2 DEF SkipNs3, ns3
<1>3. CASE RunOneNs3TimeStep
  <2>1. PICK executed \in BOOLEAN, ok \in BOOLEAN :
          /\ Command(executed, ok)
          /\ ns3Time' = IF executed THEN ns3timeStep ELSE ns3Time
          /\ GoToIf(ok, "data")
    BY <1>3 DEF RunOneNs3TimeStep
  <2>2. phase = "ns3" /\ result = "running" /\ m_simStep >= m_firstTimeStep
    BY <1>3 DEF RunOneNs3TimeStep
  <2>3. CASE ok
    BY <2>1, <2>2, <2>3, AnsweredMeansExecuted DEF ns3timeStep
  <2>4. CASE ~ok
    <3>1. result' = "failed" /\ phase' = "ns3" /\ m_simStep' = m_simStep
      BY <2>1, <2>2, <2>4
    <3>2. m_simStep > m_firstTimeStep => ns3Time = m_simStep
      BY <2>2
    <3>3. ns3Time' = m_simStep + 1 \/ ns3Time' = ns3Time
      BY <2>1 DEF ns3timeStep
    <3> QED BY <3>1, <3>2, <3>3
  <2> QED BY <2>3, <2>4
<1>4. CASE GetDataFromNs3
  BY <1>4 DEF GetDataFromNs3, ns3
<1>5. CASE RunOneSumoTimeStep
  <2>1. CASE SumoFails
    BY <2>1 DEF SumoFails, ns3
  <2>2. ASSUME NEW arrived, NEW departed, LeaveVehicles(arrived, departed) PROVE Lockstep'
    BY <2>2 DEF LeaveVehicles, ns3
  <2>3. ASSUME NEW ts, EnterVehicle(ts) \/ RejectVehicle(ts) PROVE Lockstep'
    BY <2>3 DEF EnterVehicle, RejectVehicle, ns3
  <2>4. ASSUME NEW movedNow, ActivateVehicles(movedNow) PROVE Lockstep'
    BY <2>4 DEF ActivateVehicles
  <2>5. CASE UpdateTrafficLights
    BY <2>5 DEF UpdateTrafficLights, ns3
  <2> QED BY <1>5, <2>1, <2>2, <2>3, <2>4, <2>5 DEF RunOneSumoTimeStep
<1>6. CASE RunApplications
  BY <1>6 DEF RunApplications, ns3
<1>7. CASE ScheduleV2xMessages
  BY <1>7 DEF ScheduleV2xMessages, ns3
<1>8. CASE DeactivateVehicles
  BY <1>8 DEF DeactivateVehicles
<1>9. CASE UpdatePositions
  BY <1>9 DEF UpdatePositions, ns3
<1>10. CASE UNCHANGED vars
  BY <1>10 DEF vars, ns3
<1> QED BY <1>1, <1>2, <1>3, <1>4, <1>5, <1>6, <1>7, <1>8, <1>9, <1>10 DEF Next

\* "ns-3 time step is one step ahead" (SyncManager::RunOneNs3TimeStep), and never
\* two, for every first and last step.
THEOREM AlwaysLockstep == Spec => []Lockstep
<1>1. Init => Lockstep
  BY CoSimAssumption DEF Init, Lockstep, Running
<1> QED BY <1>1, StepLockstep, TypeInvHolds, PTL DEF Spec

-----------------------------------------------------------------------------
(* Loss of the connection.                                                 *)

\* Strengthening of LossStopsRun: while the run goes on, the loss is of this
\* step, or ns-3 is still to be called for the first time after it.
LossNoticed ==
  (link = "down" /\ result = "running") =>
    /\ brokenAt <= m_simStep
    /\ \/ brokenAt = m_simStep
       \/ m_simStep < m_firstTimeStep
       \/ phase = "ns3" /\ (m_simStep = brokenAt + 1 \/ m_simStep <= m_firstTimeStep)

LEMMA StepLossNoticed == TypeInv /\ LossNoticed /\ [Next]_vars => LossNoticed'
<1> SUFFICES ASSUME TypeInv, LossNoticed, [Next]_vars PROVE LossNoticed'
  OBVIOUS
<1>0. /\ m_simStep \in Int /\ brokenAt \in Int /\ m_firstTimeStep \in Int
      /\ link \in {"up", "down"}
  BY CoSimAssumption DEF TypeInv, TypeOK
<1> USE <1>0 DEF LossNoticed, In, GoTo, Fail, GoToIf
<1>1. CASE ReturnFromRun
  BY <1>1 DEF ReturnFromRun
<1>2. CASE SkipNs3
  BY <1>2 DEF SkipNs3, Running, conn
<1>3. CASE RunOneNs3TimeStep
  <2>1. PICK executed \in BOOLEAN, ok \in BOOLEAN :
          Command(executed, ok) /\ GoToIf(ok, "data")
    BY <1>3 DEF RunOneNs3TimeStep
  <2>2. CASE ok
    BY <2>1, <2>2, AnsweredMeansExecuted DEF conn
  <2>3. CASE ~ok
    BY <2>1, <2>3
  <2> QED BY <2>2, <2>3
<1>4. CASE GetDataFromNs3
  BY <1>4, LinkStaysDown DEF GetDataFromNs3, conn
<1>5. CASE RunOneSumoTimeStep
  <2>1. CASE SumoFails
    BY <2>1 DEF SumoFails
  <2>2. ASSUME NEW arrived, NEW departed, LeaveVehicles(arrived, departed) PROVE LossNoticed'
    BY <2>2 DEF LeaveVehicles, conn
  <2>3. ASSUME NEW ts, EnterVehicle(ts) PROVE LossNoticed'
    <3>1. PICK executed \in BOOLEAN, ok \in BOOLEAN : Command(executed, ok)
      BY <2>3 DEF EnterVehicle
    <3> QED BY <2>3, <3>1, LinkStaysDown DEF EnterVehicle, conn
  <2>4. ASSUME NEW ts, RejectVehicle(ts) PROVE LossNoticed'
    BY <2>4 DEF RejectVehicle
  <2>5. ASSUME NEW movedNow, ActivateVehicles(movedNow) PROVE LossNoticed'
    BY <2>5, LinkStaysDown DEF ActivateVehicles, conn
  <2>6. CASE UpdateTrafficLights
    BY <2>6 DEF UpdateTrafficLights, conn
  <2> QED BY <1>5, <2>1, <2>2, <2>3, <2>4, <2>5, <2>6 DEF RunOneSumoTimeStep
<1>6. CASE RunApplications
  BY <1>6 DEF RunApplications, conn
<1>7. CASE ScheduleV2xMessages
  BY <1>7, LinkStaysDown DEF ScheduleV2xMessages, conn
<1>8. CASE DeactivateVehicles
  BY <1>8, LinkStaysDown DEF DeactivateVehicles, conn
<1>9. CASE UpdatePositions
  BY <1>9, LinkStaysDown DEF UpdatePositions, conn
<1>10. CASE UNCHANGED vars
  BY <1>10 DEF vars, conn
<1> QED BY <1>1, <1>2, <1>3, <1>4, <1>5, <1>6, <1>7, <1>8, <1>9, <1>10 DEF Next

\* A lost connection to ns-3 ends the run in the step after the loss, although
\* four of the commands have their result ignored (SyncManager::Run).
THEOREM LossAlwaysStopsRun == Spec => []LossStopsRun
<1>1. Init => LossNoticed
  BY DEF Init, LossNoticed
<1>2. TypeInv /\ LossNoticed => LossStopsRun
  BY CoSimAssumption DEF LossNoticed, LossStopsRun, TypeInv, TypeOK
<1> QED BY <1>1, <1>2, StepLossNoticed, TypeInvHolds, PTL DEF Spec

-----------------------------------------------------------------------------
(* Identifiers of the iCS.  Without predefined identifiers, those of the   *)
(* vehicles are at most the counter; predefined ones break this (run       *)
(* predef).                                                                *)

NoPredefinedIds == \A ts \in TsIds : PredefId[ts] = 0

BelowCounter ==
  /\ FixedIds \subseteq preAssigned
  /\ \A n \in nodes : n.ics <= m_idCounter
  /\ UniqueIcsIds

LEMMA StepBelowCounter ==
  ASSUME NoPredefinedIds
  PROVE  TypeInv /\ BelowCounter /\ [Next]_vars => BelowCounter'
<1> SUFFICES ASSUME TypeInv, BelowCounter, [Next]_vars PROVE BelowCounter'
  OBVIOUS
<1>1. ASSUME nodes' \subseteq nodes, UNCHANGED <<m_idCounter, preAssigned>>
      PROVE  BelowCounter'
  BY <1>1 DEF BelowCounter, UniqueIcsIds
<1>2. ASSUME NEW ts \in entering, EnterVehicle(ts) PROVE BelowCounter'
  <2>1. PICK id, n : /\ AssignId(ts, id)
                     /\ n.ics = id
                     /\ nodes' = nodes \cup {n}
    BY <1>2 DEF EnterVehicle
  <2>2. PredefId[ts] = 0
    BY DEF NoPredefinedIds, TypeInv, TypeOK
  <2>3. id >= m_idCounter + 1 /\ id \notin preAssigned /\ m_idCounter' = id
          /\ preAssigned' = preAssigned
    BY <2>1, <2>2 DEF AssignId
  <2>4. m_idCounter \in Nat /\ \A m \in nodes : m.ics \in Nat
    BY DEF TypeInv, TypeOK, Vehicle
  <2>5. id \in Nat
    <3>1. m_idCounter' \in Nat
      BY <1>2, EnterTypeInv DEF TypeInv, TypeOK
    <3> QED BY <2>3, <3>1
  <2>6. \A m \in nodes : m.ics < id
    BY <2>3, <2>4, <2>5 DEF BelowCounter
  <2> QED BY <2>1, <2>3, <2>4, <2>5, <2>6 DEF BelowCounter, UniqueIcsIds
<1>3. CASE RunOneSumoTimeStep
  <2>1. CASE SumoFails \/ UpdateTrafficLights
    BY <2>1, <1>1 DEF SumoFails, UpdateTrafficLights, iCS
  <2>2. ASSUME NEW arrived, NEW departed, LeaveVehicles(arrived, departed) PROVE BelowCounter'
    BY <2>2, <1>1 DEF LeaveVehicles
  <2>3. ASSUME NEW ts, RejectVehicle(ts) PROVE BelowCounter'
    BY <2>3, <1>1 DEF RejectVehicle, iCS
  <2>4. ASSUME NEW movedNow, ActivateVehicles(movedNow) PROVE BelowCounter'
    BY <2>4, <1>1 DEF ActivateVehicles
  <2> QED BY <1>3, <1>2, <2>1, <2>2, <2>3, <2>4 DEF RunOneSumoTimeStep
<1>4. CASE ReturnFromRun \/ SkipNs3 \/ RunOneNs3TimeStep \/ GetDataFromNs3
           \/ RunApplications \/ ScheduleV2xMessages \/ DeactivateVehicles
           \/ UpdatePositions \/ UNCHANGED vars
  BY <1>4, <1>1 DEF ReturnFromRun, SkipNs3, RunOneNs3TimeStep, GetDataFromNs3,
     RunApplications, ScheduleV2xMessages, DeactivateVehicles, UpdatePositions, vars, iCS
<1> QED BY <1>3, <1>4 DEF Next

\* When no vehicle has a predefined identifier, the counter that skips those of
\* the fixed stations (ITetrisNode::ITetrisNode) never gives one twice.
THEOREM CounterGivesUniqueIds == NoPredefinedIds => (Spec => []UniqueIcsIds)
<1> SUFFICES ASSUME NoPredefinedIds PROVE Spec => []UniqueIcsIds
  OBVIOUS
<1>1. Init => BelowCounter
  BY DEF Init, BelowCounter, UniqueIcsIds
<1>2. TypeInv /\ BelowCounter /\ [Next]_vars => BelowCounter'
  BY StepBelowCounter
<1>3. BelowCounter => UniqueIcsIds
  BY DEF BelowCounter
<1> QED BY <1>1, <1>2, <1>3, TypeInvHolds, PTL DEF Spec

=============================================================================
