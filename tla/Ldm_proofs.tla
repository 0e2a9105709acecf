----------------------------- MODULE Ldm_proofs -----------------------------
(***************************************************************************)
(* Proofs about the message store, for every value of its constants.       *)
(***************************************************************************)
EXTENDS Ldm, SequenceTheorems, TLAPS

-----------------------------------------------------------------------------
(* Facts about the operators of the store.                                 *)

LEMMA TimesAreSequence ==
  ASSUME NEW k \in Nat, NEW t \in Int
  PROVE  [i \in 1 .. k |-> t] \in Seq(Int)
BY IsASeq

LEMMA RelStationsType ==
  ASSUME NEW given \in [Stations -> Nat], NEW kind, NEW inside, TypeOK
  PROVE  relStations(given, kind, inside) \in [Stations -> Nat]
<1> USE LdmAssumption
<1>1. ofRelevantType(given) \in [Stations -> Nat]
  BY DEF ofRelevantType
<1>2. \A g \in [Stations -> Nat] : inRelevantArea(g) \in [Stations -> Nat]
  <2> SUFFICES ASSUME NEW g \in [Stations -> Nat], NEW s \in Stations
               PROVE  g[s] * areaHits[s] \in Nat
    BY DEF inRelevantArea
  <2>1. g[s] \in Nat /\ areaHits[s] \in Nat
    BY DEF TypeOK
  <2> QED BY <2>1
<1>3. \A g \in [Stations -> Nat] : onRelevantDirection(g) \in [Stations -> Nat]
  BY DEF onRelevantDirection
<1>4. \A g \in [Stations -> Nat] : inGeocastArea(g, kind, inside) \in [Stations -> Nat]
  BY DEF inGeocastArea
<1> QED BY <1>1, <1>2, <1>3, <1>4 DEF relStations

LEMMA ReceivedAgainType ==
  ASSUME NEW msg \in Message, NEW rel \in [Stations -> Nat], TypeOK
  PROVE  receivedAgain(msg, rel) \in Message
<1>1. ASSUME NEW s \in Stations
      PROVE  msg.receptions[s] \o [i \in 1 .. rel[s] |-> simTime] \in Seq(Int)
  <2>1. msg.receptions[s] \in Seq(Int)
    BY DEF Message
  <2>2. [i \in 1 .. rel[s] |-> simTime] \in Seq(Int)
    BY TimesAreSequence DEF TypeOK
  <2> QED BY <2>1, <2>2, ConcatProperties
<1>2. [s \in Stations |-> msg.receptions[s] \o [i \in 1 .. rel[s] |-> simTime]]
        \in [Stations -> Seq(Int)]
  BY <1>1
<1> QED BY <1>2 DEF receivedAgain, Message

LEMMA VectorsAreCounts == Vectors \subseteq [Stations -> Nat]
BY LdmAssumption DEF Vectors

LEMMA NewSeqNoType ==
  ASSUME NEW s \in Stations, TypeOK
  PROVE  getNewSeqNo(s) \in 0 .. SeqMod - 1
<1> USE LdmAssumption
<1>1. CASE s \in DOMAIN stationsSeqNoRecord
  <2>1. stationsSeqNoRecord[s] + 1 \in Nat
    BY <1>1 DEF TypeOK
  <2>2. (stationsSeqNoRecord[s] + 1) % SeqMod \in 0 .. SeqMod - 1
    BY <2>1
  <2> QED BY <1>1, <2>2 DEF getNewSeqNo
<1>2. CASE s \notin DOMAIN stationsSeqNoRecord
  BY <1>2 DEF getNewSeqNo
<1> QED BY <1>1, <1>2

-----------------------------------------------------------------------------
(* Type correctness.                                                       *)

LEMMA InitTypeOK == Init => TypeOK
BY LdmAssumption DEF Init, TypeOK, EmptyTable, FirstClock, ActionIDs

LEMMA CreateTypeOK ==
  ASSUME TypeOK, NEW s \in Stations, NEW kind \in KindNames, NEW expiry \in Int,
         createPayload(s, kind, expiry)
  PROVE  TypeOK'
<1> USE LdmAssumption
<1> DEFINE n == getNewSeqNo(s)
           msg == [kind |-> kind, expiry |-> expiry, receptions |-> NoReceptions]
<1>1. n \in 0 .. SeqMod - 1
  BY NewSeqNoType
<1>2. <<s, n>> \in ActionIDs
  BY <1>1 DEF ActionIDs
<1>3. msg \in Message
  BY EmptySeq DEF Message, NoReceptions
<1>4. DOMAIN iFPT' \subseteq ActionIDs /\ iFPT' \in [DOMAIN iFPT' -> Message]
  BY <1>2, <1>3 DEF TypeOK, createPayload, storePayload, Put
<1>5. /\ DOMAIN stationsSeqNoRecord' \subseteq Stations
      /\ stationsSeqNoRecord' \in [DOMAIN stationsSeqNoRecord' -> 0 .. SeqMod - 1]
  BY <1>1 DEF TypeOK, createPayload, Put
<1>6. created' \in [Stations -> Nat]
  BY DEF TypeOK, createPayload
<1> QED BY <1>4, <1>5, <1>6 DEF TypeOK, createPayload, world

LEMMA ScheduleTypeOK ==
  ASSUME TypeOK, NEW a \in ActionIDs, NEW t \in Int, scheduleMessageRemoval(a, t)
  PROVE  /\ DOMAIN eventList' \subseteq ActionIDs
         /\ eventList' \in [DOMAIN eventList' -> Int]
         /\ DOMAIN deletionList' \subseteq Int
         /\ deletionList' \in [DOMAIN deletionList' -> SUBSET ActionIDs]
<1>1. /\ DOMAIN eventList' \subseteq ActionIDs
      /\ eventList' \in [DOMAIN eventList' -> Int]
  BY DEF TypeOK, scheduleMessageRemoval, Put
<1>2. /\ DOMAIN withoutOld(a) \subseteq Int
      /\ withoutOld(a) \in [DOMAIN withoutOld(a) -> SUBSET ActionIDs]
  BY DEF TypeOK, withoutOld, Drop, Restrict, listsUnsynchronized, readsFreedVector
<1>3. ASSUME NEW list, DOMAIN list \subseteq Int,
             list \in [DOMAIN list -> SUBSET ActionIDs]
      PROVE  /\ DOMAIN withNew(list, a, t) \subseteq Int
             /\ withNew(list, a, t) \in [DOMAIN withNew(list, a, t) -> SUBSET ActionIDs]
  BY <1>3 DEF withNew, Put
<1> QED BY <1>1, <1>2, <1>3 DEF scheduleMessageRemoval

LEMMA KeepTypeOK ==
  ASSUME TypeOK, NEW a \in ActionIDs, NEW msg \in Message,
         NEW rel \in [Stations -> Nat], keepMessage(a, msg, rel)
  PROVE  TypeOK'
<1> USE LdmAssumption
<1>1. expiryMessageTime(msg) \in Int
  BY DEF expiryMessageTime, TypeOK, Message
<1>2. /\ DOMAIN eventList' \subseteq ActionIDs
      /\ eventList' \in [DOMAIN eventList' -> Int]
      /\ DOMAIN deletionList' \subseteq Int
      /\ deletionList' \in [DOMAIN deletionList' -> SUBSET ActionIDs]
  BY <1>1, ScheduleTypeOK DEF keepMessage
<1>3. DOMAIN iFMT' \subseteq ActionIDs /\ iFMT' \in [DOMAIN iFMT' -> Message]
  BY ReceivedAgainType DEF TypeOK, keepMessage, Put
<1>4. DOMAIN iFPT' \subseteq ActionIDs /\ iFPT' \in [DOMAIN iFPT' -> Message]
  BY DEF TypeOK, keepMessage, Drop, Restrict
<1>5. status' \in {"running", "aborted", "crashed"}
  BY DEF keepMessage, scheduleOutcomes
<1> QED BY <1>2, <1>3, <1>4, <1>5 DEF TypeOK, keepMessage, world

LEMMA ClockTypeOK ==
  ASSUME TypeOK, updateClock
  PROVE  TypeOK'
<1>1. simTime' \in Int
  BY DEF TypeOK, updateClock, NextClock
<1>2. /\ DOMAIN iFMT' \subseteq ActionIDs /\ iFMT' \in [DOMAIN iFMT' -> Message]
      /\ DOMAIN eventList' \subseteq ActionIDs
      /\ eventList' \in [DOMAIN eventList' -> Int]
  BY DEF TypeOK, updateClock, Drop, Restrict
<1>3. /\ DOMAIN deletionList' \subseteq Int
      /\ deletionList' \in [DOMAIN deletionList' -> SUBSET ActionIDs]
  BY DEF TypeOK, updateClock, Drop, Restrict
<1> QED BY <1>1, <1>2, <1>3 DEF TypeOK, updateClock, world

\* The three forms of a call of storeMessage that changes the state.
LEMMA StoreCases ==
  ASSUME TypeOK, NEW a \in ActionIDs, storeMessage(a)
  PROVE  \/ storeInBoth(a)
         \/ \E given \in Vectors : discardPayload(a, given)
         \/ \E rel \in [Stations -> Nat] :
              \/ /\ inFPT(a) /\ ~inFMT(a)
                 /\ iFPT[a] \in Message
                 /\ keepMessage(a, iFPT[a], rel)
              \/ /\ ~inFPT(a) /\ inFMT(a)
                 /\ iFMT[a] \in Message
                 /\ keepMessage(a, iFMT[a], rel)
<1>1. ASSUME NEW given \in Vectors, NEW inside, storePayloadReceived(a, given, inside)
      PROVE  \E rel \in [Stations -> Nat] :
               /\ inFPT(a) /\ ~inFMT(a)
               /\ iFPT[a] \in Message
               /\ keepMessage(a, iFPT[a], rel)
  <2>1. iFPT[a] \in Message
    BY <1>1 DEF storePayloadReceived, inFPT, TypeOK
  <2>2. relStations(given, iFPT[a].kind, inside) \in [Stations -> Nat]
    BY RelStationsType, VectorsAreCounts
  <2> QED BY <1>1, <2>1, <2>2 DEF storePayloadReceived
<1>2. ASSUME NEW given \in Vectors, NEW inside, addReceivers(a, given, inside)
      PROVE  \E rel \in [Stations -> Nat] :
               /\ ~inFPT(a) /\ inFMT(a)
               /\ iFMT[a] \in Message
               /\ keepMessage(a, iFMT[a], rel)
  <2>1. iFMT[a] \in Message
    BY <1>2 DEF addReceivers, inFMT, TypeOK
  <2>2. relStations(given, iFMT[a].kind, inside) \in [Stations -> Nat]
    BY RelStationsType, VectorsAreCounts
  <2> QED BY <1>2, <2>1, <2>2 DEF addReceivers
<1> QED BY <1>1, <1>2 DEF storeMessage

LEMMA StoreTypeOK ==
  ASSUME TypeOK, NEW a \in ActionIDs, storeMessage(a)
  PROVE  TypeOK'
<1>1. CASE storeInBoth(a)
  BY <1>1 DEF TypeOK, storeInBoth, world, tables
<1>2. ASSUME NEW given \in Vectors, discardPayload(a, given)
      PROVE  TypeOK'
  BY <1>2 DEF TypeOK, discardPayload, world, Drop, Restrict
<1>3. ASSUME NEW rel \in [Stations -> Nat], inFPT(a), iFPT[a] \in Message,
             keepMessage(a, iFPT[a], rel)
      PROVE  TypeOK'
  BY <1>3, KeepTypeOK
<1>4. ASSUME NEW rel \in [Stations -> Nat], inFMT(a), iFMT[a] \in Message,
             keepMessage(a, iFMT[a], rel)
      PROVE  TypeOK'
  BY <1>4, KeepTypeOK
<1> QED BY <1>1, <1>2, <1>3, <1>4, StoreCases

\* Every creation is a createPayload of a known kind.
LEMMA CreateCases ==
  ASSUME NEW s \in Stations,
         createCAMpayload(s) \/ createDENMpayload(s) \/ createApplicationMessagePayload(s)
  PROVE  \E kind \in KindNames, expiry \in Int : createPayload(s, kind, expiry)
BY LdmAssumption DEF createCAMpayload, createDENMpayload,
   createApplicationMessagePayload, KindNames

LEMMA MoveTypeOK ==
  ASSUME TypeOK, NEW s \in Stations, moveStation(s)
  PROVE  TypeOK'
BY LdmAssumption DEF TypeOK, moveStation, tables

LEMMA NextTypeOK == TypeOK /\ [Next]_vars => TypeOK'
<1> SUFFICES ASSUME TypeOK, [Next]_vars PROVE TypeOK'
  OBVIOUS
<1>1. CASE updateClock
  BY <1>1, ClockTypeOK
<1>2. ASSUME NEW s \in Stations,
             \/ createCAMpayload(s) \/ createDENMpayload(s)
             \/ createApplicationMessagePayload(s)
      PROVE  TypeOK'
  BY <1>2, CreateCases, CreateTypeOK
<1>3. ASSUME NEW s \in Stations, moveStation(s)
      PROVE  TypeOK'
  BY <1>3, MoveTypeOK
<1>4. ASSUME NEW a \in ActionIDs, storeMessage(a)
      PROVE  TypeOK'
  BY <1>4, StoreTypeOK
<1>5. CASE UNCHANGED vars
  BY <1>5 DEF TypeOK, vars
<1> QED BY <1>1, <1>2, <1>3, <1>4, <1>5 DEF Next

\* The state of the store is always of its type, in every build (LOG_ON or
\* not), under every relevance rule.
THEOREM TypeCorrect == Spec => []TypeOK
<1>1. Init => TypeOK
  BY InitTypeOK
<1>2. TypeOK /\ [Next]_vars => TypeOK'
  BY NextTypeOK
<1> QED BY <1>1, <1>2, PTL DEF Spec

-----------------------------------------------------------------------------
(* The deletion schedule.                                                  *)

Schedule == ListsSynchronized /\ StoredIffScheduled

\* Scheduling keeps the two lists inverse of each other.
LEMMA ScheduleSynchronized ==
  ASSUME TypeOK, ListsSynchronized, NEW a \in ActionIDs, NEW t \in Int,
         scheduleMessageRemoval(a, t)
  PROVE  ListsSynchronized'
<1> DEFINE old == withoutOld(a)
           others == DOMAIN eventList \ {a}
<1>1. \A b \in others : eventList[b] \in DOMAIN old
  BY DEF withoutOld, Drop, Restrict, listsUnsynchronized, readsFreedVector,
     ListsSynchronized
<1>2. \A u \in DOMAIN old : /\ old[u] # {}
                            /\ old[u] = {b \in others : eventList[b] = u}
  <2>1. CASE a \notin DOMAIN eventList
    BY <2>1 DEF withoutOld, ListsSynchronized
  <2>2. CASE a \in DOMAIN eventList /\ readsFreedVector(a)
    BY <2>2 DEF withoutOld, Drop, Restrict, readsFreedVector,
       listsUnsynchronized, ListsSynchronized
  <2>3. CASE a \in DOMAIN eventList /\ ~readsFreedVector(a)
    <3>1. eventList[a] \in DOMAIN deletionList /\ ~listsUnsynchronized(a)
      BY <2>3 DEF ListsSynchronized, listsUnsynchronized
    <3>2. old = [deletionList EXCEPT ![eventList[a]] = @ \ {a}]
      BY <2>3, <3>1 DEF withoutOld
    <3>3. deletionList[eventList[a]] # {a} /\ a \in deletionList[eventList[a]]
      BY <2>3, <3>1 DEF readsFreedVector, ListsSynchronized
    <3>4. deletionList = [u \in DOMAIN deletionList |-> deletionList[u]]
      BY DEF TypeOK
    <3> QED BY <2>3, <3>1, <3>2, <3>3, <3>4 DEF ListsSynchronized
  <2> QED BY <2>1, <2>2, <2>3
<1>3. eventList' = Put(eventList, a, t) /\ deletionList' = withNew(old, a, t)
  BY DEF scheduleMessageRemoval
<1>4. \A b \in DOMAIN eventList' : eventList'[b] \in DOMAIN deletionList'
  BY <1>1, <1>3 DEF Put, withNew
<1>5. ASSUME NEW u \in DOMAIN deletionList'
      PROVE  /\ deletionList'[u] # {}
             /\ deletionList'[u] = {b \in DOMAIN eventList' : eventList'[b] = u}
  <2>1. CASE u = t
    <3>1. deletionList'[t] = (IF t \in DOMAIN old THEN old[t] ELSE {}) \cup {a}
      BY <1>3 DEF Put, withNew
    <3>2. CASE t \in DOMAIN old
      BY <1>2, <1>3, <2>1, <3>1, <3>2 DEF Put
    <3>3. CASE t \notin DOMAIN old
      <4>1. \A b \in others : eventList[b] # t
        BY <1>1, <3>3
      <4> QED BY <1>3, <2>1, <3>1, <3>3, <4>1 DEF Put
    <3> QED BY <3>2, <3>3
  <2>2. CASE u # t
    <3>1. u \in DOMAIN old /\ deletionList'[u] = old[u]
      BY <1>3, <1>5, <2>2 DEF Put, withNew
    <3> QED BY <1>2, <1>3, <2>2, <3>1 DEF Put
  <2> QED BY <2>1, <2>2
<1> QED BY <1>4, <1>5 DEF ListsSynchronized

LEMMA KeepSchedule ==
  ASSUME TypeOK, Schedule, NEW a \in ActionIDs, NEW msg \in Message,
         NEW rel \in [Stations -> Nat], keepMessage(a, msg, rel)
  PROVE  Schedule'
<1>1. expiryMessageTime(msg) \in Int
  BY LdmAssumption DEF expiryMessageTime, TypeOK, Message
<1>2. ListsSynchronized'
  BY <1>1, ScheduleSynchronized DEF keepMessage, Schedule
<1>3. StoredIffScheduled'
  BY DEF keepMessage, scheduleMessageRemoval, Put, Schedule, StoredIffScheduled
<1> QED BY <1>2, <1>3 DEF Schedule

LEMMA ClockSchedule ==
  ASSUME TypeOK, Schedule, updateClock
  PROVE  Schedule'
<1> DEFINE now == NextClock(simTime)
<1>1. StoredIffScheduled'
  BY DEF updateClock, Drop, Restrict, Schedule, StoredIffScheduled
<1>2. CASE LogOn
  <2>1. deletionList' = [u \in DOMAIN deletionList \ {now} |-> deletionList[u]]
    BY <1>2 DEF updateClock, Drop, Restrict
  <2>2. eventList' = [b \in DOMAIN eventList \ dueAt(now) |-> eventList[b]]
    BY DEF updateClock, Drop, Restrict
  <2>3. dueAt(now) = {b \in DOMAIN eventList : eventList[b] = now}
    <3>1. CASE now \in DOMAIN deletionList
      BY <1>2, <3>1 DEF dueAt, Schedule, ListsSynchronized
    <3>2. CASE now \notin DOMAIN deletionList
      BY <1>2, <3>2 DEF dueAt, Schedule, ListsSynchronized
    <3> QED BY <3>1, <3>2
  <2>4. ListsSynchronized'
    BY <2>1, <2>2, <2>3 DEF Schedule, ListsSynchronized
  <2> QED BY <1>1, <2>4 DEF Schedule
<1>3. CASE ~LogOn
  <2>1. UNCHANGED deletionList
    BY <1>3 DEF updateClock
  <2>2. dueAt(now) = {}
    BY <1>3 DEF dueAt
  <2>3. eventList' = eventList
    BY <2>2 DEF updateClock, Drop, Restrict, TypeOK
  <2> QED BY <1>1, <2>1, <2>3 DEF Schedule, ListsSynchronized
<1> QED BY <1>2, <1>3

LEMMA NextSchedule == TypeOK /\ Schedule /\ [Next]_vars => Schedule'
<1> SUFFICES ASSUME TypeOK, Schedule, [Next]_vars PROVE Schedule'
  OBVIOUS
<1> USE DEF Schedule, ListsSynchronized, StoredIffScheduled
<1>1. CASE updateClock
  BY <1>1, ClockSchedule
<1>2. ASSUME NEW s \in Stations,
             \/ createCAMpayload(s) \/ createDENMpayload(s)
             \/ createApplicationMessagePayload(s)
      PROVE  Schedule'
  <2>1. PICK kind \in KindNames, expiry \in Int : createPayload(s, kind, expiry)
    BY <1>2, CreateCases
  <2> QED BY <2>1 DEF createPayload
<1>3. ASSUME NEW s \in Stations, moveStation(s)
      PROVE  Schedule'
  BY <1>3 DEF moveStation, tables
<1>4. ASSUME NEW a \in ActionIDs, storeMessage(a)
      PROVE  Schedule'
  <2>1. CASE storeInBoth(a)
    BY <2>1 DEF storeInBoth, tables
  <2>2. ASSUME NEW given \in Vectors, discardPayload(a, given)
        PROVE  Schedule'
    BY <2>2 DEF discardPayload
  <2>3. ASSUME NEW rel \in [Stations -> Nat], NEW msg \in Message,
               keepMessage(a, msg, rel)
        PROVE  Schedule'
    BY <2>3, KeepSchedule
  <2> QED BY <1>4, <2>1, <2>2, <2>3, StoreCases
<1>5. CASE UNCHANGED vars
  BY <1>5 DEF vars
<1> QED BY <1>1, <1>2, <1>3, <1>4, <1>5 DEF Next

\* Whatever the order of receptions and clean-ups, deletionList stays the
\* inverse of eventList, and exactly the stored messages are scheduled: the
\* abort of scheduleMessageRemoval is unreachable.
THEOREM ScheduleCorrect == Spec => [](ListsSynchronized /\ StoredIffScheduled)
<1>1. Init => Schedule
  BY DEF Init, Schedule, ListsSynchronized, StoredIffScheduled, EmptyTable
<1>2. TypeOK /\ Schedule /\ [Next]_vars => Schedule'
  BY NextSchedule
<1>3. Schedule <=> ListsSynchronized /\ StoredIffScheduled
  BY DEF Schedule
<1> QED BY <1>1, <1>2, <1>3, TypeCorrect, PTL DEF Spec

\* Whatever the order of receptions and clean-ups, exactly the messages of the
\* iFMT are scheduled for deletion: none is forgotten and none deleted twice.
THEOREM MessagesAreScheduled == Spec => []StoredIffScheduled
  BY ScheduleCorrect, PTL

-----------------------------------------------------------------------------
(* Deletion in time.  The clock goes from -1 to 1 and looks up no deletion *)
(* for 0, but nothing is stored before it shows 1.                         *)

Deadlines ==
  /\ simTime = FirstClock \/ simTime \in Nat \ {0}
  /\ simTime = FirstClock => DOMAIN iFMT = {}
  /\ \A a \in DOMAIN iFMT : iFMT[a].kind # "DENM" => eventList[a] > simTime

LEMMA ClockDeadlines ==
  ASSUME TypeOK, Schedule, Deadlines, LogOn, updateClock
  PROVE  Deadlines'
<1> DEFINE now == NextClock(simTime)
<1>1. now \in Nat \ {0}
  BY DEF NextClock, Deadlines, FirstClock
<1>2. simTime' = now
  BY DEF updateClock
<1>3. ASSUME NEW a \in DOMAIN iFMT', iFMT'[a].kind # "DENM"
      PROVE  eventList'[a] > now
  <2>1. a \in DOMAIN iFMT /\ iFMT[a].kind # "DENM" /\ a \notin dueAt(now)
    BY <1>3 DEF updateClock, Drop, Restrict
  <2>2. a \in DOMAIN eventList /\ eventList'[a] = eventList[a]
    BY <2>1 DEF Schedule, StoredIffScheduled, updateClock, Drop, Restrict
  <2>3. eventList[a] # now
    BY <2>1, <2>2 DEF dueAt, Schedule, ListsSynchronized
  <2>4. eventList[a] > simTime /\ simTime # FirstClock
    BY <2>1 DEF Deadlines
  <2>5. eventList[a] \in Int
    BY <2>2 DEF TypeOK
  <2> QED BY <2>2, <2>3, <2>4, <2>5 DEF NextClock, Deadlines, FirstClock
<1> QED BY <1>1, <1>2, <1>3 DEF Deadlines, FirstClock

LEMMA KeepDeadlines ==
  ASSUME TypeOK, Schedule, Deadlines, Life >= 1, simTime # FirstClock,
         NEW a \in ActionIDs, NEW msg \in Message, NEW rel, keepMessage(a, msg, rel)
  PROVE  Deadlines'
<1>1. UNCHANGED simTime
  BY DEF keepMessage
<1>2. ASSUME NEW b \in DOMAIN iFMT', iFMT'[b].kind # "DENM"
      PROVE  eventList'[b] > simTime
  <2>1. CASE b = a
    <3>1. iFMT'[b] = receivedAgain(msg, rel)
      BY <2>1 DEF keepMessage, Put
    <3>2. msg.kind # "DENM"
      BY <1>2, <3>1 DEF receivedAgain, Message
    <3>3. eventList'[b] = simTime + Life
      BY <2>1, <3>2 DEF keepMessage, scheduleMessageRemoval, expiryMessageTime, Put
    <3> QED BY <3>3, LdmAssumption DEF Deadlines, FirstClock
  <2>2. CASE b # a
    BY <1>2, <2>2 DEF keepMessage, scheduleMessageRemoval, Put, Deadlines, Schedule,
       StoredIffScheduled
  <2> QED BY <2>1, <2>2
<1> QED BY <1>1, <1>2 DEF Deadlines

LEMMA NextDeadlines ==
  ASSUME LogOn, Life >= 1
  PROVE  TypeOK /\ Schedule /\ Deadlines /\ [Next]_vars => Deadlines'
<1> SUFFICES ASSUME TypeOK, Schedule, Deadlines, [Next]_vars PROVE Deadlines'
  OBVIOUS
<1>1. CASE updateClock
  BY <1>1, ClockDeadlines
<1>2. ASSUME NEW s \in Stations,
             \/ createCAMpayload(s) \/ createDENMpayload(s)
             \/ createApplicationMessagePayload(s)
      PROVE  Deadlines'
  <2>1. PICK kind \in KindNames, expiry \in Int : createPayload(s, kind, expiry)
    BY <1>2, CreateCases
  <2> QED BY <2>1 DEF createPayload, Deadlines
<1>3. ASSUME NEW s \in Stations, moveStation(s)
      PROVE  Deadlines'
  BY <1>3 DEF moveStation, tables, Deadlines
<1>4. ASSUME NEW a \in ActionIDs, storeMessage(a)
      PROVE  Deadlines'
  <2>1. CASE storeInBoth(a)
    BY <2>1 DEF storeInBoth, tables, Deadlines
  <2>2. ASSUME NEW given \in Vectors, discardPayload(a, given)
        PROVE  Deadlines'
    BY <2>2 DEF discardPayload, Deadlines
  <2>3. ASSUME NEW rel \in [Stations -> Nat], NEW msg \in Message,
               keepMessage(a, msg, rel)
        PROVE  Deadlines'
    BY <1>4, <2>3, KeepDeadlines DEF storeMessage
  <2> QED BY <1>4, <2>1, <2>2, <2>3, StoreCases
<1>5. CASE UNCHANGED vars
  BY <1>5 DEF vars, Deadlines
<1> QED BY <1>1, <1>2, <1>3, <1>4, <1>5 DEF Next

\* In a LOG_ON build with a life interval of at least one step, no message
\* outlives its deletion time.
THEOREM DeletedInTime ==
  ASSUME LogOn, Life >= 1
  PROVE  Spec => []NothingOverdue
<1>1. Init => Deadlines
  BY DEF Init, Deadlines, EmptyTable
<1>2. TypeOK /\ Schedule /\ Deadlines /\ [Next]_vars => Deadlines'
  BY NextDeadlines
<1>3. Deadlines => NothingOverdue
  BY DEF Deadlines, NothingOverdue
<1>4. ListsSynchronized /\ StoredIffScheduled => Schedule
  BY DEF Schedule
<1> QED BY <1>1, <1>2, <1>3, <1>4, TypeCorrect, ScheduleCorrect, PTL DEF Spec

-----------------------------------------------------------------------------
(* The life of a message is counted from its last reception.  For that,    *)
(* receptions lie in the past and a fresh payload has none.                *)

LEMMA ReceivedAgainTimes ==
  ASSUME TypeOK, NEW msg \in Message, NEW rel \in [Stations -> Nat], NEW s \in Stations
  PROVE  LET old == msg.receptions[s]
             new == receivedAgain(msg, rel).receptions[s]
         IN  /\ Len(old) \in Nat
             /\ Len(new) = Len(old) + rel[s]
             /\ \A i \in 1 .. Len(new) :
                  new[i] = IF i <= Len(old) THEN old[i] ELSE simTime
<1> DEFINE old == msg.receptions[s]
           add == [i \in 1 .. rel[s] |-> simTime]
<1>1. old \in Seq(Int)
  BY DEF Message
<1>2. add \in Seq(Int)
  BY TimesAreSequence DEF TypeOK
<1>3. rel[s] \in Nat
  OBVIOUS
<1>4. Len(add) = rel[s]
  BY <1>2, <1>3, LenProperties
<1>5. receivedAgain(msg, rel).receptions[s] = old \o add
  BY DEF receivedAgain, Message
<1>6. Len(old \o add) = Len(old) + rel[s] /\ Len(old) \in Nat
  BY <1>1, <1>2, <1>4, LenProperties, ConcatProperties
<1>7. ASSUME NEW i \in 1 .. Len(old \o add)
      PROVE  (old \o add)[i] = IF i <= Len(old) THEN old[i] ELSE simTime
  <2>1. (old \o add)[i] = IF i <= Len(old) THEN old[i] ELSE add[i - Len(old)]
    BY <1>1, <1>2, ConcatProperties
  <2>2. i > Len(old) => i - Len(old) \in 1 .. rel[s]
    BY <1>3, <1>6
  <2> QED BY <2>1, <2>2, <1>6
<1> QED BY <1>5, <1>6, <1>7

NoneAfter(msg, t) ==
  \A s \in Stations : \A i \in 1 .. Len(msg.receptions[s]) : msg.receptions[s][i] <= t

SomeAt(msg, t) ==
  \E s \in Stations : \E i \in 1 .. Len(msg.receptions[s]) : msg.receptions[s][i] = t

CountedLife ==
  /\ \A a \in DOMAIN iFMT : NoneAfter(iFMT[a], simTime)
  /\ \A a \in DOMAIN iFMT : iFMT[a].kind # "DENM" =>
       NoneAfter(iFMT[a], eventList[a] - Life) /\ SomeAt(iFMT[a], eventList[a] - Life)
  /\ \A a \in DOMAIN iFPT : iFPT[a].receptions = NoReceptions

LEMMA KeepCounted ==
  ASSUME TypeOK, Schedule, CountedLife, NEW a \in ActionIDs, NEW msg \in Message,
         NEW rel \in [Stations -> Nat], keepMessage(a, msg, rel), NoneAfter(msg, simTime)
  PROVE  CountedLife'
<1> DEFINE kept == receivedAgain(msg, rel)
<1>1. /\ simTime' = simTime /\ simTime \in Int
      /\ iFMT' = Put(iFMT, a, kept)
      /\ eventList' = Put(eventList, a, expiryMessageTime(msg))
      /\ iFPT' = Drop(iFPT, {a})
  BY DEF keepMessage, scheduleMessageRemoval, TypeOK
<1>2. NoneAfter(kept, simTime)
  <2> SUFFICES ASSUME NEW s \in Stations, NEW i \in 1 .. Len(kept.receptions[s])
               PROVE  kept.receptions[s][i] <= simTime
    BY DEF NoneAfter
  <2>1. /\ Len(msg.receptions[s]) \in Nat
        /\ kept.receptions[s][i] =
             IF i <= Len(msg.receptions[s]) THEN msg.receptions[s][i] ELSE simTime
    BY ReceivedAgainTimes
  <2>2. CASE i <= Len(msg.receptions[s])
    <3>1. i \in 1 .. Len(msg.receptions[s])
      BY <2>1, <2>2
    <3> QED BY <2>1, <2>2, <3>1 DEF NoneAfter
  <2>3. CASE ~(i <= Len(msg.receptions[s]))
    BY <1>1, <2>1, <2>3
  <2> QED BY <2>2, <2>3
<1>3. SomeAt(kept, simTime)
  <2>1. PICK s \in Stations : rel[s] # 0
    BY DEF keepMessage, IsEmpty
  <2> DEFINE n == Len(msg.receptions[s]) + 1
  <2>2. /\ Len(msg.receptions[s]) \in Nat
        /\ Len(kept.receptions[s]) = Len(msg.receptions[s]) + rel[s]
    BY ReceivedAgainTimes
  <2>3. rel[s] \in Nat \ {0}
    BY <2>1
  <2>4. n \in 1 .. Len(kept.receptions[s]) /\ ~(n <= Len(msg.receptions[s]))
    BY <2>2, <2>3
  <2>5. kept.receptions[s][n] = simTime
    BY <2>4, ReceivedAgainTimes
  <2> QED BY <2>4, <2>5 DEF SomeAt
<1>4. kept.kind = msg.kind
  BY DEF receivedAgain, Message
<1>5. kept.kind # "DENM" => expiryMessageTime(msg) - Life = simTime
  BY <1>1, <1>4, LdmAssumption DEF expiryMessageTime
<1> HIDE DEF kept
<1>6. ASSUME NEW b \in DOMAIN iFMT'
      PROVE  /\ NoneAfter(iFMT'[b], simTime)
             /\ iFMT'[b].kind # "DENM" =>
                  /\ NoneAfter(iFMT'[b], eventList'[b] - Life)
                  /\ SomeAt(iFMT'[b], eventList'[b] - Life)
  <2>1. CASE b = a
    <3>1. iFMT'[b] = kept /\ eventList'[b] = expiryMessageTime(msg)
      BY <1>1, <2>1 DEF Put
    <3> QED BY <3>1, <1>2, <1>3, <1>5
  <2>2. CASE b # a
    <3>1. b \in DOMAIN iFMT /\ iFMT'[b] = iFMT[b]
      BY <1>1, <2>2 DEF Put
    <3>2. iFMT[b].kind # "DENM" => eventList'[b] = eventList[b]
      BY <1>1, <2>2, <3>1 DEF Put, Schedule, StoredIffScheduled
    <3> QED BY <3>1, <3>2 DEF CountedLife
  <2> QED BY <2>1, <2>2
<1>7. \A b \in DOMAIN iFPT' : iFPT'[b].receptions = NoReceptions
  BY <1>1 DEF Drop, Restrict, CountedLife
<1> QED BY <1>1, <1>6, <1>7 DEF CountedLife, NoneAfter, SomeAt

LEMMA ClockCounted ==
  ASSUME TypeOK, Schedule, CountedLife, updateClock
  PROVE  CountedLife'
<1>1. simTime \in Int /\ simTime' \in Int /\ simTime < simTime'
  BY DEF updateClock, NextClock, FirstClock, TypeOK
<1>2. ASSUME NEW a \in DOMAIN iFMT'
      PROVE  /\ a \in DOMAIN iFMT /\ iFMT'[a] = iFMT[a]
             /\ eventList'[a] = eventList[a]
  BY <1>2 DEF updateClock, Drop, Restrict, Schedule, StoredIffScheduled
<1>3. ASSUME NEW a \in DOMAIN iFMT'
      PROVE  NoneAfter(iFMT'[a], simTime')
  <2>1. SUFFICES ASSUME NEW s \in Stations, NEW i \in 1 .. Len(iFMT[a].receptions[s])
                 PROVE  iFMT[a].receptions[s][i] <= simTime'
    BY <1>2 DEF NoneAfter
  <2>2. iFMT[a].receptions[s] \in Seq(Int)
    BY <1>2 DEF TypeOK, Message
  <2>3. iFMT[a].receptions[s][i] \in Int
    BY <2>2, ElementOfSeq
  <2>4. iFMT[a].receptions[s][i] <= simTime
    BY <1>2 DEF CountedLife, NoneAfter
  <2> QED BY <1>1, <2>3, <2>4
<1>4. ASSUME NEW a \in DOMAIN iFMT', iFMT'[a].kind # "DENM"
      PROVE  /\ NoneAfter(iFMT'[a], eventList'[a] - Life)
             /\ SomeAt(iFMT'[a], eventList'[a] - Life)
  BY <1>2, <1>4 DEF CountedLife
<1>5. iFPT' = iFPT
  BY DEF updateClock
<1> QED BY <1>3, <1>4, <1>5 DEF CountedLife, NoneAfter, SomeAt

LEMMA NextCounted == TypeOK /\ Schedule /\ CountedLife /\ [Next]_vars => CountedLife'
<1> SUFFICES ASSUME TypeOK, Schedule, CountedLife, [Next]_vars PROVE CountedLife'
  OBVIOUS
<1>1. CASE updateClock
  BY <1>1, ClockCounted
<1>2. ASSUME NEW s \in Stations,
             \/ createCAMpayload(s) \/ createDENMpayload(s)
             \/ createApplicationMessagePayload(s)
      PROVE  CountedLife'
  <2>1. PICK kind \in KindNames, expiry \in Int : createPayload(s, kind, expiry)
    BY <1>2, CreateCases
  <2>2. \A b \in DOMAIN iFPT' : iFPT'[b].receptions = NoReceptions
    BY <2>1 DEF createPayload, storePayload, Put, CountedLife
  <2>3. UNCHANGED <<simTime, iFMT, eventList>>
    BY <2>1 DEF createPayload
  <2> QED BY <2>2, <2>3 DEF CountedLife, NoneAfter, SomeAt
<1>3. ASSUME NEW s \in Stations, moveStation(s)
      PROVE  CountedLife'
  BY <1>3 DEF moveStation, tables, CountedLife, NoneAfter, SomeAt
<1>4. ASSUME NEW a \in ActionIDs, storeMessage(a)
      PROVE  CountedLife'
  <2>1. CASE storeInBoth(a)
    BY <2>1 DEF storeInBoth, tables, CountedLife, NoneAfter, SomeAt
  <2>2. ASSUME NEW given \in Vectors, discardPayload(a, given)
        PROVE  CountedLife'
    BY <2>2 DEF discardPayload, Drop, Restrict, CountedLife, NoneAfter, SomeAt
  <2>3. ASSUME NEW rel \in [Stations -> Nat], inFPT(a), iFPT[a] \in Message,
               keepMessage(a, iFPT[a], rel)
        PROVE  CountedLife'
    <3>1. NoneAfter(iFPT[a], simTime)
      BY <2>3, EmptySeq DEF CountedLife, inFPT, NoReceptions, NoneAfter
    <3> QED BY <2>3, <3>1, KeepCounted
  <2>4. ASSUME NEW rel \in [Stations -> Nat], inFMT(a), iFMT[a] \in Message,
               keepMessage(a, iFMT[a], rel)
        PROVE  CountedLife'
    <3>1. NoneAfter(iFMT[a], simTime)
      BY <2>4 DEF CountedLife, inFMT
    <3> QED BY <2>4, <3>1, KeepCounted
  <2> QED BY <1>4, <2>1, <2>2, <2>3, <2>4, StoreCases
<1>5. CASE UNCHANGED vars
  BY <1>5 DEF vars, tables, CountedLife, NoneAfter, SomeAt
<1> QED BY <1>1, <1>2, <1>3, <1>4, <1>5 DEF Next

\* A message of any kind but DENM is deleted one life interval after its last
\* reception: scheduleMessageRemoval leaves no older deletion time behind.
THEOREM LifeCounted == Spec => []LifeFromLastReception
<1>1. Init => CountedLife
  BY DEF Init, CountedLife, EmptyTable
<1>2. TypeOK /\ Schedule /\ CountedLife /\ [Next]_vars => CountedLife'
  BY NextCounted
<1>3. CountedLife => LifeFromLastReception
  BY DEF CountedLife, NoneAfter, SomeAt, LifeFromLastReception
<1>4. Schedule <=> ListsSynchronized /\ StoredIffScheduled
  BY DEF Schedule
<1> QED BY <1>1, <1>2, <1>3, <1>4, TypeCorrect, ScheduleCorrect, PTL DEF Spec

-----------------------------------------------------------------------------
(* Only relevant receptions are stored.                                    *)

KindsRelevant == \A a \in DOMAIN iFMT : iFMT[a].kind \in RelevantKinds

RelevantOnly(a, s) ==
  NewReception(a, s) =>
    /\ s \in RelevantStations
    /\ NumAreas > 0 => areaHits[s] > 0
    /\ iFMT'[a].kind \in RelevantKinds

\* A receiver that the filters keep is a relevant station in a relevant area.
LEMMA FiltersAreRelevant ==
  ASSUME TypeOK, NEW given \in [Stations -> Nat], NEW kind, NEW inside,
         NEW s \in Stations, relStations(given, kind, inside)[s] # 0
  PROVE  s \in RelevantStations /\ (NumAreas > 0 => areaHits[s] > 0)
<1>1. areaHits[s] \in Nat /\ given[s] \in Nat /\ NumAreas \in Nat
  BY LdmAssumption DEF TypeOK
<1>2. relStations(given, kind, inside)[s] \in
        {0, inRelevantArea(ofRelevantType(given))[s]}
  BY DEF relStations, inGeocastArea, onRelevantDirection, isRelevantDirectionDefined
<1>3. inRelevantArea(ofRelevantType(given))[s] # 0
  BY <1>2
<1>4. ofRelevantType(given)[s] = IF s \in RelevantStations THEN given[s] ELSE 0
  BY DEF ofRelevantType
<1>5. inRelevantArea(ofRelevantType(given))[s] =
        IF NumAreas = 0 THEN ofRelevantType(given)[s]
        ELSE ofRelevantType(given)[s] * areaHits[s]
  BY DEF inRelevantArea
<1>6. s \in RelevantStations
  <2>1. SUFFICES ASSUME s \notin RelevantStations PROVE FALSE
    OBVIOUS
  <2>2. 0 * areaHits[s] = 0
    BY <1>1
  <2> QED BY <2>1, <2>2, <1>3, <1>4, <1>5
<1>7. NumAreas > 0 => areaHits[s] > 0
  <2>1. SUFFICES ASSUME NumAreas > 0, areaHits[s] = 0 PROVE FALSE
    BY <1>1
  <2>2. given[s] * 0 = 0
    BY <1>1
  <2> QED BY <2>1, <2>2, <1>1, <1>3, <1>4, <1>5, <1>6
<1> QED BY <1>6, <1>7

LEMMA KeepRelevant ==
  ASSUME TypeOK, KindsRelevant, NEW b \in ActionIDs, NEW msg \in Message,
         msg.kind \in RelevantKinds, NEW given \in [Stations -> Nat], NEW inside,
         keepMessage(b, msg, relStations(given, msg.kind, inside)),
         IF b \in DOMAIN iFMT THEN msg = iFMT[b] ELSE msg.receptions = NoReceptions
  PROVE  KindsRelevant' /\ \A a \in ActionIDs : \A s \in Stations : RelevantOnly(a, s)
<1> DEFINE rel == relStations(given, msg.kind, inside)
           kept == receivedAgain(msg, rel)
<1>1. iFMT' = Put(iFMT, b, kept)
  BY DEF keepMessage
<1>2. kept.kind = msg.kind
  BY DEF receivedAgain, Message
<1>3. rel \in [Stations -> Nat]
  BY RelStationsType
<1> HIDE DEF rel
<1>4. ASSUME NEW s \in Stations
      PROVE  /\ Len(msg.receptions[s]) \in Nat /\ rel[s] \in Nat
             /\ Len(kept.receptions[s]) = Len(msg.receptions[s]) + rel[s]
  BY <1>3, ReceivedAgainTimes
<1> HIDE DEF kept
<1>5. KindsRelevant'
  BY <1>1, <1>2 DEF KindsRelevant, Put
<1>6. ASSUME NEW a \in ActionIDs, NEW s \in Stations, NewReception(a, s)
      PROVE  /\ s \in RelevantStations
             /\ NumAreas > 0 => areaHits[s] > 0
             /\ iFMT'[a].kind \in RelevantKinds
  <2>1. a \in DOMAIN iFMT'
    BY <1>6 DEF NewReception
  <2>2. a = b
    <3>1. SUFFICES ASSUME a # b PROVE FALSE
      OBVIOUS
    <3>2. a \in DOMAIN iFMT /\ iFMT'[a] = iFMT[a]
      BY <1>1, <2>1, <3>1 DEF Put
    <3>3. iFMT[a].receptions[s] \in Seq(Int)
      BY <3>2 DEF TypeOK, Message
    <3>4. Len(iFMT[a].receptions[s]) \in Nat
      BY <3>3, LenProperties
    <3> QED BY <1>6, <3>2, <3>4 DEF NewReception
  <2>3. iFMT'[a] = kept
    BY <1>1, <2>2 DEF Put
  <2>4. Len(NoReceptions[s]) = 0
    BY EmptySeq DEF NoReceptions
  <2>5. Len(kept.receptions[s]) > Len(msg.receptions[s])
    BY <1>6, <2>2, <2>3, <2>4 DEF NewReception
  <2>6. rel[s] # 0
    BY <1>4, <2>5
  <2>7. s \in RelevantStations /\ (NumAreas > 0 => areaHits[s] > 0)
    BY <2>6, FiltersAreRelevant DEF rel
  <2> QED BY <2>7, <2>3, <1>2
<1> QED BY <1>5, <1>6 DEF RelevantOnly

LEMMA SameTableRelevant ==
  ASSUME TypeOK, KindsRelevant,
         \A a \in DOMAIN iFMT' : a \in DOMAIN iFMT /\ iFMT'[a] = iFMT[a]
  PROVE  KindsRelevant' /\ \A a \in ActionIDs : \A s \in Stations : RelevantOnly(a, s)
<1>1. KindsRelevant'
  BY DEF KindsRelevant
<1>2. ASSUME NEW a \in ActionIDs, NEW s \in Stations, NewReception(a, s)
      PROVE  FALSE
  <2>1. a \in DOMAIN iFMT /\ iFMT'[a] = iFMT[a]
    BY <1>2 DEF NewReception
  <2>2. iFMT[a].receptions[s] \in Seq(Int)
    BY <2>1 DEF TypeOK, Message
  <2>3. Len(iFMT[a].receptions[s]) \in Nat
    BY <2>2, LenProperties
  <2> QED BY <1>2, <2>1, <2>3 DEF NewReception
<1> QED BY <1>1, <1>2 DEF RelevantOnly

LEMMA NextRelevant ==
  ASSUME TypeOK, CountedLife, KindsRelevant, [Next]_vars
  PROVE  KindsRelevant' /\ \A a \in ActionIDs : \A s \in Stations : RelevantOnly(a, s)
<1> DEFINE Goal == KindsRelevant' /\ \A a \in ActionIDs : \A s \in Stations : RelevantOnly(a, s)
<1>1. CASE updateClock
  BY <1>1, SameTableRelevant DEF updateClock, Drop, Restrict
<1>2. ASSUME NEW s \in Stations,
             \/ createCAMpayload(s) \/ createDENMpayload(s)
             \/ createApplicationMessagePayload(s)
      PROVE  Goal
  <2>1. PICK kind \in KindNames, expiry \in Int : createPayload(s, kind, expiry)
    BY <1>2, CreateCases
  <2> QED BY <2>1, SameTableRelevant DEF createPayload
<1>3. ASSUME NEW s \in Stations, moveStation(s)
      PROVE  Goal
  BY <1>3, SameTableRelevant DEF moveStation, tables
<1>4. ASSUME NEW b \in ActionIDs, storeMessage(b)
      PROVE  Goal
  <2>1. CASE storeInBoth(b)
    BY <2>1, SameTableRelevant DEF storeInBoth, tables
  <2>2. ASSUME NEW given \in Vectors, discardPayload(b, given)
        PROVE  Goal
    BY <2>2, SameTableRelevant DEF discardPayload
  <2>3. ASSUME NEW given \in Vectors, NEW inside, storePayloadReceived(b, given, inside)
        PROVE  Goal
    <3>1. iFPT[b] \in Message /\ iFPT[b].receptions = NoReceptions
      BY <2>3 DEF storePayloadReceived, inFPT, TypeOK, CountedLife
    <3>2. /\ iFPT[b].kind \in RelevantKinds /\ b \notin DOMAIN iFMT
          /\ keepMessage(b, iFPT[b], relStations(given, iFPT[b].kind, inside))
      BY <2>3 DEF storePayloadReceived, inFMT
    <3> QED BY <3>1, <3>2, KeepRelevant, VectorsAreCounts
  <2>4. ASSUME NEW given \in Vectors, NEW inside, addReceivers(b, given, inside)
        PROVE  Goal
    <3>1. /\ b \in DOMAIN iFMT /\ iFMT[b] \in Message
          /\ iFMT[b].kind \in RelevantKinds
      BY <2>4 DEF addReceivers, inFMT, TypeOK, KindsRelevant
    <3>2. keepMessage(b, iFMT[b], relStations(given, iFMT[b].kind, inside))
      BY <2>4 DEF addReceivers
    <3> QED BY <3>1, <3>2, KeepRelevant, VectorsAreCounts
  <2> QED BY <1>4, <2>1, <2>2, <2>3, <2>4 DEF storeMessage
<1>5. CASE UNCHANGED vars
  BY <1>5, SameTableRelevant DEF vars, tables
<1> QED BY <1>1, <1>2, <1>3, <1>4, <1>5 DEF Next

\* Whatever stations do between receptions, a reception is stored only for a
\* station and a kind that the rules select at that moment.
THEOREM OnlyRelevantStored == Spec => ReceiversRelevant
<1>1. Init => KindsRelevant /\ CountedLife
  BY DEF Init, KindsRelevant, CountedLife, EmptyTable
<1>2. TypeOK /\ CountedLife /\ KindsRelevant /\ [Next]_vars => KindsRelevant'
  BY NextRelevant
<1>3. TypeOK /\ CountedLife /\ KindsRelevant /\ [Next]_vars =>
        [\A a \in ActionIDs : \A s \in Stations : RelevantOnly(a, s)]_vars
  BY NextRelevant
<1>4. TypeOK /\ Schedule /\ CountedLife /\ [Next]_vars => CountedLife'
  BY NextCounted
<1>5. Schedule <=> ListsSynchronized /\ StoredIffScheduled
  BY DEF Schedule
<1>6. Spec => [][\A a \in ActionIDs : \A s \in Stations : RelevantOnly(a, s)]_vars
  BY <1>1, <1>2, <1>3, <1>4, <1>5, TypeCorrect, ScheduleCorrect, PTL DEF Spec
<1> QED BY <1>6 DEF ReceiversRelevant, RelevantOnly

=============================================================================
