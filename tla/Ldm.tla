-------------------------------- MODULE Ldm --------------------------------
(***************************************************************************)
(* The message store of the iCS facilities: class LDMLogic (iCS/src/ics/   *)
(* facilities/messageFacilities/LDMLogic.cpp).                             *)
(*                                                                         *)
(* A message is born as a payload in the iFPT (iTETRIS Facilities Payload  *)
(* Table) when the iCS orders a transmission, moves to the iFMT (Message   *)
(* Table) the first time ns-3 reports a relevant receiver, collects        *)
(* further receivers there, and is deleted when the clock reaches the time *)
(* kept for it in eventList; deletionList is the inverse of eventList.     *)
(*                                                                         *)
(* Data: an actionID is the pair <<station, sequence number>> (the code's  *)
(* string is the two numbers zero-padded to fixed widths that hold every   *)
(* value, so it is injective).  A receivers vector is the number of times  *)
(* each station occurs in it, and the list kept with a message is the      *)
(* sequence of reception times of each station: nothing in the store reads *)
(* the order of two different stations.                                    *)
(***************************************************************************)
EXTENDS Integers, Sequences, FiniteSets, Functions

CONSTANTS
  Stations,          \* stations known to StationFacilities
  Mobile,            \* those of type STATION_MOBILE
  Kinds,             \* kinds of message that are created, see KindNames
  RelevantKinds,     \* kinds the relevantMessages rule accepts
  RelevantStations,  \* stations the relevantStationTypes rule accepts
  NumAreas,          \* number of relevantArea entries; 0: no area rule
  DirectionRule,     \* the rules file defines a relevantDirection
  Life,              \* defaultMessageLifeInterval
  ExpiryTimes,       \* expiry times given to DENMs
  SeqMod,            \* USHRT_MAX
  LogOn,             \* the build defines LOG_ON
  Senders,           \* bound: the stations that send
  Receivers,         \* bound: the stations that receive
  MaxCreate,         \* bound: payloads a station creates
  MaxTime,           \* bound: the clock
  MaxCopies,         \* bound: occurrences of a station in a receivers vector
  MaxReceptions      \* bound: receptions of one message by one station

KindNames == {"CAM", "DENM", "APP", "GEO"}   \* GEO: GEOBROADCAST and the like

ASSUME LdmAssumption ==
  /\ Mobile \subseteq Stations
  /\ Kinds \subseteq KindNames
  /\ RelevantKinds \subseteq KindNames
  /\ RelevantStations \subseteq Stations
  /\ NumAreas \in Nat
  /\ DirectionRule \in BOOLEAN
  /\ Life \in Nat
  /\ ExpiryTimes \subseteq Int
  /\ SeqMod \in Nat \ {0}
  /\ LogOn \in BOOLEAN
  /\ Senders \subseteq Stations
  /\ Receivers \subseteq Stations
  /\ MaxCreate \in Nat
  /\ MaxTime \in Nat
  /\ MaxCopies \in Nat
  /\ MaxReceptions \in Nat

VARIABLES
  simTime,              \* the facilities' clock
  areaHits,             \* how many relevant areas each station is in
  inDirection,          \* mobile stations heading in the relevant direction
  stationsSeqNoRecord,  \* station -> last sequence number
  created,              \* history: payloads created by each station
  iFPT,                 \* actionID -> payload created, not yet received
  iFMT,                 \* actionID -> message received
  eventList,            \* actionID -> deletion time
  deletionList,         \* time -> actionIDs to delete
  status                \* "running", or how the process died

vars == <<simTime, areaHits, inDirection, stationsSeqNoRecord, created,
          iFPT, iFMT, eventList, deletionList, status>>

world == <<areaHits, inDirection>>
tables == <<iFPT, iFMT, eventList, deletionList>>

ActionIDs == Stations \X (0 .. SeqMod - 1)

Put(f, x, v) == [y \in DOMAIN f \cup {x} |-> IF y = x THEN v ELSE f[y]]
Drop(f, X) == Restrict(f, DOMAIN f \ X)
EmptyTable == [x \in {} |-> {}]

(***************************************************************************)
(* ICSFacilities is told the time -1 while the iCS is set up; the run then *)
(* starts at step 0 without telling it, and tells it 1, 2, ... at the end  *)
(* of each step: the clock never shows 0.                                  *)
(***************************************************************************)
FirstClock == -1
NextClock(t) == IF t = FirstClock THEN 1 ELSE t + 1

Init ==
  /\ simTime = FirstClock
  /\ areaHits \in [Stations -> 0 .. NumAreas]
  /\ inDirection \in IF DirectionRule THEN SUBSET Mobile ELSE {{}}
  /\ stationsSeqNoRecord = EmptyTable
  /\ created = [s \in Stations |-> 0]
  /\ iFPT = EmptyTable
  /\ iFMT = EmptyTable
  /\ eventList = EmptyTable
  /\ deletionList = EmptyTable
  /\ status = "running"

-----------------------------------------------------------------------------
(* Creation of payloads.                                                   *)

\* Mutants of getNewSeqNo: the number before the increment; no modulus.
LastSeqNo(s) == IF s \in DOMAIN stationsSeqNoRecord THEN stationsSeqNoRecord[s] ELSE 0
UnboundedSeqNo(s) ==
  IF s \in DOMAIN stationsSeqNoRecord THEN stationsSeqNoRecord[s] + 1 ELSE 0

\* getNewSeqNo: the first number is 0; the counter wraps below USHRT_MAX.
getNewSeqNo(s) ==
  IF s \in DOMAIN stationsSeqNoRecord
  THEN (stationsSeqNoRecord[s] + 1) % SeqMod
  ELSE 0

NoReceptions == [s \in Stations |-> <<>>]

\* storePayload: map::insert, which keeps what is there already.
storePayload(a, kind, expiry) ==
  iFPT' = IF a \in DOMAIN iFPT THEN iFPT
          ELSE Put(iFPT, a, [kind |-> kind, expiry |-> expiry,
                             receptions |-> NoReceptions])

createPayload(s, kind, expiry) ==
  /\ status = "running"
  /\ s \in Senders
  /\ created[s] < MaxCreate
  /\ kind \in Kinds
  /\ stationsSeqNoRecord' = Put(stationsSeqNoRecord, s, getNewSeqNo(s))
  /\ storePayload(<<s, getNewSeqNo(s)>>, kind, expiry)
  /\ created' = [created EXCEPT ![s] = @ + 1]
  /\ UNCHANGED <<simTime, world, iFMT, eventList, deletionList, status>>

createCAMpayload(s) == createPayload(s, "CAM", 0)

createDENMpayload(s) ==
  \E expiry \in ExpiryTimes : createPayload(s, "DENM", expiry)

createApplicationMessagePayload(s) ==
  \E kind \in {"APP", "GEO"} : createPayload(s, kind, 0)

-----------------------------------------------------------------------------
(* Relevance rules.  Each filter maps a receivers vector, given as the     *)
(* number of occurrences of each station, to another one.                  *)

\* getReceiversRelevantStations
ofRelevantType(given) ==
  [s \in Stations |-> IF s \in RelevantStations THEN given[s] ELSE 0]

AnyArea(given) == given    \* mutant of inRelevantArea

\* getReceiversInRelevantArea: one push_back for every area that matches.
inRelevantArea(given) ==
  [s \in Stations |-> IF NumAreas = 0 THEN given[s] ELSE given[s] * areaHits[s]]

\* configureRelevanceRules clears the flag, even when it reads a direction.
isRelevantDirectionDefined == FALSE

\* getReceiversOnRelevantDirection: the comparison with NAN holds always, so
\* every station is pushed, and a mobile one in the direction once more.
onRelevantDirection(given) ==
  [s \in Stations |->
     IF isRelevantDirectionDefined /\ s \in Mobile /\ s \in inDirection
     THEN 2 * given[s] ELSE given[s]]

\* getReceiversInGeocastArea, for the kinds that carry a destination area.
inGeocastArea(given, kind, inside) ==
  [s \in Stations |-> IF kind \in {"GEO", "DENM"} /\ s \notin inside
                      THEN 0 ELSE given[s]]

relStations(given, kind, inside) ==
  inGeocastArea(onRelevantDirection(inRelevantArea(ofRelevantType(given))),
                kind, inside)

IsEmpty(given) == \A s \in Stations : given[s] = 0

-----------------------------------------------------------------------------
(* scheduleMessageRemoval(a, t).                                           *)

listsUnsynchronized(a) ==
  /\ a \in DOMAIN eventList
  /\ eventList[a] \notin DOMAIN deletionList

\* The erase loop reads the vector after freeing it when a was alone in it.
readsFreedVector(a) ==
  /\ a \in DOMAIN eventList
  /\ eventList[a] \in DOMAIN deletionList
  /\ deletionList[eventList[a]] = {a}

OldKept(a) == deletionList    \* mutant of withoutOld

withoutOld(a) ==
  IF a \notin DOMAIN eventList \/ listsUnsynchronized(a) THEN deletionList
  ELSE IF readsFreedVector(a) THEN Drop(deletionList, {eventList[a]})
  ELSE [deletionList EXCEPT ![eventList[a]] = @ \ {a}]

withNew(list, a, t) ==
  Put(list, t, (IF t \in DOMAIN list THEN list[t] ELSE {}) \cup {a})

ScheduleOnce(a, t) ==    \* mutant of scheduleMessageRemoval
  /\ eventList' = IF a \in DOMAIN eventList THEN eventList ELSE Put(eventList, a, t)
  /\ deletionList' = IF a \in DOMAIN eventList THEN deletionList
                     ELSE withNew(deletionList, a, t)

scheduleMessageRemoval(a, t) ==
  /\ eventList' = Put(eventList, a, t)
  /\ deletionList' = withNew(withoutOld(a), a, t)

\* What scheduling may do to the process: abort() when the two lists
\* disagree; anything, a crash included, after the read of freed memory.
scheduleOutcomes(a) ==
  IF listsUnsynchronized(a) THEN {"aborted"}
  ELSE IF readsFreedVector(a) THEN {"running", "crashed"}
  ELSE {"running"}

-----------------------------------------------------------------------------
(* storeMessage(a, given): ns-3 reported that the stations of given        *)
(* received a.  The calls that return false and change nothing (unknown a, *)
(* no receiver or no relevant receiver for a message kept in the iFMT, no  *)
(* relevant receiver for a payload) are stuttering steps.  ns-3 is asked    *)
(* before the iCS creates messages in a step, so nothing that was created  *)
(* in step 0 is reported before the clock is told the time 1.              *)

inFPT(a) == a \in DOMAIN iFPT
inFMT(a) == a \in DOMAIN iFMT

Vectors ==
  {given \in [Stations -> 0 .. MaxCopies] :
     \A s \in Stations \ Receivers : given[s] = 0}

storeInBoth(a) ==
  /\ status = "running"
  /\ inFPT(a) /\ inFMT(a)
  /\ status' = "aborted"
  /\ UNCHANGED <<simTime, world, stationsSeqNoRecord, created, tables>>

\* A payload nobody received, or of a kind the rules reject, is forgotten.
discardPayload(a, given) ==
  /\ status = "running"
  /\ inFPT(a) /\ ~inFMT(a)
  /\ IsEmpty(given) \/ iFPT[a].kind \notin RelevantKinds
  /\ iFPT' = Drop(iFPT, {a})
  /\ UNCHANGED <<simTime, world, stationsSeqNoRecord, created, iFMT,
                 eventList, deletionList, status>>

expiryMessageTime(msg) ==
  IF msg.kind = "DENM" THEN msg.expiry ELSE simTime + Life

receivedAgain(msg, rel) ==
  [msg EXCEPT !.receptions =
     [s \in Stations |-> msg.receptions[s] \o [i \in 1 .. rel[s] |-> simTime]]]

keepMessage(a, msg, rel) ==
  /\ ~IsEmpty(rel)
  /\ \A s \in Stations : Len(msg.receptions[s]) + rel[s] <= MaxReceptions
  /\ scheduleMessageRemoval(a, expiryMessageTime(msg))
  /\ iFMT' = Put(iFMT, a, receivedAgain(msg, rel))
  /\ iFPT' = Drop(iFPT, {a})
  /\ status' \in scheduleOutcomes(a)
  /\ UNCHANGED <<simTime, world, stationsSeqNoRecord, created>>

\* First relevant reception: the message leaves the iFPT for the iFMT.
storePayloadReceived(a, given, inside) ==
  /\ status = "running"
  /\ inFPT(a) /\ ~inFMT(a)
  /\ ~IsEmpty(given)
  /\ iFPT[a].kind \in RelevantKinds
  /\ keepMessage(a, iFPT[a], relStations(given, iFPT[a].kind, inside))

\* A later reception of a message already in the iFMT.
addReceivers(a, given, inside) ==
  /\ status = "running"
  /\ ~inFPT(a) /\ inFMT(a)
  /\ ~IsEmpty(given)
  /\ keepMessage(a, iFMT[a], relStations(given, iFMT[a].kind, inside))

storeMessage(a) ==
  /\ simTime # FirstClock
  /\ \/ storeInBoth(a)
     \/ \E given \in Vectors :
          \/ discardPayload(a, given)
          \/ \E inside \in SUBSET Receivers :
               \/ storePayloadReceived(a, given, inside)
               \/ addReceivers(a, given, inside)

-----------------------------------------------------------------------------
(* updateClock and launchIFMTCleanupManager: the whole deletion loop is    *)
(* compiled only when LOG_ON is defined, and looks up the new time alone.  *)

\* Mutant of dueAt: cleaning up before the clock is set.
DueBefore(t) ==
  IF LogOn /\ simTime \in DOMAIN deletionList THEN deletionList[simTime] ELSE {}

dueAt(t) == IF LogOn /\ t \in DOMAIN deletionList THEN deletionList[t] ELSE {}

UpdateClockOnly ==    \* mutant of updateClock
  /\ status = "running"
  /\ NextClock(simTime) <= MaxTime
  /\ simTime' = NextClock(simTime)
  /\ iFMT' = Drop(iFMT, dueAt(NextClock(simTime)))
  /\ UNCHANGED <<world, stationsSeqNoRecord, created, iFPT, eventList,
                 deletionList, status>>

updateClock ==
  LET now == NextClock(simTime) IN
  /\ status = "running"
  /\ now <= MaxTime
  /\ simTime' = now
  /\ iFMT' = Drop(iFMT, dueAt(now))
  /\ eventList' = Drop(eventList, dueAt(now))
  /\ deletionList' = IF LogOn THEN Drop(deletionList, {now}) ELSE deletionList
  /\ UNCHANGED <<world, stationsSeqNoRecord, created, iFPT, status>>

\* updateMobileStationDynamicInformation moves a station across the areas and
\* turns it; only what the configured rules look at is kept.
moveStation(s) ==
  /\ status = "running"
  /\ s \in Mobile
  /\ \E hits \in 0 .. NumAreas : areaHits' = [areaHits EXCEPT ![s] = hits]
  /\ inDirection' \in IF DirectionRule THEN {inDirection \cup {s}, inDirection \ {s}}
                      ELSE {inDirection}
  /\ UNCHANGED <<simTime, stationsSeqNoRecord, created, tables, status>>

Next ==
  \/ updateClock
  \/ \E s \in Stations :
       \/ createCAMpayload(s)
       \/ createDENMpayload(s)
       \/ createApplicationMessagePayload(s)
       \/ moveStation(s)
  \/ \E a \in ActionIDs : storeMessage(a)

Spec == Init /\ [][Next]_vars

-----------------------------------------------------------------------------
(* Properties.                                                             *)

Message == [kind : KindNames, expiry : Int, receptions : [Stations -> Seq(Int)]]

\* Type invariant of the store.
TypeOK ==
  /\ simTime \in Int
  /\ areaHits \in [Stations -> Nat]
  /\ inDirection \subseteq Stations
  /\ DOMAIN stationsSeqNoRecord \subseteq Stations
  /\ stationsSeqNoRecord \in [DOMAIN stationsSeqNoRecord -> 0 .. SeqMod - 1]
  /\ created \in [Stations -> Nat]
  /\ DOMAIN iFPT \subseteq ActionIDs
  /\ iFPT \in [DOMAIN iFPT -> Message]
  /\ DOMAIN iFMT \subseteq ActionIDs
  /\ iFMT \in [DOMAIN iFMT -> Message]
  /\ DOMAIN eventList \subseteq ActionIDs
  /\ eventList \in [DOMAIN eventList -> Int]
  /\ DOMAIN deletionList \subseteq Int
  /\ deletionList \in [DOMAIN deletionList -> SUBSET ActionIDs]
  /\ status \in {"running", "aborted", "crashed"}

\* deletionList is exactly the inverse of eventList, with no empty entry, so
\* scheduleMessageRemoval never meets lists that are "not synchronized",
\* whatever mix of receptions, re-receptions and clean-ups came before.
ListsSynchronized ==
  /\ \A a \in DOMAIN eventList : eventList[a] \in DOMAIN deletionList
  /\ \A t \in DOMAIN deletionList :
       /\ deletionList[t] # {}
       /\ deletionList[t] = {a \in DOMAIN eventList : eventList[a] = t}

\* A message is in the iFMT exactly while its deletion is scheduled: none is
\* left that nothing will delete, and nothing deletes an absent message.
StoredIffScheduled == DOMAIN iFMT = DOMAIN eventList

\* The deletion time of a message of any kind but DENM is one life interval
\* after its last reception: a new reception prolongs the life of a message.
LifeFromLastReception ==
  \A a \in DOMAIN iFMT :
    (a \in DOMAIN eventList /\ iFMT[a].kind # "DENM") =>
      LET last == eventList[a] - Life IN
      /\ \A s \in Stations : \A i \in 1 .. Len(iFMT[a].receptions[s]) :
           iFMT[a].receptions[s][i] <= last
      /\ \E s \in Stations : \E i \in 1 .. Len(iFMT[a].receptions[s]) :
           iFMT[a].receptions[s][i] = last

\* updateClock leaves in the iFMT no message (DENMs apart, whose expiry is
\* the caller's) whose deletion time has come: "Delete all the message that
\* were scheduled to be removed from the iFMT" (LDMLogic.h:197).
NothingOverdue ==
  \A a \in DOMAIN iFMT :
    (a \in DOMAIN eventList /\ iFMT[a].kind # "DENM") => eventList[a] > simTime

\* No actionID is in the iFPT and the iFMT at once: "That is not allowed!"
\* (storeMessage, which then aborts the simulation).
NeverInBothTables == DOMAIN iFPT \cap DOMAIN iFMT = {}

\* The store never aborts the simulation.
NeverAborts == status # "aborted"

\* The store never crashes on memory it has freed itself. Not so: an action ID
\* that was the last of its time and is received again makes
\* scheduleMessageRemoval read the vector it has just erased, and what that
\* does is open (MCLdm_freed.cfg).
NeverCrashes == status # "crashed"

NewReception(a, s) ==
  /\ a \in DOMAIN iFMT'
  /\ Len(iFMT'[a].receptions[s]) >
       IF a \in DOMAIN iFMT THEN Len(iFMT[a].receptions[s]) ELSE 0

\* A reception enters the iFMT only by a station that the type and area rules
\* select at that moment, wherever it was at earlier receptions, and only for
\* a kind of message the rules accept.
ReceiversRelevant ==
  [][\A a \in ActionIDs : \A s \in Stations : NewReception(a, s) =>
       /\ s \in RelevantStations
       /\ NumAreas > 0 => areaHits[s] > 0
       /\ iFMT'[a].kind \in RelevantKinds]_vars

\* With a direction rule, relevantDirection "allows to store in the iFMT only
\* the messages received by mobile nodes that are moving in a certain
\* direction" (LDMLogic.h:154).
OnlyRelevantDirection ==
  [][\A a \in ActionIDs : \A s \in Mobile :
       (DirectionRule /\ NewReception(a, s)) => s \in inDirection]_vars

-----------------------------------------------------------------------------
(* What the store promises about the life of one message, see MessageLife. *)

life == [a \in ActionIDs |->
  IF a \in DOMAIN iFMT THEN "stored"
  ELSE IF a \in DOMAIN iFPT THEN "generated"
  ELSE IF a[1] \in DOMAIN stationsSeqNoRecord /\ a[2] <= stationsSeqNoRecord[a[1]]
       THEN "gone"
  ELSE "unborn"]

ML == INSTANCE MessageLife WITH
        Stations <- Stations, SeqMod <- SeqMod, life <- life

MessageLifeSpec == ML!Spec

=============================================================================
