-------------------------- MODULE Ldm_life_proofs --------------------------
(***************************************************************************)
(* Proof that the message store implements MessageLife, and never aborts,  *)
(* while no station creates more payloads than there are sequence numbers. *)
(***************************************************************************)
EXTENDS Ldm_proofs

-----------------------------------------------------------------------------
(* Until the numbers wrap, the next one is the number of payloads created, *)
(* so it is that of no message in the tables.                              *)

NumbersDrawn ==
  /\ \A s \in Stations : created[s] <= MaxCreate
  /\ DOMAIN stationsSeqNoRecord = {s \in Stations : created[s] > 0}
  /\ \A s \in DOMAIN stationsSeqNoRecord : stationsSeqNoRecord[s] = created[s] - 1
  /\ \A a \in DOMAIN iFPT \cup DOMAIN iFMT : a[2] < created[a[1]]
  /\ NeverInBothTables

LifeInv == TypeOK /\ Schedule /\ NumbersDrawn /\ NeverAborts

LEMMA NextNumber ==
  ASSUME MaxCreate <= SeqMod, LifeInv, NEW s \in Stations, created[s] < MaxCreate
  PROVE  getNewSeqNo(s) = created[s]
<1>1. /\ created[s] \in Nat /\ SeqMod \in Nat \ {0} /\ MaxCreate \in Nat
      /\ created[s] < SeqMod
  BY LdmAssumption DEF LifeInv, TypeOK
<1>2. CASE created[s] > 0
  <2>1. s \in DOMAIN stationsSeqNoRecord /\ stationsSeqNoRecord[s] = created[s] - 1
    BY <1>2 DEF LifeInv, NumbersDrawn
  <2>2. (stationsSeqNoRecord[s] + 1) % SeqMod = created[s]
    BY <1>1, <2>1
  <2> QED BY <2>1, <2>2 DEF getNewSeqNo
<1>3. CASE created[s] = 0
  BY <1>3 DEF LifeInv, NumbersDrawn, getNewSeqNo
<1> QED BY <1>1, <1>2, <1>3

\* What an actionID has become, in terms of the tables and of the numbers drawn.
LifeMeans ==
  \A a \in ActionIDs :
    /\ life[a] = "stored" <=> a \in DOMAIN iFMT
    /\ life[a] = "generated" <=> a \in DOMAIN iFPT
    /\ life[a] = "unborn" <=> a[2] >= created[a[1]]
    /\ life[a] \in {"unborn", "generated", "stored", "gone"}

LEMMA LifeOf == LifeInv => LifeMeans
<1> SUFFICES ASSUME LifeInv, NEW a \in ActionIDs
             PROVE  /\ life[a] = "stored" <=> a \in DOMAIN iFMT
                    /\ life[a] = "generated" <=> a \in DOMAIN iFPT
                    /\ life[a] = "unborn" <=> a[2] >= created[a[1]]
                    /\ life[a] \in {"unborn", "generated", "stored", "gone"}
  BY DEF LifeMeans
<1>1. a[1] \in Stations /\ a[2] \in Nat /\ created[a[1]] \in Nat
  BY LdmAssumption DEF ActionIDs, LifeInv, TypeOK
<1>2. a \in DOMAIN iFPT => a \notin DOMAIN iFMT
  BY DEF LifeInv, NumbersDrawn, NeverInBothTables
<1>3. a \in DOMAIN iFPT \cup DOMAIN iFMT => a[2] < created[a[1]]
  BY DEF LifeInv, NumbersDrawn
<1>4. (a[1] \in DOMAIN stationsSeqNoRecord /\ a[2] <= stationsSeqNoRecord[a[1]])
        <=> a[2] < created[a[1]]
  BY <1>1 DEF LifeInv, NumbersDrawn
<1>5. life[a] = IF a \in DOMAIN iFMT THEN "stored"
                ELSE IF a \in DOMAIN iFPT THEN "generated"
                ELSE IF a[2] < created[a[1]] THEN "gone"
                ELSE "unborn"
  BY <1>4 DEF life
<1> HIDE DEF life
<1> QED BY <1>1, <1>2, <1>3, <1>5

LEMMA LifeOfNext == LifeInv' => LifeMeans'
BY LifeOf, PTL

-----------------------------------------------------------------------------
(* The steps of the store keep LifeInv.                                    *)

\* One payload is created under a number that was not drawn.
LEMMA CreateKeepsLife ==
  ASSUME MaxCreate <= SeqMod, LifeInv, NEW s \in Stations, NEW kind, NEW expiry,
         createPayload(s, kind, expiry)
  PROVE  /\ <<s, created[s]>> \in ActionIDs
         /\ <<s, created[s]>> \notin DOMAIN iFPT \cup DOMAIN iFMT
         /\ DOMAIN iFPT' = DOMAIN iFPT \cup {<<s, created[s]>>}
         /\ NumbersDrawn'
<1>1. getNewSeqNo(s) = created[s]
  BY NextNumber DEF createPayload
<1>2. /\ created \in [Stations -> Nat] /\ created[s] < MaxCreate
      /\ SeqMod \in Nat /\ MaxCreate \in Nat
      /\ DOMAIN iFPT \subseteq ActionIDs /\ DOMAIN iFMT \subseteq ActionIDs
  BY LdmAssumption DEF LifeInv, TypeOK, createPayload
<1>3. <<s, created[s]>> \in ActionIDs
  BY <1>2 DEF ActionIDs
<1>4. <<s, created[s]>> \notin DOMAIN iFPT \cup DOMAIN iFMT
  BY <1>2 DEF LifeInv, NumbersDrawn
<1>5. DOMAIN iFPT' = DOMAIN iFPT \cup {<<s, created[s]>>} /\ iFMT' = iFMT
  BY <1>1, <1>4 DEF createPayload, storePayload, Put
<1>6. created' = [created EXCEPT ![s] = @ + 1]
  BY DEF createPayload
<1>7. /\ DOMAIN stationsSeqNoRecord' = DOMAIN stationsSeqNoRecord \cup {s}
      /\ \A t \in DOMAIN stationsSeqNoRecord' :
           stationsSeqNoRecord'[t] = IF t = s THEN created[s] ELSE stationsSeqNoRecord[t]
  BY <1>1 DEF createPayload, Put
<1>8. \A t \in Stations : created'[t] = IF t = s THEN created[s] + 1 ELSE created[t]
  BY <1>2, <1>6
<1>9. \A t \in Stations : created'[t] <= MaxCreate
  BY <1>2, <1>8 DEF LifeInv, NumbersDrawn
<1>10. DOMAIN stationsSeqNoRecord' = {t \in Stations : created'[t] > 0}
  BY <1>2, <1>7, <1>8 DEF LifeInv, NumbersDrawn
<1>11. \A t \in DOMAIN stationsSeqNoRecord' : stationsSeqNoRecord'[t] = created'[t] - 1
  BY <1>2, <1>7, <1>8, <1>10 DEF LifeInv, NumbersDrawn
<1>12. \A a \in DOMAIN iFPT' \cup DOMAIN iFMT' : a[2] < created'[a[1]]
  <2> SUFFICES ASSUME NEW a \in DOMAIN iFPT \cup DOMAIN iFMT \cup {<<s, created[s]>>}
               PROVE  a[2] < created'[a[1]]
    BY <1>5
  <2>1. CASE a = <<s, created[s]>>
    BY <2>1, <1>2, <1>8
  <2>2. CASE a \in DOMAIN iFPT \cup DOMAIN iFMT
    <3>1. a[1] \in Stations /\ a[2] \in Int /\ a[2] < created[a[1]]
      BY <2>2, <1>2, LdmAssumption DEF LifeInv, NumbersDrawn, ActionIDs
    <3> QED BY <3>1, <1>2, <1>8
  <2> QED BY <2>1, <2>2
<1>13. NeverInBothTables'
  BY <1>4, <1>5 DEF NeverInBothTables, LifeInv, NumbersDrawn
<1> QED BY <1>3, <1>4, <1>5, <1>9, <1>10, <1>11, <1>12, <1>13 DEF NumbersDrawn

LEMMA KeepKeepsLife ==
  ASSUME LifeInv, NEW a \in ActionIDs, a \in DOMAIN iFPT \cup DOMAIN iFMT,
         NEW msg, NEW rel, keepMessage(a, msg, rel)
  PROVE  NumbersDrawn' /\ NeverAborts'
<1>1. /\ DOMAIN iFMT' = DOMAIN iFMT \cup {a} /\ DOMAIN iFPT' = DOMAIN iFPT \ {a}
      /\ UNCHANGED <<stationsSeqNoRecord, created>>
  BY DEF keepMessage, Put, Drop, Restrict
<1>2. ~listsUnsynchronized(a)
  BY DEF listsUnsynchronized, LifeInv, Schedule, ListsSynchronized
<1>3. NeverAborts'
  BY <1>2 DEF keepMessage, scheduleOutcomes, NeverAborts
<1>4. NumbersDrawn'
  BY <1>1 DEF LifeInv, NumbersDrawn, NeverInBothTables
<1> QED BY <1>3, <1>4

LEMMA NextLife ==
  ASSUME MaxCreate <= SeqMod
  PROVE  LifeInv /\ [Next]_vars => LifeInv'
<1> SUFFICES ASSUME LifeInv, [Next]_vars PROVE LifeInv'
  OBVIOUS
<1>1. TypeOK' /\ Schedule'
  BY NextTypeOK, NextSchedule DEF LifeInv
<1>2. NumbersDrawn' /\ NeverAborts'
  <2>1. CASE updateClock
    <3>1. /\ DOMAIN iFMT' \subseteq DOMAIN iFMT
          /\ UNCHANGED <<iFPT, stationsSeqNoRecord, created, status>>
      BY <2>1 DEF updateClock, Drop, Restrict
    <3> QED BY <3>1 DEF LifeInv, NumbersDrawn, NeverInBothTables, NeverAborts
  <2>2. ASSUME NEW s \in Stations,
               \/ createCAMpayload(s) \/ createDENMpayload(s)
               \/ createApplicationMessagePayload(s)
        PROVE  NumbersDrawn' /\ NeverAborts'
    <3>1. PICK kind \in KindNames, expiry \in Int : createPayload(s, kind, expiry)
      BY <2>2, CreateCases
    <3> QED BY <3>1, CreateKeepsLife DEF createPayload, LifeInv, NeverAborts
  <2>3. ASSUME NEW s \in Stations, moveStation(s)
        PROVE  NumbersDrawn' /\ NeverAborts'
    BY <2>3 DEF moveStation, tables, LifeInv, NumbersDrawn, NeverInBothTables, NeverAborts
  <2>4. ASSUME NEW a \in ActionIDs, storeMessage(a)
        PROVE  NumbersDrawn' /\ NeverAborts'
    <3>1. ~storeInBoth(a)
      BY DEF storeInBoth, inFPT, inFMT, LifeInv, NumbersDrawn, NeverInBothTables
    <3>2. ASSUME NEW given \in Vectors, discardPayload(a, given)
          PROVE  NumbersDrawn' /\ NeverAborts'
      <4>1. /\ DOMAIN iFPT' \subseteq DOMAIN iFPT
            /\ UNCHANGED <<iFMT, stationsSeqNoRecord, created, status>>
        BY <3>2 DEF discardPayload, Drop, Restrict
      <4> QED BY <4>1 DEF LifeInv, NumbersDrawn, NeverInBothTables, NeverAborts
    <3>3. ASSUME NEW rel, NEW msg, inFPT(a) \/ inFMT(a), keepMessage(a, msg, rel)
          PROVE  NumbersDrawn' /\ NeverAborts'
      BY <3>3, KeepKeepsLife DEF inFPT, inFMT
    <3> QED BY <2>4, <3>1, <3>2, <3>3, StoreCases DEF LifeInv
  <2>5. CASE UNCHANGED vars
    BY <2>5 DEF vars, LifeInv, NumbersDrawn, NeverInBothTables, NeverAborts
  <2> QED BY <2>1, <2>2, <2>3, <2>4, <2>5 DEF Next
<1> QED BY <1>1, <1>2 DEF LifeInv

LEMMA InitLife == Init => LifeInv
<1> SUFFICES ASSUME Init PROVE LifeInv
  OBVIOUS
<1>1. TypeOK
  BY InitTypeOK
<1>2. Schedule
  BY DEF Init, Schedule, ListsSynchronized, StoredIffScheduled, EmptyTable
<1>3. NumbersDrawn
  BY LdmAssumption DEF Init, NumbersDrawn, NeverInBothTables, EmptyTable
<1> QED BY <1>1, <1>2, <1>3 DEF Init, LifeInv, NeverAborts

\* While no station has created SeqMod payloads (USHRT_MAX in the code), neither
\* abort() of LDMLogic, for a message in both tables (storeMessage) or for lists
\* that disagree (scheduleMessageRemoval), is reached.
THEOREM NoAbortBeforeWrap ==
  ASSUME MaxCreate <= SeqMod
  PROVE  Spec => []NeverAborts
<1>1. LifeInv /\ [Next]_vars => LifeInv'
  BY NextLife
<1>2. LifeInv => NeverAborts
  BY DEF LifeInv
<1> QED BY <1>1, <1>2, InitLife, PTL DEF Spec

-----------------------------------------------------------------------------
(* Refinement: each step of the store is a step of MessageLife or none.    *)

LEMMA IdsAreActionIDs == ML!Ids = ActionIDs
BY DEF ML!Ids, ActionIDs

LEMMA LifeIsFunction == life = [a \in ActionIDs |-> life[a]]
BY DEF life

\* Two states whose tables have the same entries, and that drew the same numbers,
\* have the same lives.
LEMMA SameLife ==
  ASSUME DOMAIN iFPT' = DOMAIN iFPT, DOMAIN iFMT' = DOMAIN iFMT,
         stationsSeqNoRecord' = stationsSeqNoRecord
  PROVE  UNCHANGED life
BY DEF life

\* The lives of the others are not touched by a step that changes the entries of
\* one actionID.
LEMMA OneLifeChanges ==
  ASSUME LifeInv, LifeInv', NEW a \in ActionIDs, NEW to,
         life'[a] = to,
         \A b \in ActionIDs \ {a} :
           /\ b \in DOMAIN iFPT' <=> b \in DOMAIN iFPT
           /\ b \in DOMAIN iFMT' <=> b \in DOMAIN iFMT
           /\ b[2] >= created'[b[1]] <=> b[2] >= created[b[1]]
  PROVE  life' = [life EXCEPT ![a] = to]
<1>1. LifeMeans /\ LifeMeans'
  BY LifeOf, LifeOfNext
<1>2. ASSUME NEW b \in ActionIDs \ {a} PROVE life'[b] = life[b]
  <2>1. /\ life'[b] = "stored" <=> life[b] = "stored"
        /\ life'[b] = "generated" <=> life[b] = "generated"
        /\ life'[b] = "unborn" <=> life[b] = "unborn"
    BY <1>1 DEF LifeMeans
  <2>2. /\ life[b] \in {"unborn", "generated", "stored", "gone"}
        /\ life'[b] \in {"unborn", "generated", "stored", "gone"}
    BY <1>1 DEF LifeMeans
  <2> QED BY <2>1, <2>2
<1>3. life = [b \in ActionIDs |-> life[b]] /\ life' = [b \in ActionIDs |-> life'[b]]
  BY LifeIsFunction DEF life
<1> HIDE DEF life
<1> QED BY <1>2, <1>3

\* The steps.
LEMMA CreateMaps ==
  ASSUME MaxCreate <= SeqMod, LifeInv, LifeInv', NEW s \in Stations, NEW kind, NEW expiry,
         createPayload(s, kind, expiry)
  PROVE  ML!Generate(<<s, created[s]>>)
<1> DEFINE a == <<s, created[s]>>
<1>1. /\ a \in ActionIDs
      /\ a \notin DOMAIN iFPT \cup DOMAIN iFMT
      /\ DOMAIN iFPT' = DOMAIN iFPT \cup {a}
  BY CreateKeepsLife
<1>2. iFMT' = iFMT /\ created' = [created EXCEPT ![s] = @ + 1]
  BY DEF createPayload
<1>3. LifeMeans /\ LifeMeans'
  BY LifeOf, LifeOfNext
<1>4. created \in [Stations -> Nat] /\ SeqMod \in Nat
  BY LdmAssumption DEF LifeInv, TypeOK
<1>5. life[a] = "unborn" /\ life'[a] = "generated"
  BY <1>1, <1>3, <1>4 DEF LifeMeans
<1>6. ASSUME NEW n \in 0 .. created[s] - 1 PROVE life[<<s, n>>] # "unborn"
  <2>1. <<s, n>> \in ActionIDs
    BY <1>1, <1>4 DEF ActionIDs
  <2> QED BY <1>3, <1>4, <2>1 DEF LifeMeans
<1>7. ASSUME NEW b \in ActionIDs \ {a}
      PROVE  /\ b \in DOMAIN iFPT' <=> b \in DOMAIN iFPT
             /\ b \in DOMAIN iFMT' <=> b \in DOMAIN iFMT
             /\ b[2] >= created'[b[1]] <=> b[2] >= created[b[1]]
  <2>1. b \in Stations \X Nat /\ b = <<b[1], b[2]>>
    BY <1>4 DEF ActionIDs
  <2>2. b[1] = s => b[2] # created[s]
    BY <1>7, <2>1
  <2> QED BY <1>1, <1>2, <1>4, <2>1, <2>2
<1>8. life' = [life EXCEPT ![a] = "generated"]
  BY <1>1, <1>5, <1>7, OneLifeChanges
<1> QED BY <1>5, <1>6, <1>8 DEF ML!Generate

LEMMA DiscardMaps ==
  ASSUME LifeInv, LifeInv', NEW a \in ActionIDs, NEW given, discardPayload(a, given)
  PROVE  ML!Discard(a)
<1>1. /\ a \in DOMAIN iFPT /\ a \notin DOMAIN iFMT
      /\ DOMAIN iFPT' = DOMAIN iFPT \ {a} /\ UNCHANGED <<iFMT, created>>
  BY DEF discardPayload, inFPT, inFMT, Drop, Restrict
<1>2. LifeMeans /\ LifeMeans'
  BY LifeOf, LifeOfNext
<1>3. life[a] = "generated" /\ life'[a] = "gone"
  BY <1>1, <1>2 DEF LifeMeans
<1>4. life' = [life EXCEPT ![a] = "gone"]
  BY <1>1, <1>3, OneLifeChanges
<1> QED BY <1>3, <1>4 DEF ML!Discard

\* The first reception is a step, a later one is not.
LEMMA KeepMaps ==
  ASSUME LifeInv, LifeInv', NEW a \in ActionIDs, NEW msg, NEW rel, keepMessage(a, msg, rel),
         inFPT(a) \/ inFMT(a)
  PROVE  ML!Receive(a) \/ UNCHANGED life
<1>1. /\ DOMAIN iFMT' = DOMAIN iFMT \cup {a} /\ DOMAIN iFPT' = DOMAIN iFPT \ {a}
      /\ UNCHANGED <<created, stationsSeqNoRecord>>
  BY DEF keepMessage, Put, Drop, Restrict
<1>2. LifeMeans /\ LifeMeans'
  BY LifeOf, LifeOfNext
<1>3. a \in DOMAIN iFMT => a \notin DOMAIN iFPT
  BY DEF LifeInv, NumbersDrawn, NeverInBothTables
<1>4. CASE inFPT(a)
  <2>1. life[a] = "generated" /\ life'[a] = "stored"
    BY <1>1, <1>2, <1>4 DEF LifeMeans, inFPT
  <2>2. life' = [life EXCEPT ![a] = "stored"]
    BY <1>1, <2>1, OneLifeChanges
  <2> QED BY <2>1, <2>2 DEF ML!Receive
<1>5. CASE ~inFPT(a)
  <2>1. DOMAIN iFMT' = DOMAIN iFMT /\ DOMAIN iFPT' = DOMAIN iFPT
    BY <1>1, <1>5 DEF inFPT, inFMT
  <2> QED BY <1>1, <2>1, SameLife
<1> QED BY <1>4, <1>5

LEMMA ClockMaps ==
  ASSUME LifeInv, LifeInv', updateClock
  PROVE  \E X \in SUBSET ActionIDs : ML!Delete(X)
<1> DEFINE X == DOMAIN iFMT \ DOMAIN iFMT'
<1>1. /\ DOMAIN iFMT' \subseteq DOMAIN iFMT
      /\ UNCHANGED <<iFPT, created, stationsSeqNoRecord>>
  BY DEF updateClock, Drop, Restrict
<1>2. LifeMeans /\ LifeMeans'
  BY LifeOf, LifeOfNext
<1>3. X \subseteq ActionIDs
  BY DEF LifeInv, TypeOK
<1>4. \A a \in X : life[a] = "stored"
  BY <1>2, <1>3 DEF LifeMeans
<1>5. ASSUME NEW a \in ActionIDs PROVE life'[a] = IF a \in X THEN "gone" ELSE life[a]
  <2>1. /\ life'[a] = "stored" <=> a \in DOMAIN iFMT'
        /\ life'[a] = "generated" <=> a \in DOMAIN iFPT
        /\ life'[a] = "unborn" <=> a[2] >= created[a[1]]
        /\ life'[a] \in {"unborn", "generated", "stored", "gone"}
    BY <1>1, <1>2 DEF LifeMeans
  <2>2. /\ life[a] = "stored" <=> a \in DOMAIN iFMT
        /\ life[a] = "generated" <=> a \in DOMAIN iFPT
        /\ life[a] = "unborn" <=> a[2] >= created[a[1]]
        /\ life[a] \in {"unborn", "generated", "stored", "gone"}
    BY <1>2 DEF LifeMeans
  <2> QED BY <1>1, <2>1, <2>2
<1>6. life' = [a \in ActionIDs |-> IF a \in X THEN "gone" ELSE life[a]]
  <2>1. life' = [a \in ActionIDs |-> life'[a]]
    BY DEF life
  <2> HIDE DEF X
  <2> QED BY <1>5, <2>1
<1>7. ML!Delete(X)
  BY <1>4, <1>6, IdsAreActionIDs DEF ML!Delete
<1> QED BY <1>3, <1>7

LEMMA StepMaps ==
  ASSUME MaxCreate <= SeqMod
  PROVE  LifeInv /\ LifeInv' /\ [Next]_vars => [ML!Next]_life
<1> SUFFICES ASSUME LifeInv, LifeInv', [Next]_vars PROVE ML!Next \/ UNCHANGED life
  OBVIOUS
<1> USE IdsAreActionIDs
<1>1. CASE updateClock
  BY <1>1, ClockMaps DEF ML!Next
<1>2. ASSUME NEW s \in Stations,
             \/ createCAMpayload(s) \/ createDENMpayload(s)
             \/ createApplicationMessagePayload(s)
      PROVE  ML!Next
  <2>1. PICK kind \in KindNames, expiry \in Int : createPayload(s, kind, expiry)
    BY <1>2, CreateCases
  <2>2. ML!Generate(<<s, created[s]>>) /\ <<s, created[s]>> \in ActionIDs
    BY <2>1, CreateMaps, CreateKeepsLife
  <2> QED BY <2>2 DEF ML!Next
<1>3. ASSUME NEW s \in Stations, moveStation(s) PROVE UNCHANGED life
  BY <1>3, SameLife DEF moveStation, tables
<1>4. ASSUME NEW a \in ActionIDs, storeMessage(a) PROVE ML!Next \/ UNCHANGED life
  <2>1. ~storeInBoth(a)
    BY DEF storeInBoth, inFPT, inFMT, LifeInv, NumbersDrawn, NeverInBothTables
  <2>2. ASSUME NEW given \in Vectors, discardPayload(a, given) PROVE ML!Next
    BY <2>2, DiscardMaps DEF ML!Next
  <2>3. ASSUME NEW rel, NEW msg, inFPT(a) \/ inFMT(a), keepMessage(a, msg, rel)
        PROVE  ML!Next \/ UNCHANGED life
    BY <2>3, KeepMaps DEF ML!Next
  <2> QED BY <1>4, <2>1, <2>2, <2>3, StoreCases DEF LifeInv
<1>5. CASE UNCHANGED vars
  BY <1>5, SameLife DEF vars
<1> QED BY <1>1, <1>2, <1>3, <1>4, <1>5 DEF Next

\* While no station has created SeqMod payloads, the store implements
\* MessageLife: an actionID is used once, and a message that was deleted or
\* discarded does not come back (LDMLogic::storeMessage, getNewSeqNo).
THEOREM ImplementsMessageLife ==
  ASSUME MaxCreate <= SeqMod
  PROVE  Spec => MessageLifeSpec
<1>1. Init => ML!Init
  BY LdmAssumption DEF Init, ML!Init, life, EmptyTable, ML!Ids, ActionIDs
<1>2. LifeInv /\ [Next]_vars => LifeInv'
  BY NextLife
<1>3. LifeInv /\ LifeInv' /\ [Next]_vars => [ML!Next]_life
  BY StepMaps
<1> QED BY <1>1, <1>2, <1>3, InitLife, PTL DEF Spec, MessageLifeSpec, ML!Spec

=============================================================================
