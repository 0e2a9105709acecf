------------------------ MODULE LocationTable_proofs ------------------------
(***************************************************************************)
(* Proofs about the location table.  What storing an entry and cleaning do *)
(* to a table comes first, place by place; then that entries are unique    *)
(* and neighbours heard; and, when frames arrive promptly, that the last   *)
(* entry is fresh and how old an entry can be.                             *)
(***************************************************************************)
EXTENDS LocationTable, TLAPS, FiniteSetTheorems

-----------------------------------------------------------------------------
(* Storing an entry.                                                       *)

UniqueIn(tab) ==
  \A i, j \in DOMAIN tab : tab[i].gnAddr = tab[j].gnAddr => i = j

NeighboursIn(tab) == {tab[i].gnAddr : i \in {k \in DOMAIN tab : tab[k].is_neigh}}

\* The times in position vectors.
LEMMA WholeType ==
  ASSUME NEW t \in Nat
  PROVE  Whole(t) \in Nat /\ Whole(t) <= t /\ t < Whole(t) + SECOND
  BY LocationTableAssumption DEF Whole

\* A vector that arrives is at most its delay and a second old.
LEMMA StampType ==
  ASSUME NEW ts \in Stamps, now \in Nat
  PROVE  ts \in Nat /\ ts <= now /\ now < ts + MaxDelay + SECOND
<1>1. PICK u \in 0 .. now : u + MaxDelay >= now /\ ts = Whole(u)
  BY DEF Stamps
<1> QED
  BY <1>1, WholeType, LocationTableAssumption

\* Erasing one entry moves those behind it forward.
LEMMA WithoutShape ==
  ASSUME NEW tab \in Seq(Entry), NEW i \in DOMAIN tab
  PROVE  /\ Without(tab, i) \in Seq(Entry)
         /\ Len(Without(tab, i)) = Len(tab) - 1
         /\ \A k \in 1 .. Len(tab) - 1 :
              Without(tab, i)[k] = IF k < i THEN tab[k] ELSE tab[k + 1]
  BY DEF Without

\* Storing leaves the table, or adds the entry at the end; the entry of the
\* same station, if there is one, is at place i.
LEMMA PutShape ==
  ASSUME NEW tab \in Seq(Entry), NEW e \in Entry
  PROVE  \/ /\ ~Has(tab, e.gnAddr)
            /\ Put(tab, e) = Append(tab, e)
         \/ \E i \in DOMAIN tab :
              /\ tab[i].gnAddr = e.gnAddr /\ At(tab, e.gnAddr) = i
              /\ \/ tab[i].Ts = e.Ts /\ Put(tab, e) = tab
                 \/ tab[i].Ts # e.Ts /\ Put(tab, e) = Append(Without(tab, i), e)
<1>1. CASE ~Has(tab, e.gnAddr)
  BY <1>1 DEF Put
<1>2. CASE Has(tab, e.gnAddr)
  <2>1. At(tab, e.gnAddr) \in DOMAIN tab /\ tab[At(tab, e.gnAddr)].gnAddr = e.gnAddr
    BY <1>2 DEF Has, At
  <2> QED
    BY <2>1, <1>2 DEF Put
<1> QED
  BY <1>1, <1>2

\* g tells for every place of r but the last which place of tab it was: that
\* of another station, not one before, and in the same order.
Carries(r, tab, a, g) ==
  /\ g \in [1 .. Len(r) - 1 -> DOMAIN tab]
  /\ \A k \in 1 .. Len(r) - 1 :
       r[k] = tab[g[k]] /\ tab[g[k]].gnAddr # a /\ g[k] >= k
  /\ \A j, k \in 1 .. Len(r) - 1 : j < k <=> g[j] < g[k]
  /\ \A i \in DOMAIN tab :
       tab[i].gnAddr = a \/ \E k \in 1 .. Len(r) - 1 : g[k] = i

\* Storing that changes the table puts the new entry last.
LEMMA PutPlaces ==
  ASSUME NEW tab \in Seq(Entry), NEW e \in Entry, UniqueIn(tab),
         Put(tab, e) # tab
  PROVE  /\ Put(tab, e) \in Seq(Entry)
         /\ Len(Put(tab, e)) >= 1
         /\ Put(tab, e)[Len(Put(tab, e))] = e
         /\ \E g : Carries(Put(tab, e), tab, e.gnAddr, g)
<1> DEFINE r == Put(tab, e)
<1>1. CASE ~Has(tab, e.gnAddr) /\ r = Append(tab, e)
  <2> DEFINE g == [k \in 1 .. Len(tab) |-> k]
  <2>1. r \in Seq(Entry) /\ Len(r) = Len(tab) + 1 /\ r[Len(r)] = e
    BY <1>1
  <2>2. \A k \in 1 .. Len(tab) : r[k] = tab[k]
    BY <1>1
  <2>3. \A k \in 1 .. Len(tab) : tab[k].gnAddr # e.gnAddr
    BY <1>1 DEF Has
  <2>4. g \in [1 .. Len(r) - 1 -> DOMAIN tab]
    BY <2>1
  <2>5. Len(r) - 1 = Len(tab) /\ DOMAIN tab = 1 .. Len(tab)
    BY <2>1
  <2> HIDE DEF r
  <2>6. Carries(r, tab, e.gnAddr, g)
    BY <2>2, <2>3, <2>4, <2>5 DEF Carries
  <2> QED
    BY <2>1, <2>6 DEF r
<1>2. ASSUME NEW i \in DOMAIN tab, tab[i].gnAddr = e.gnAddr,
             r = Append(Without(tab, i), e)
      PROVE  /\ r \in Seq(Entry) /\ Len(r) >= 1 /\ r[Len(r)] = e
             /\ \E g : Carries(r, tab, e.gnAddr, g)
  <2> DEFINE w == Without(tab, i)
             g == [k \in 1 .. Len(tab) - 1 |-> IF k < i THEN k ELSE k + 1]
  <2>1. /\ w \in Seq(Entry) /\ Len(w) = Len(tab) - 1
        /\ \A k \in 1 .. Len(tab) - 1 : w[k] = IF k < i THEN tab[k] ELSE tab[k + 1]
    BY WithoutShape
  <2> HIDE DEF w
  <2>2. r \in Seq(Entry) /\ Len(r) = Len(tab) /\ r[Len(r)] = e
    BY <1>2, <2>1 DEF w
  <2>3. \A k \in 1 .. Len(tab) - 1 : r[k] = w[k]
    BY <1>2, <2>1 DEF w
  <2>4. g \in [1 .. Len(r) - 1 -> DOMAIN tab]
    BY <2>2
  <2>5. \A k \in 1 .. Len(tab) - 1 : /\ r[k] = tab[g[k]] /\ g[k] # i
                                     /\ g[k] \in DOMAIN tab /\ g[k] >= k
    BY <2>1, <2>3
  <2>6. \A k \in 1 .. Len(tab) - 1 : tab[g[k]].gnAddr # e.gnAddr
    BY <2>5, <1>2 DEF UniqueIn
  <2>7. \A h \in DOMAIN tab : h = i \/ \E k \in 1 .. Len(tab) - 1 : g[k] = h
    <3> SUFFICES ASSUME NEW h \in DOMAIN tab, h # i
                 PROVE  \E k \in 1 .. Len(tab) - 1 : g[k] = h
      OBVIOUS
    <3>1. CASE h < i
      <4>1. h \in 1 .. Len(tab) - 1 /\ g[h] = h
        BY <3>1
      <4> QED
        BY <4>1
    <3>2. CASE h > i
      <4>1. h - 1 \in 1 .. Len(tab) - 1 /\ g[h - 1] = h
        BY <3>2
      <4> QED
        BY <4>1
    <3> QED
      BY <3>1, <3>2
  <2>8. \A j, k \in 1 .. Len(tab) - 1 : j < k <=> g[j] < g[k]
    OBVIOUS
  <2> HIDE DEF g, r
  <2>9. Carries(r, tab, e.gnAddr, g)
    BY <2>2, <2>4, <2>5, <2>6, <2>7, <2>8, <1>2 DEF Carries
  <2>10. Len(r) >= 1
    BY <2>2, <1>2
  <2> QED
    BY <2>2, <2>9, <2>10
<1>3. ASSUME NEW i \in DOMAIN tab, tab[i].gnAddr = e.gnAddr, Put(tab, e) = tab
      PROVE  FALSE
  BY <1>3
<1> QED
  BY <1>1, <1>2, <1>3, PutShape

-----------------------------------------------------------------------------
(* Entries are unique and neighbours heard.                                *)

\* Storing keeps entries unique.
LEMMA PutUnique ==
  ASSUME NEW tab \in Seq(Entry), NEW e \in Entry, UniqueIn(tab)
  PROVE  Put(tab, e) \in Seq(Entry) /\ UniqueIn(Put(tab, e))
<1>1. CASE Put(tab, e) = tab
  BY <1>1
<1>2. CASE Put(tab, e) # tab
  <2> DEFINE r == Put(tab, e)
  <2>1. PICK g : Carries(r, tab, e.gnAddr, g)
    BY <1>2, PutPlaces
  <2>2. r \in Seq(Entry) /\ Len(r) >= 1 /\ r[Len(r)] = e
    BY <1>2, PutPlaces
  <2> HIDE DEF r
  <2>3. ASSUME NEW i \in DOMAIN r, NEW j \in DOMAIN r, r[i].gnAddr = r[j].gnAddr
        PROVE  i = j
    <3>1. CASE i = Len(r) \/ j = Len(r)
      BY <2>1, <2>2, <2>3, <3>1 DEF Carries
    <3>2. CASE i # Len(r) /\ j # Len(r)
      <4>1. i \in 1 .. Len(r) - 1 /\ j \in 1 .. Len(r) - 1
        BY <2>2, <3>2
      <4>2. g[i] = g[j] /\ g[i] \in Int
        BY <4>1, <2>1, <2>3 DEF Carries, UniqueIn
      <4> QED
        BY <4>1, <4>2, <2>1 DEF Carries
    <3> QED
      BY <3>1, <3>2
  <2> QED
    BY <2>2, <2>3 DEF UniqueIn, r
<1> QED
  BY <1>1, <1>2

\* Storing adds at most the station of the entry to the neighbours, and that
\* only if the entry says so.  It loses none but that station.
LEMMA PutNeighbours ==
  ASSUME NEW tab \in Seq(Entry), NEW e \in Entry, UniqueIn(tab)
  PROVE  /\ NeighboursIn(Put(tab, e)) \subseteq
              NeighboursIn(tab) \union (IF e.is_neigh THEN {e.gnAddr} ELSE {})
         /\ \A a \in NeighboursIn(tab) :
              a \in NeighboursIn(Put(tab, e)) \/ (a = e.gnAddr /\ ~e.is_neigh)
<1>1. CASE Put(tab, e) = tab
  BY <1>1
<1>2. CASE Put(tab, e) # tab
  <2> DEFINE r == Put(tab, e)
  <2>1. PICK g : Carries(r, tab, e.gnAddr, g)
    BY <1>2, PutPlaces
  <2>2. r \in Seq(Entry) /\ Len(r) >= 1 /\ r[Len(r)] = e
    BY <1>2, PutPlaces
  <2> HIDE DEF r
  <2>3. ASSUME NEW a \in NeighboursIn(r)
        PROVE  a \in NeighboursIn(tab) \/ (a = e.gnAddr /\ e.is_neigh)
    <3>1. PICK k \in DOMAIN r : r[k].is_neigh /\ r[k].gnAddr = a
      BY <2>3 DEF NeighboursIn
    <3>2. CASE k = Len(r)
      BY <3>1, <3>2, <2>2
    <3>3. CASE k # Len(r)
      <4>1. k \in 1 .. Len(r) - 1
        BY <3>3, <2>2
      <4> QED
        BY <4>1, <3>1, <2>1 DEF Carries, NeighboursIn
    <3> QED
      BY <3>2, <3>3
  <2>4. ASSUME NEW a \in NeighboursIn(tab)
        PROVE  a \in NeighboursIn(r) \/ (a = e.gnAddr /\ ~e.is_neigh)
    <3>1. PICK i \in DOMAIN tab : tab[i].is_neigh /\ tab[i].gnAddr = a
      BY <2>4 DEF NeighboursIn
    <3>2. CASE a = e.gnAddr
      <4>1. Len(r) \in DOMAIN r
        BY <2>2
      <4>2. e.is_neigh \in BOOLEAN
        BY DEF Entry
      <4> QED
        BY <4>1, <4>2, <3>2, <2>2 DEF NeighboursIn
    <3>3. CASE a # e.gnAddr
      <4>1. PICK k \in 1 .. Len(r) - 1 : g[k] = i
        BY <3>1, <3>3, <2>1 DEF Carries
      <4>2. r[k] = tab[i] /\ k \in DOMAIN r
        BY <4>1, <2>1, <2>2 DEF Carries
      <4> QED
        BY <4>2, <3>1 DEF NeighboursIn
    <3> QED
      BY <3>2, <3>3
  <2> QED
    BY <2>3, <2>4 DEF r
<1> QED
  BY <1>1, <1>2
\* Both forms of AddPosEntry store an entry.
LEMMA AddTypes ==
  ASSUME NEW tab \in Seq(Entry), UniqueIn(tab), NEW a \in Nodes, NEW ts \in Nat
  PROVE  /\ AddHeader(tab, a, ts) \in Seq(Entry) /\ UniqueIn(AddHeader(tab, a, ts))
         /\ AddVector(tab, a, ts) \in Seq(Entry) /\ UniqueIn(AddVector(tab, a, ts))
<1>1. [gnAddr |-> a, Ts |-> ts, is_neigh |-> TRUE] \in Entry
  BY DEF Entry
<1>2. [gnAddr |-> a, Ts |-> ts,
       is_neigh |-> IF Has(tab, a) THEN tab[At(tab, a)].is_neigh ELSE a = Self] \in Entry
  <2>1. CASE Has(tab, a)
    <3>1. At(tab, a) \in DOMAIN tab
      BY <2>1 DEF Has, At
    <3>2. tab[At(tab, a)] \in Entry
      BY <3>1
    <3>3. tab[At(tab, a)].is_neigh \in BOOLEAN
      BY <3>2 DEF Entry
    <3> QED
      BY <2>1, <3>3 DEF Entry
  <2>2. CASE ~Has(tab, a)
    BY <2>2 DEF Entry
  <2> QED
    BY <2>1, <2>2
<1> QED
  BY <1>1, <1>2, PutUnique DEF AddHeader, AddVector

\* A frame makes at most its transmitter a neighbour, and none ceases to be.
LEMMA HeaderNeighbours ==
  ASSUME NEW tab \in Seq(Entry), UniqueIn(tab), NEW a \in Nodes, NEW ts \in Nat
  PROVE  /\ NeighboursIn(AddHeader(tab, a, ts)) \subseteq NeighboursIn(tab) \union {a}
         /\ NeighboursIn(tab) \subseteq NeighboursIn(AddHeader(tab, a, ts))
<1> DEFINE e == [gnAddr |-> a, Ts |-> ts, is_neigh |-> TRUE]
<1>1. e \in Entry /\ e.is_neigh /\ e.gnAddr = a
  BY DEF Entry
<1> HIDE DEF e
<1>2. /\ NeighboursIn(Put(tab, e)) \subseteq NeighboursIn(tab) \union {a}
      /\ NeighboursIn(tab) \subseteq NeighboursIn(Put(tab, e))
  BY <1>1, PutNeighbours
<1> QED
  BY <1>2 DEF AddHeader, e

\* A position vector makes at most the station itself one.
LEMMA VectorNeighbours ==
  ASSUME NEW tab \in Seq(Entry), UniqueIn(tab), NEW a \in Nodes, NEW ts \in Nat
  PROVE  /\ NeighboursIn(AddVector(tab, a, ts)) \subseteq NeighboursIn(tab) \union {Self}
         /\ NeighboursIn(tab) \subseteq NeighboursIn(AddVector(tab, a, ts))
<1> DEFINE b == IF Has(tab, a) THEN tab[At(tab, a)].is_neigh ELSE a = Self
           e == [gnAddr |-> a, Ts |-> ts, is_neigh |-> b]
<1>1. b \in BOOLEAN /\ (b => a \in NeighboursIn(tab) \union {Self})
      /\ (a \in NeighboursIn(tab) => b)
  <2>1. CASE Has(tab, a)
    <3>1. At(tab, a) \in DOMAIN tab /\ tab[At(tab, a)].gnAddr = a
      BY <2>1 DEF Has, At
    <3>2. tab[At(tab, a)] \in Entry
      BY <3>1
    <3>3. tab[At(tab, a)].is_neigh \in BOOLEAN
      BY <3>2 DEF Entry
    <3>4. \A i \in DOMAIN tab : tab[i].gnAddr = a => i = At(tab, a)
      BY <3>1 DEF UniqueIn
    <3> QED
      BY <2>1, <3>1, <3>3, <3>4 DEF NeighboursIn
  <2>2. CASE ~Has(tab, a)
    BY <2>2 DEF Has, NeighboursIn
  <2> QED
    BY <2>1, <2>2
<1> HIDE DEF b
<1>2. e \in Entry /\ e.is_neigh = b /\ e.gnAddr = a
  BY <1>1 DEF Entry
<1> HIDE DEF e
<1>3. /\ NeighboursIn(Put(tab, e)) \subseteq
           NeighboursIn(tab) \union (IF b THEN {a} ELSE {})
      /\ \A x \in NeighboursIn(tab) : x \in NeighboursIn(Put(tab, e)) \/ (x = a /\ ~b)
  BY <1>2, PutNeighbours
<1> QED
  BY <1>1, <1>3 DEF AddVector, e, b

\* What cleaning leaves: the places f lists, in order.
LEMMA KeptTable ==
  ASSUME NEW tab \in Seq(Entry), NEW E, NEW n \in Nat, NEW f \in [1 .. n -> DOMAIN tab],
         Keeps(tab, E, f)
  PROVE  LET r == [j \in 1 .. n |-> tab[f[j]]]
         IN  /\ r \in Seq(Entry) /\ Len(r) = n
             /\ \A j \in 1 .. n : r[j] = tab[f[j]]
             /\ \A i, j \in 1 .. n : f[i] = f[j] => i = j
<1>1. \A j \in 1 .. n : tab[f[j]] \in Entry /\ f[j] \in Int
  OBVIOUS
<1>2. \A i, j \in 1 .. n : f[i] = f[j] => i = j
  BY <1>1 DEF Keeps
<1> QED
  BY <1>1, <1>2

\* The steps of the table: what a reception, an event and the clock do.
Basic == TypeOK /\ UniqueEntries /\ OnlyHeardDirectly

\* A station's entries and neighbours, in the terms of the lemmas above.
LEMMA BasicTable ==
  /\ UniqueEntries <=> UniqueIn(table)
  /\ Neighbours = NeighboursIn(table)
  BY DEF UniqueEntries, UniqueIn, Neighbours, NeighboursIn

\* Cleaning leaves entries unique and takes neighbours away only.
LEMMA CleanBasic ==
  ASSUME TypeOK, UniqueIn(table), CleanTable
  PROVE  /\ table' \in Seq(Entry) /\ UniqueIn(table')
         /\ NeighboursIn(table') \subseteq NeighboursIn(table)
<1>1. PICK E \in SUBSET (DOMAIN table) :
        \E n \in 0 .. Len(table) : \E f \in [1 .. n -> DOMAIN table] :
          Keeps(table, E, f) /\ table' = [j \in 1 .. n |-> table[f[j]]]
  BY DEF CleanTable
<1>2. PICK n \in 0 .. Len(table) : \E f \in [1 .. n -> DOMAIN table] :
          Keeps(table, E, f) /\ table' = [j \in 1 .. n |-> table[f[j]]]
  BY <1>1
<1>3. PICK f \in [1 .. n -> DOMAIN table] :
          Keeps(table, E, f) /\ table' = [j \in 1 .. n |-> table[f[j]]]
  BY <1>2
<1>4. table \in Seq(Entry) /\ n \in Nat
  BY DEF TypeOK
<1>5. /\ table' \in Seq(Entry) /\ Len(table') = n
      /\ \A j \in 1 .. n : table'[j] = table[f[j]] /\ f[j] \in DOMAIN table
      /\ \A i, j \in 1 .. n : f[i] = f[j] => i = j
  BY <1>3, <1>4, KeptTable
<1>6. DOMAIN table' = 1 .. n
  BY <1>5
<1>7. UniqueIn(table')
  BY <1>5, <1>6 DEF UniqueIn
<1>8. NeighboursIn(table') \subseteq NeighboursIn(table)
  BY <1>5, <1>6 DEF NeighboursIn
<1> QED
  BY <1>5, <1>7, <1>8

\* What a reception does.
LEMMA ReceiveBasic ==
  ASSUME Basic,
         \/ \E a \in Nodes \ {Self} : \E ts \in Stamps : ReceiveFrame(a, ts)
         \/ \E a, src \in Nodes \ {Self} : \E ts, srcTs \in Stamps :
              ReceivePacket(a, ts, src, srcTs)
  PROVE  /\ Basic'
         /\ NeighboursIn(table) \subseteq NeighboursIn(table')
         /\ UNCHANGED <<now, ownAt, cleanAt, inBounds>>
<1>0. /\ table \in Seq(Entry) /\ UniqueIn(table) /\ now \in Nat
      /\ NeighboursIn(table) \subseteq heard \union {Self}
  BY BasicTable DEF Basic, TypeOK, OnlyHeardDirectly
<1>1. CASE \E a \in Nodes \ {Self} : \E ts \in Stamps : ReceiveFrame(a, ts)
  <2>1. PICK a \in Nodes \ {Self} : \E ts \in Stamps : ReceiveFrame(a, ts)
    BY <1>1
  <2>2. PICK ts \in Stamps : ReceiveFrame(a, ts)
    BY <2>1
  <2>3. ts \in Nat
    BY <1>0, StampType
  <2>4. /\ table' = AddHeader(table, a, ts) /\ heard' = heard \union {a}
        /\ UNCHANGED <<now, ownAt, cleanAt, inBounds>>
    BY <2>2 DEF ReceiveFrame
  <2>5. table' \in Seq(Entry) /\ UniqueIn(table')
    BY <1>0, <2>3, <2>4, AddTypes
  <2>6. /\ NeighboursIn(table') \subseteq NeighboursIn(table) \union {a}
        /\ NeighboursIn(table) \subseteq NeighboursIn(table')
    BY <1>0, <2>3, <2>4, HeaderNeighbours
  <2>7. UniqueEntries' /\ OnlyHeardDirectly'
    BY <1>0, <2>4, <2>5, <2>6, BasicTable
       DEF UniqueEntries, UniqueIn, OnlyHeardDirectly, Neighbours, NeighboursIn
  <2> QED
    BY <2>4, <2>5, <2>6, <2>7 DEF Basic, TypeOK
<1>2. CASE \E a, src \in Nodes \ {Self} : \E ts, srcTs \in Stamps :
             ReceivePacket(a, ts, src, srcTs)
  <2>1. PICK a, src \in Nodes \ {Self} : \E ts, srcTs \in Stamps :
               ReceivePacket(a, ts, src, srcTs)
    BY <1>2
  <2>2. PICK ts, srcTs \in Stamps : ReceivePacket(a, ts, src, srcTs)
    BY <2>1
  <2>3. ts \in Nat /\ srcTs \in Nat
    BY <1>0, StampType
  <2> DEFINE mid == AddHeader(table, a, ts)
  <2>4. /\ table' = AddVector(mid, src, srcTs) /\ heard' = heard \union {a}
        /\ UNCHANGED <<now, ownAt, cleanAt, inBounds>>
    BY <2>2 DEF ReceivePacket
  <2>5. mid \in Seq(Entry) /\ UniqueIn(mid)
    BY <1>0, <2>3, AddTypes
  <2>6. /\ NeighboursIn(mid) \subseteq NeighboursIn(table) \union {a}
        /\ NeighboursIn(table) \subseteq NeighboursIn(mid)
    BY <1>0, <2>3, HeaderNeighbours
  <2> HIDE DEF mid
  <2>7. table' \in Seq(Entry) /\ UniqueIn(table')
    BY <2>3, <2>4, <2>5, AddTypes
  <2>8. /\ NeighboursIn(table') \subseteq NeighboursIn(mid) \union {Self}
        /\ NeighboursIn(mid) \subseteq NeighboursIn(table')
    BY <2>3, <2>4, <2>5, VectorNeighbours
  <2>9. UniqueEntries' /\ OnlyHeardDirectly'
    BY <1>0, <2>4, <2>6, <2>7, <2>8
       DEF UniqueEntries, UniqueIn, OnlyHeardDirectly, Neighbours, NeighboursIn
  <2> QED
    BY <2>4, <2>6, <2>7, <2>8, <2>9 DEF Basic, TypeOK
<1> QED
  BY <1>1, <1>2

\* What the event of the own position does.
LEMMA OwnBasic ==
  ASSUME Basic, AddOwnEntry
  PROVE  Basic' /\ NeighboursIn(table) \subseteq NeighboursIn(table')
<1>0. /\ table \in Seq(Entry) /\ UniqueIn(table) /\ now \in Nat
      /\ NeighboursIn(table) \subseteq heard \union {Self}
  BY BasicTable DEF Basic, TypeOK, OnlyHeardDirectly
<1>1. /\ table' = AddVector(table, Self, Whole(now)) /\ ownAt' = now + BEACON
      /\ UNCHANGED <<now, cleanAt, inBounds, heard>>
  BY DEF AddOwnEntry
<1>2. Whole(now) \in Nat /\ Self \in Nodes
  BY <1>0, WholeType, LocationTableAssumption
<1>3. table' \in Seq(Entry) /\ UniqueIn(table')
  BY <1>0, <1>1, <1>2, AddTypes
<1>4. /\ NeighboursIn(table') \subseteq NeighboursIn(table) \union {Self}
      /\ NeighboursIn(table) \subseteq NeighboursIn(table')
  BY <1>0, <1>1, <1>2, VectorNeighbours
<1>5. UniqueEntries' /\ OnlyHeardDirectly'
  BY <1>0, <1>1, <1>3, <1>4
     DEF UniqueEntries, UniqueIn, OnlyHeardDirectly, Neighbours, NeighboursIn
<1>6. ownAt' \in Nat
  BY <1>0, <1>1, LocationTableAssumption
<1> QED
  BY <1>1, <1>3, <1>4, <1>5, <1>6 DEF Basic, TypeOK

\* The first table.
LEMMA InitBasic == Init => Basic
<1> SUFFICES ASSUME Init PROVE Basic
  OBVIOUS
<1>1. now \in Nat /\ ownAt \in Nat /\ cleanAt \in Nat /\ inBounds \in BOOLEAN /\ heard = {}
  BY LocationTableAssumption DEF Init
<1>2. [gnAddr |-> Self, Ts |-> Whole(now), is_neigh |-> TRUE] \in Entry
  BY <1>1, WholeType, LocationTableAssumption DEF Entry
<1>3. table \in Seq(Entry) /\ Len(table) = 1 /\ table[1].gnAddr = Self
  BY <1>2 DEF Init
<1>4. UniqueEntries /\ OnlyHeardDirectly
  BY <1>3 DEF UniqueEntries, OnlyHeardDirectly, Neighbours
<1> QED
  BY <1>1, <1>3, <1>4 DEF Basic, TypeOK

\* Every step keeps the basic invariant, and neighbours unless it cleans.
LEMMA NextBasic ==
  ASSUME Basic, [Next]_vars
  PROVE  /\ Basic'
         /\ Neighbours \subseteq Neighbours' \/ cleanAt' # cleanAt
<1>1. CASE \/ \E a \in Nodes \ {Self} : \E ts \in Stamps : ReceiveFrame(a, ts)
           \/ \E a, src \in Nodes \ {Self} : \E ts, srcTs \in Stamps :
                ReceivePacket(a, ts, src, srcTs)
  BY <1>1, ReceiveBasic DEF Neighbours, NeighboursIn
<1>2. CASE AddOwnEntry
  BY <1>2, OwnBasic DEF Neighbours, NeighboursIn
<1>3. CASE CleanTable
  <2>1. /\ inBounds' \in BOOLEAN /\ cleanAt' = now + LIFE /\ now = cleanAt
        /\ UNCHANGED <<now, ownAt, heard>>
    BY <1>3 DEF CleanTable
  <2>2. TypeOK /\ UniqueIn(table) /\ NeighboursIn(table) \subseteq heard \union {Self}
    BY BasicTable DEF Basic, OnlyHeardDirectly
  <2>3. /\ table' \in Seq(Entry) /\ UniqueIn(table')
        /\ NeighboursIn(table') \subseteq NeighboursIn(table)
    BY <1>3, <2>2, CleanBasic
  <2>4. UniqueEntries' /\ OnlyHeardDirectly'
    BY <2>1, <2>2, <2>3
       DEF UniqueEntries, UniqueIn, OnlyHeardDirectly, Neighbours, NeighboursIn
  <2>5. cleanAt' \in Nat /\ cleanAt' # cleanAt
    BY <2>1, <2>2, LocationTableAssumption DEF TypeOK
  <2> QED
    BY <2>1, <2>2, <2>3, <2>4, <2>5 DEF Basic, TypeOK
<1>4. CASE Tick
  BY <1>4 DEF Tick, Basic, TypeOK, UniqueEntries, OnlyHeardDirectly, Neighbours
<1>5. CASE UNCHANGED vars
  BY <1>5 DEF vars, Basic, TypeOK, UniqueEntries, OnlyHeardDirectly, Neighbours
<1> QED
  BY <1>1, <1>2, <1>3, <1>4, <1>5 DEF Next

LEMMA BasicInvariant == Spec => []Basic
<1>1. Basic /\ [Next]_vars => Basic'
  BY NextBasic
<1> QED
  BY InitBasic, <1>1, PTL DEF Spec

\* The variables of the location table have their types.
THEOREM TypeCorrect == Spec => []TypeOK
<1>1. Basic => TypeOK
  BY DEF Basic
<1> QED
  BY <1>1, BasicInvariant, PTL

\* No station has two entries, however late frames arrive.
THEOREM UniqueEntriesCorrect == Spec => []UniqueEntries
<1>1. Basic => UniqueEntries
  BY DEF Basic
<1> QED
  BY <1>1, BasicInvariant, PTL

\* A station whose position was only relayed is not taken for a neighbour.
THEOREM OnlyHeardDirectlyCorrect == Spec => []OnlyHeardDirectly
<1>1. Basic => OnlyHeardDirectly
  BY DEF Basic
<1> QED
  BY <1>1, BasicInvariant, PTL

\* A neighbour stops being one only when the table is cleaned.
THEOREM NeighbourLeavesByCleaningCorrect == Spec => NeighbourLeavesByCleaning
<1>1. Basic /\ [Next]_vars =>
        [Neighbours \subseteq Neighbours' \/ cleanAt' # cleanAt]_vars
  BY NextBasic
<1> QED
  BY <1>1, BasicInvariant, PTL DEF Spec, NeighbourLeavesByCleaning

-----------------------------------------------------------------------------
(* The last entry is fresh, and entries do not grow old.                   *)

\* How much older than LIFE an entry at place i may have been when the table
\* was cleaned last.
Budget(i) == LIFE * (IF Cardinality(Nodes) - i > 1 THEN Cardinality(Nodes) - i ELSE 1)

\* There are two stations at least.
LEMMA TwoStations == Cardinality(Nodes) \in Nat /\ Cardinality(Nodes) >= 2
<1>1. PICK x \in Nodes : x # Self
  BY LocationTableAssumption
<1>2. IsFiniteSet({Self}) /\ Cardinality({Self}) = 1
  BY FS_Singleton
<1>3. IsFiniteSet({Self} \union {x}) /\ Cardinality({Self} \union {x}) = 2
  BY <1>1, <1>2, FS_AddElement
<1>4. {Self} \union {x} \in SUBSET Nodes
  BY <1>1, LocationTableAssumption
<1>5. Cardinality({Self} \union {x}) <= Cardinality(Nodes)
  BY <1>4, FS_Subset, LocationTableAssumption
<1> QED
  BY <1>3, <1>5, FS_CardinalityType, LocationTableAssumption

LEMMA BudgetFacts ==
  /\ \A i \in Nat \ {0} : Budget(i) \in Nat /\ Budget(i) >= LIFE
                          /\ Budget(i) + LIFE <= LIFE * Cardinality(Nodes)
  /\ \A i, j \in Nat \ {0} : j <= i => Budget(j) >= Budget(i)
  /\ \A i, j \in Nat \ {0} : j < i /\ i < Cardinality(Nodes) => Budget(j) >= Budget(i) + LIFE
<1> DEFINE n == Cardinality(Nodes)
           K(i) == IF n - i > 1 THEN n - i ELSE 1
<1>0. n \in Nat /\ n >= 2 /\ LIFE \in Nat /\ LIFE >= 1
  BY TwoStations, LocationTableAssumption
<1>1. \A a, b \in Nat : a <= b => LIFE * a <= LIFE * b
  BY <1>0
<1>2. \A a \in Nat : LIFE * (a + 1) = LIFE * a + LIFE /\ LIFE * a \in Nat
  BY <1>0
<1>3. LIFE * 1 = LIFE
  BY <1>0
<1> HIDE DEF n
<1>4. \A i \in Nat \ {0} : K(i) \in Nat /\ K(i) >= 1 /\ K(i) + 1 <= n
  BY <1>0
<1>5. \A i, j \in Nat \ {0} : j <= i => K(j) >= K(i)
  BY <1>0
<1>6. \A i, j \in Nat \ {0} : j < i /\ i < n => K(j) >= K(i) + 1
  BY <1>0
<1>7. \A i : Budget(i) = LIFE * K(i)
  BY DEF Budget, n
<1> HIDE DEF K
<1>8. \A i \in Nat \ {0} : Budget(i) \in Nat /\ Budget(i) >= LIFE /\ Budget(i) + LIFE <= LIFE * n
  <2> SUFFICES ASSUME NEW i \in Nat \ {0}
               PROVE  Budget(i) \in Nat /\ Budget(i) >= LIFE /\ Budget(i) + LIFE <= LIFE * n
    OBVIOUS
  <2>1. LIFE * 1 <= LIFE * K(i) /\ LIFE * (K(i) + 1) <= LIFE * n
    BY <1>0, <1>1, <1>4
  <2>2. LIFE * (K(i) + 1) = LIFE * K(i) + LIFE /\ LIFE * K(i) \in Nat
    BY <1>2, <1>4
  <2> QED
    BY <2>1, <2>2, <1>3, <1>7
<1>9. \A i, j \in Nat \ {0} : j <= i => Budget(j) >= Budget(i)
  BY <1>0, <1>1, <1>4, <1>5, <1>7
<1>10. \A i, j \in Nat \ {0} : j < i /\ i < n => Budget(j) >= Budget(i) + LIFE
  <2> SUFFICES ASSUME NEW i \in Nat \ {0}, NEW j \in Nat \ {0}, j < i, i < n
               PROVE  Budget(j) >= Budget(i) + LIFE
    OBVIOUS
  <2>1. LIFE * (K(i) + 1) <= LIFE * K(j)
    BY <1>1, <1>4, <1>6
  <2> QED
    BY <2>1, <1>2, <1>4, <1>7
<1> QED
  BY <1>8, <1>9, <1>10 DEF n

\* A table of unique entries has one place for every station at most.
LEMMA TableLength ==
  ASSUME NEW tab \in Seq(Entry), UniqueIn(tab)
  PROVE  Len(tab) \in Nat /\ Len(tab) <= Cardinality(Nodes)
<1> DEFINE g == [i \in 1 .. Len(tab) |-> tab[i].gnAddr]
<1>1. \A i \in 1 .. Len(tab) : tab[i] \in Entry
  OBVIOUS
<1>2. \A i \in 1 .. Len(tab) : tab[i].gnAddr \in Nodes
  BY <1>1 DEF Entry
<1>3. g \in Injection(1 .. Len(tab), Nodes)
  BY <1>2 DEF UniqueIn, Injection, IsInjective
<1>4. Cardinality(1 .. Len(tab)) <= Cardinality(Nodes)
  BY <1>3, FS_Injection, LocationTableAssumption
<1>5. Cardinality(1 .. Len(tab)) = Len(tab)
  <2>1. Len(tab) \in Nat /\ Len(tab) \in Int /\ 1 \in Int
    OBVIOUS
  <2>2. Cardinality(1 .. Len(tab)) = IF 1 > Len(tab) THEN 0 ELSE Len(tab) - 1 + 1
    BY <2>1, FS_Interval
  <2> QED
    BY <2>1, <2>2
<1> QED
  BY <1>4, <1>5

\* What keeps the last entry fresh and the others bounded, of a table whose
\* own entry has time own, cleaned last at time last.
Sound(tab, own, last) ==
  /\ tab \in Seq(Entry) /\ UniqueIn(tab) /\ Has(tab, Self)
  /\ \A i \in DOMAIN tab : tab[i].gnAddr = Self => tab[i].Ts = own
  /\ \A i, j \in DOMAIN tab :
       tab[i].gnAddr = Self /\ i < j => tab[j].Ts > own - MaxDelay - SECOND
  /\ \A i \in DOMAIN tab : last - tab[i].Ts < Budget(i)

\* Old entries keep their bound when others are erased before them.
LEMMA PutBudget ==
  ASSUME NEW own \in Int, NEW last \in Int, NEW tab, Sound(tab, own, last),
         NEW e \in Entry, last - e.Ts < LIFE
  PROVE  \A i \in DOMAIN Put(tab, e) : last - Put(tab, e)[i].Ts < Budget(i)
<1>0. tab \in Seq(Entry) /\ UniqueIn(tab)
  BY DEF Sound
<1>1. CASE Put(tab, e) = tab
  BY <1>1 DEF Sound
<1>2. CASE Put(tab, e) # tab
  <2> DEFINE r == Put(tab, e)
  <2>1. PICK g : Carries(r, tab, e.gnAddr, g)
    BY <1>0, <1>2, PutPlaces
  <2>2. r \in Seq(Entry) /\ Len(r) >= 1 /\ r[Len(r)] = e
    BY <1>0, <1>2, PutPlaces
  <2> HIDE DEF r
  <2>3. ASSUME NEW i \in DOMAIN r
        PROVE  last - r[i].Ts < Budget(i)
    <3>1. i \in Nat \ {0} /\ Budget(i) \in Nat /\ Budget(i) >= LIFE
      BY <2>2, BudgetFacts
    <3>2. CASE i = Len(r)
      <4>1. e.Ts \in Nat
        BY DEF Entry
      <4> QED
        BY <3>1, <3>2, <4>1, <2>2, LocationTableAssumption
    <3>3. CASE i # Len(r)
      <4>1. i \in 1 .. Len(r) - 1
        BY <3>3, <2>2
      <4>2. r[i] = tab[g[i]] /\ g[i] \in DOMAIN tab /\ g[i] >= i
        BY <4>1, <2>1 DEF Carries
      <4>3. g[i] \in Nat \ {0} /\ tab[g[i]] \in Entry
        BY <4>2, <1>0
      <4>4. tab[g[i]].Ts \in Nat
        BY <4>3 DEF Entry
      <4>5. last - tab[g[i]].Ts < Budget(g[i])
        BY <4>2 DEF Sound
      <4>6. Budget(i) >= Budget(g[i]) /\ Budget(g[i]) \in Nat
        BY <3>1, <4>2, <4>3, BudgetFacts
      <4> QED
        BY <3>1, <4>2, <4>4, <4>5, <4>6
    <3> QED
      BY <3>2, <3>3
  <2> QED
    BY <2>3 DEF r
<1> QED
  BY <1>1, <1>2

\* The entry of another station goes behind the own one.
LEMMA PutOtherSound ==
  ASSUME NEW own \in Int, NEW last \in Int, NEW tab, Sound(tab, own, last),
         NEW e \in Entry, e.gnAddr # Self,
         last - e.Ts < LIFE, e.Ts > own - MaxDelay - SECOND
  PROVE  Sound(Put(tab, e), own, last)
<1>0. tab \in Seq(Entry) /\ UniqueIn(tab)
  BY DEF Sound
<1>1. CASE Put(tab, e) = tab
  BY <1>1
<1>2. CASE Put(tab, e) # tab
  <2> DEFINE r == Put(tab, e)
  <2>1. PICK g : Carries(r, tab, e.gnAddr, g)
    BY <1>0, <1>2, PutPlaces
  <2>2. r \in Seq(Entry) /\ UniqueIn(r) /\ Len(r) >= 1 /\ r[Len(r)] = e
    BY <1>0, <1>2, PutPlaces, PutUnique
  <2>3. \A i \in DOMAIN r : last - r[i].Ts < Budget(i)
    BY PutBudget
  <2> HIDE DEF r
  <2>4. Has(r, Self)
    <3>1. PICK i \in DOMAIN tab : tab[i].gnAddr = Self
      BY DEF Sound, Has
    <3>2. PICK k \in 1 .. Len(r) - 1 : g[k] = i
      BY <3>1, <2>1 DEF Carries
    <3>3. r[k] = tab[i] /\ k \in DOMAIN r
      BY <3>2, <2>1, <2>2 DEF Carries
    <3> QED
      BY <3>1, <3>3 DEF Has
  <2>5. ASSUME NEW i \in DOMAIN r, r[i].gnAddr = Self
        PROVE  /\ i \in 1 .. Len(r) - 1 /\ g[i] \in DOMAIN tab
               /\ tab[g[i]].gnAddr = Self /\ r[i].Ts = own
    <3>1. i \in 1 .. Len(r) - 1
      BY <2>2, <2>5
    <3>2. r[i] = tab[g[i]] /\ g[i] \in DOMAIN tab
      BY <3>1, <2>1 DEF Carries
    <3> QED
      BY <3>1, <3>2, <2>5 DEF Sound
  <2>6. ASSUME NEW i \in DOMAIN r, NEW j \in DOMAIN r, r[i].gnAddr = Self, i < j
        PROVE  r[j].Ts > own - MaxDelay - SECOND
    <3>1. /\ i \in 1 .. Len(r) - 1 /\ g[i] \in DOMAIN tab /\ tab[g[i]].gnAddr = Self
      BY <2>5, <2>6
    <3>2. CASE j = Len(r)
      BY <3>2, <2>2
    <3>3. CASE j # Len(r)
      <4>1. j \in 1 .. Len(r) - 1
        BY <3>3, <2>2
      <4>2. r[j] = tab[g[j]] /\ g[j] \in DOMAIN tab /\ g[i] < g[j]
        BY <4>1, <3>1, <2>1, <2>6 DEF Carries
      <4> QED
        BY <4>2, <3>1 DEF Sound
    <3> QED
      BY <3>2, <3>3
  <2> QED
    BY <2>2, <2>3, <2>4, <2>5, <2>6 DEF Sound, r
<1> QED
  BY <1>1, <1>2

\* The own entry goes to the end.
LEMMA PutOwnSound ==
  ASSUME NEW own \in Int, NEW last \in Int, NEW tab, Sound(tab, own, last),
         NEW e \in Entry, e.gnAddr = Self, last - e.Ts < LIFE
  PROVE  Sound(Put(tab, e), e.Ts, last)
<1>0. tab \in Seq(Entry) /\ UniqueIn(tab)
  BY DEF Sound
<1>1. CASE Put(tab, e) = tab
  <2>1. ~Has(tab, Self) => FALSE
    BY DEF Sound
  <2>2. PICK i \in DOMAIN tab : tab[i].gnAddr = Self
                                /\ (tab[i].Ts = e.Ts \/ Put(tab, e) = Append(Without(tab, i), e))
    BY <1>0, <2>1, PutShape
  <2>3. e.Ts = own
    <3>1. CASE tab[i].Ts = e.Ts
      BY <3>1, <2>2 DEF Sound
    <3>2. CASE Put(tab, e) = Append(Without(tab, i), e)
      <4>1. Without(tab, i) \in Seq(Entry) /\ Len(Without(tab, i)) = Len(tab) - 1
        BY <1>0, WithoutShape
      <4>2. Put(tab, e)[Len(tab)] = e /\ Len(tab) \in DOMAIN tab
        BY <4>1, <3>2, <2>2, <1>0
      <4> QED
        BY <4>2, <1>1 DEF Sound
    <3> QED
      BY <2>2, <3>1, <3>2
  <2> QED
    BY <1>1, <2>3
<1>2. CASE Put(tab, e) # tab
  <2> DEFINE r == Put(tab, e)
  <2>1. r \in Seq(Entry) /\ UniqueIn(r) /\ Len(r) >= 1 /\ r[Len(r)] = e
    BY <1>0, <1>2, PutPlaces, PutUnique
  <2>2. \A i \in DOMAIN r : last - r[i].Ts < Budget(i)
    BY PutBudget
  <2> HIDE DEF r
  <2>3. Len(r) \in DOMAIN r
    BY <2>1
  <2>4. \A i \in DOMAIN r : r[i].gnAddr = Self => i = Len(r)
    BY <2>1, <2>3 DEF UniqueIn
  <2>5. \A i, j \in DOMAIN r : r[i].gnAddr = Self => ~(i < j)
    BY <2>1, <2>4
  <2> QED
    BY <2>1, <2>2, <2>3, <2>4, <2>5 DEF Sound, Has, r
<1> QED
  BY <1>1, <1>2

\* The events that are due, and the table they find.
Clock ==
  /\ now <= ownAt /\ ownAt <= now + BEACON /\ ownAt >= BEACON
  /\ now <= cleanAt /\ cleanAt <= now + LIFE

Strong ==
  /\ Basic /\ inBounds /\ Clock
  /\ Sound(table, Whole(ownAt - BEACON), cleanAt - LIFE)

\* The numbers of a state of the strong invariant.
LEMMA StrongTypes ==
  ASSUME Strong
  PROVE  /\ now \in Nat /\ ownAt \in Nat /\ cleanAt \in Nat
         /\ cleanAt - LIFE \in Int /\ ownAt - BEACON \in Nat
         /\ Whole(ownAt - BEACON) \in Nat
         /\ Whole(ownAt - BEACON) <= ownAt - BEACON
         /\ ownAt - BEACON < Whole(ownAt - BEACON) + SECOND
<1>1. /\ now \in Nat /\ ownAt \in Nat /\ cleanAt \in Nat
      /\ cleanAt - LIFE \in Int /\ ownAt - BEACON \in Nat
  BY LocationTableAssumption DEF Strong, Basic, TypeOK, Clock
<1> QED
  BY <1>1, WholeType

\* A vector of another station, of either form, keeps the table sound.
LEMMA OtherSound ==
  ASSUME Prompt, Strong, NEW tab, NEW a \in Nodes \ {Self}, NEW ts \in Stamps,
         Sound(tab, Whole(ownAt - BEACON), cleanAt - LIFE)
  PROVE  /\ Sound(AddHeader(tab, a, ts), Whole(ownAt - BEACON), cleanAt - LIFE)
         /\ Sound(AddVector(tab, a, ts), Whole(ownAt - BEACON), cleanAt - LIFE)
<1> DEFINE own == Whole(ownAt - BEACON)
           last == cleanAt - LIFE
<1>1. ts \in Nat /\ ts <= now /\ now < ts + MaxDelay + SECOND /\ now \in Nat
  BY StrongTypes, StampType
<1>2. own \in Int /\ last \in Int /\ own <= now /\ last <= now
  BY StrongTypes, LocationTableAssumption DEF Strong, Clock
<1> HIDE DEF own, last
<1>3. ts > own - MaxDelay - SECOND /\ last - ts < LIFE
  BY <1>1, <1>2, LocationTableAssumption DEF Prompt
<1>4. ASSUME NEW b \in BOOLEAN
      PROVE  Sound(Put(tab, [gnAddr |-> a, Ts |-> ts, is_neigh |-> b]), own, last)
  <2> DEFINE e == [gnAddr |-> a, Ts |-> ts, is_neigh |-> b]
  <2>1. e \in Entry /\ e.Ts = ts /\ e.gnAddr # Self
    BY <1>1 DEF Entry
  <2>2. Sound(tab, own, last)
    BY DEF own, last
  <2> HIDE DEF e
  <2>3. Sound(Put(tab, e), own, last)
    BY <2>1, <2>2, <1>2, <1>3, PutOtherSound
  <2> QED
    BY <2>3 DEF e
<1>5. (IF Has(tab, a) THEN tab[At(tab, a)].is_neigh ELSE a = Self) \in BOOLEAN
  <2>1. tab \in Seq(Entry)
    BY DEF Sound
  <2>2. CASE Has(tab, a)
    <3>1. At(tab, a) \in DOMAIN tab
      BY <2>2 DEF Has, At
    <3>2. tab[At(tab, a)] \in Entry
      BY <2>1, <3>1
    <3> QED
      BY <2>2, <3>2 DEF Entry
  <2>3. CASE ~Has(tab, a)
    BY <2>3
  <2> QED
    BY <2>2, <2>3
<1>6. Sound(AddHeader(tab, a, ts), own, last)
  BY <1>4 DEF AddHeader
<1>7. Sound(AddVector(tab, a, ts), own, last)
  BY <1>4, <1>5 DEF AddVector
<1> QED
  BY <1>6, <1>7 DEF own, last

\* The own position, stored when its event is due.
LEMMA OwnSound ==
  ASSUME Prompt, Strong, ownAt = now
  PROVE  Sound(AddVector(table, Self, Whole(now)), Whole(now), cleanAt - LIFE)
<1> DEFINE last == cleanAt - LIFE
           own == Whole(ownAt - BEACON)
           b == IF Has(table, Self) THEN table[At(table, Self)].is_neigh ELSE Self = Self
           e == [gnAddr |-> Self, Ts |-> Whole(now), is_neigh |-> b]
<1>1. /\ Whole(now) \in Nat /\ now < Whole(now) + SECOND /\ now \in Nat
      /\ own \in Int /\ last \in Int /\ last <= now
  BY StrongTypes, WholeType, LocationTableAssumption DEF Strong, Clock
<1>2. Sound(table, own, last)
  BY DEF Strong
<1> HIDE DEF last, own
<1>3. last - Whole(now) < LIFE
  BY <1>1, LocationTableAssumption DEF Prompt
<1>4. b \in BOOLEAN
  <2>1. table \in Seq(Entry) /\ Has(table, Self)
    BY <1>2 DEF Sound
  <2>2. At(table, Self) \in DOMAIN table
    BY <2>1 DEF Has, At
  <2>3. table[At(table, Self)] \in Entry
    BY <2>1, <2>2
  <2> QED
    BY <2>1, <2>3 DEF Entry
<1> HIDE DEF b
<1>5. e \in Entry /\ e.gnAddr = Self /\ e.Ts = Whole(now)
  BY <1>1, <1>4, LocationTableAssumption DEF Entry
<1> HIDE DEF e
<1>6. Sound(Put(table, e), e.Ts, last)
  BY <1>1, <1>2, <1>3, <1>5, PutOwnSound
<1>7. AddVector(table, Self, Whole(now)) = Put(table, e)
  BY DEF AddVector, e, b
<1> QED
  BY <1>5, <1>6, <1>7 DEF last

\* When the table is cleaned, its last entry has not expired: it is the own
\* one, or was stored after it.
LEMMA LastFresh ==
  ASSUME Prompt, Strong, cleanAt = now
  PROVE  /\ Len(table) \in DOMAIN table
         /\ ~Expired(table[Len(table)])
         /\ \A i \in DOMAIN table : table[i].gnAddr = Self => ~Expired(table[i])
<1> DEFINE own == Whole(ownAt - BEACON)
<1>1. Sound(table, own, cleanAt - LIFE) /\ table \in Seq(Entry)
  BY DEF Strong, Sound
<1>2. own \in Nat /\ now \in Nat /\ now < own + SECOND + BEACON
  BY StrongTypes, LocationTableAssumption DEF Strong, Clock
<1> HIDE DEF own
<1>3. PICK i \in DOMAIN table : table[i].gnAddr = Self
  BY <1>1 DEF Sound, Has
<1>4. Len(table) \in DOMAIN table /\ i <= Len(table)
  BY <1>1, <1>3
<1>5. table[Len(table)] \in Entry /\ table[i] \in Entry
  BY <1>1, <1>3, <1>4
<1>6. \A k \in DOMAIN table : table[k].gnAddr = Self => ~Expired(table[k])
  BY <1>1, <1>2, LocationTableAssumption DEF Sound, Expired, Prompt
<1>7. CASE i = Len(table)
  BY <1>3, <1>4, <1>6, <1>7
<1>8. CASE i # Len(table)
  <2>1. i < Len(table)
    BY <1>1, <1>3, <1>4, <1>8
  <2>2. table[Len(table)].Ts > own - MaxDelay - SECOND
    BY <1>1, <1>3, <1>4, <2>1 DEF Sound
  <2>3. table[Len(table)].Ts \in Nat
    BY <1>5 DEF Entry
  <2> QED
    BY <1>2, <1>4, <1>6, <2>2, <2>3, LocationTableAssumption DEF Expired, Prompt
<1> QED
  BY <1>7, <1>8

\* Cleaning keeps the table sound: an entry that has expired and stays had
\* one erased before it, so its place is nearer to the front.
LEMMA CleanSound ==
  ASSUME Prompt, Strong, CleanTable
  PROVE  inBounds' /\ Sound(table', Whole(ownAt - BEACON), now)
<1> DEFINE own == Whole(ownAt - BEACON)
           last == cleanAt - LIFE
<1>1. PICK E \in SUBSET (DOMAIN table) :
        /\ IsErased(table, E)
        /\ \E n \in 0 .. Len(table) : \E f \in [1 .. n -> DOMAIN table] :
             Keeps(table, E, f) /\ table' = [j \in 1 .. n |-> table[f[j]]]
        /\ inBounds' = (Len(table) \notin E)
  BY DEF CleanTable
<1>2. PICK n \in 0 .. Len(table) : \E f \in [1 .. n -> DOMAIN table] :
          Keeps(table, E, f) /\ table' = [j \in 1 .. n |-> table[f[j]]]
  BY <1>1
<1>3. PICK f \in [1 .. n -> DOMAIN table] :
          Keeps(table, E, f) /\ table' = [j \in 1 .. n |-> table[f[j]]]
  BY <1>2
<1>4. Sound(table, own, last) /\ table \in Seq(Entry) /\ UniqueIn(table) /\ n \in Nat
  BY DEF Strong, Sound
<1>5. /\ table' \in Seq(Entry) /\ Len(table') = n
      /\ \A j \in 1 .. n : table'[j] = table[f[j]] /\ f[j] \in DOMAIN table
      /\ \A i, j \in 1 .. n : f[i] = f[j] => i = j
  BY <1>3, <1>4, KeptTable
<1>6. DOMAIN table' = 1 .. n
  BY <1>5
<1>7. UniqueIn(table')
  BY <1>4, <1>5, <1>6 DEF UniqueIn
<1>8. /\ cleanAt = now /\ own \in Nat /\ last \in Int /\ now \in Nat /\ now = last + LIFE
  BY StrongTypes, LocationTableAssumption DEF CleanTable
<1>9. /\ Len(table) \in DOMAIN table /\ Len(table) \notin E
      /\ \A i \in DOMAIN table : table[i].gnAddr = Self => i \notin E
  BY <1>1, <1>8, LastFresh DEF IsErased
<1>10. Len(table) \in Nat /\ Len(table) <= Cardinality(Nodes)
  BY <1>4, TableLength
<1> HIDE DEF own, last
<1>11. Has(table', Self)
  <2>1. PICK i \in DOMAIN table : table[i].gnAddr = Self
    BY <1>4 DEF Sound, Has
  <2>2. PICK j \in DOMAIN f : f[j] = i
    BY <1>3, <1>9, <2>1 DEF Keeps
  <2> QED
    BY <1>5, <1>6, <2>1, <2>2 DEF Has
<1>12. \A i \in DOMAIN table' : table'[i].gnAddr = Self => table'[i].Ts = own
  BY <1>4, <1>5, <1>6 DEF Sound
<1>13. ASSUME NEW i \in DOMAIN table', NEW j \in DOMAIN table',
              table'[i].gnAddr = Self, i < j
       PROVE  table'[j].Ts > own - MaxDelay - SECOND
  <2>1. f[i] < f[j] /\ f[i] \in DOMAIN table /\ f[j] \in DOMAIN table
    BY <1>3, <1>5, <1>6, <1>13 DEF Keeps
  <2>2. table'[i] = table[f[i]] /\ table'[j] = table[f[j]]
    BY <1>5, <1>6
  <2> QED
    BY <2>1, <2>2, <1>4, <1>13 DEF Sound
<1>14. ASSUME NEW j \in DOMAIN table'
       PROVE  now - table'[j].Ts < Budget(j)
  <2>1. /\ j \in Nat \ {0} /\ j \in 1 .. n /\ f[j] \in DOMAIN table /\ f[j] \in Nat \ {0}
        /\ f[j] \notin E /\ f[j] >= j /\ table'[j] = table[f[j]]
    BY <1>3, <1>4, <1>5, <1>6 DEF Keeps
  <2>2. table[f[j]] \in Entry
    BY <2>1, <1>4
  <2>3. table[f[j]].Ts \in Nat
    BY <2>2 DEF Entry
  <2>4. Budget(j) \in Nat /\ Budget(j) >= LIFE /\ Budget(f[j]) \in Nat
    BY <2>1, BudgetFacts
  <2>5. CASE ~Expired(table[f[j]])
    BY <2>1, <2>3, <2>4, <2>5, <1>8, LocationTableAssumption DEF Expired
  <2>6. CASE Expired(table[f[j]])
    <3>1. f[j] - 1 \in E
      BY <2>1, <2>6, <1>1 DEF IsErased
    <3>2. f[j] - 1 \in DOMAIN table /\ f[j] - 1 >= 1
      BY <3>1, <1>4
    <3>3. j < f[j]
      <4>1. CASE j = 1
        BY <4>1, <3>2, <2>1
      <4>2. CASE j # 1
        <5>1. /\ j - 1 \in 1 .. n /\ j - 1 < j
          BY <4>2, <2>1
        <5>2. f[j - 1] < f[j] /\ f[j - 1] \notin E /\ f[j - 1] >= j - 1 /\ f[j - 1] \in Nat
          BY <5>1, <2>1, <1>3, <1>4 DEF Keeps
        <5>3. f[j - 1] # f[j] - 1
          BY <3>1, <5>2
        <5> QED
          BY <5>2, <5>3, <2>1
      <4> QED
        BY <4>1, <4>2
    <3>4. f[j] # Len(table)
      BY <2>6, <1>8, LastFresh
    <3>5. f[j] < Cardinality(Nodes)
      BY <3>4, <2>1, <1>4, <1>10, TwoStations
    <3>6. Budget(j) >= Budget(f[j]) + LIFE
      BY <2>1, <3>3, <3>5, BudgetFacts
    <3>7. last - table[f[j]].Ts < Budget(f[j])
      BY <2>1, <1>4 DEF Sound
    <3> QED
      BY <2>1, <2>3, <2>4, <3>6, <3>7, <1>8, LocationTableAssumption
  <2> QED
    BY <2>5, <2>6
<1> QED
  BY <1>1, <1>5, <1>7, <1>9, <1>11, <1>12, <1>13, <1>14 DEF Sound, own

\* The first table is sound.
LEMMA InitStrong == Prompt /\ Init => Strong
<1> SUFFICES ASSUME Prompt, Init PROVE Strong
  OBVIOUS
<1>1. now \in Nat /\ ownAt - BEACON = now /\ cleanAt - LIFE = now /\ inBounds /\ Clock
  BY LocationTableAssumption DEF Init, Clock
<1>2. Whole(now) \in Nat /\ Whole(now) <= now /\ now < Whole(now) + SECOND
  BY <1>1, WholeType
<1>3. [gnAddr |-> Self, Ts |-> Whole(now), is_neigh |-> TRUE] \in Entry
  BY <1>2, LocationTableAssumption DEF Entry
<1>4. /\ table \in Seq(Entry) /\ Len(table) = 1 /\ DOMAIN table = {1}
      /\ table[1].gnAddr = Self /\ table[1].Ts = Whole(now)
  BY <1>3 DEF Init
<1>5. Budget(1) \in Nat /\ Budget(1) >= LIFE
  BY BudgetFacts
<1>6. now - Whole(now) < Budget(1)
  BY <1>1, <1>2, <1>5, LocationTableAssumption DEF Prompt
<1>7. Sound(table, Whole(now), now)
  BY <1>4, <1>6 DEF Sound, UniqueIn, Has
<1> QED
  BY <1>1, <1>7, InitBasic DEF Strong

\* Every step keeps the strong invariant.
LEMMA NextStrong ==
  ASSUME Prompt, Strong, [Next]_vars
  PROVE  Strong'
<1>1. Basic'
  BY NextBasic DEF Strong
<1>2. CASE \E a \in Nodes \ {Self} : \E ts \in Stamps : ReceiveFrame(a, ts)
  <2>1. PICK a \in Nodes \ {Self} : \E ts \in Stamps : ReceiveFrame(a, ts)
    BY <1>2
  <2>2. PICK ts \in Stamps : ReceiveFrame(a, ts)
    BY <2>1
  <2>3. table' = AddHeader(table, a, ts) /\ UNCHANGED <<now, ownAt, cleanAt, inBounds>>
    BY <2>2 DEF ReceiveFrame
  <2>4. Sound(table', Whole(ownAt - BEACON), cleanAt - LIFE)
    BY <2>3, OtherSound DEF Strong
  <2> QED
    BY <1>1, <2>3, <2>4 DEF Strong, Clock
<1>3. CASE \E a, src \in Nodes \ {Self} : \E ts, srcTs \in Stamps :
             ReceivePacket(a, ts, src, srcTs)
  <2>1. PICK a, src \in Nodes \ {Self} : \E ts, srcTs \in Stamps :
               ReceivePacket(a, ts, src, srcTs)
    BY <1>3
  <2>2. PICK ts, srcTs \in Stamps : ReceivePacket(a, ts, src, srcTs)
    BY <2>1
  <2>3. /\ table' = AddVector(AddHeader(table, a, ts), src, srcTs)
        /\ UNCHANGED <<now, ownAt, cleanAt, inBounds>>
    BY <2>2 DEF ReceivePacket
  <2>4. Sound(AddHeader(table, a, ts), Whole(ownAt - BEACON), cleanAt - LIFE)
    BY OtherSound DEF Strong
  <2>5. Sound(table', Whole(ownAt - BEACON), cleanAt - LIFE)
    BY <2>3, <2>4, OtherSound
  <2> QED
    BY <1>1, <2>3, <2>5 DEF Strong, Clock
<1>4. CASE AddOwnEntry
  <2>1. /\ table' = AddVector(table, Self, Whole(now)) /\ ownAt' = now + BEACON
        /\ ownAt = now /\ UNCHANGED <<now, cleanAt, inBounds>>
    BY <1>4 DEF AddOwnEntry
  <2>2. Sound(table', Whole(now), cleanAt - LIFE)
    BY <2>1, OwnSound
  <2>3. ownAt' - BEACON = now /\ Clock'
    BY <2>1, StrongTypes, LocationTableAssumption DEF Strong, Clock
  <2> QED
    BY <1>1, <2>1, <2>2, <2>3 DEF Strong
<1>5. CASE CleanTable
  <2>1. cleanAt = now /\ cleanAt' = now + LIFE /\ UNCHANGED <<now, ownAt>>
    BY <1>5 DEF CleanTable
  <2>2. inBounds' /\ Sound(table', Whole(ownAt - BEACON), now)
    BY <1>5, CleanSound
  <2>3. cleanAt' - LIFE = now /\ Clock'
    BY <2>1, StrongTypes, LocationTableAssumption DEF Strong, Clock
  <2> QED
    BY <1>1, <2>1, <2>2, <2>3 DEF Strong
<1>6. CASE Tick
  <2>1. now' = now + 1 /\ ownAt # now /\ cleanAt # now
        /\ UNCHANGED <<table, ownAt, cleanAt, inBounds>>
    BY <1>6 DEF Tick
  <2>2. Clock'
    BY <2>1, StrongTypes, LocationTableAssumption DEF Strong, Clock
  <2> QED
    BY <1>1, <2>1, <2>2 DEF Strong
<1>7. CASE UNCHANGED vars
  BY <1>1, <1>7 DEF vars, Strong, Clock
<1> QED
  BY <1>2, <1>3, <1>4, <1>5, <1>6, <1>7 DEF Next

LEMMA StrongInvariant == Prompt => (Spec => []Strong)
<1>1. Prompt /\ Strong /\ [Next]_vars => Strong'
  BY NextStrong
<1> SUFFICES ASSUME Prompt PROVE Spec => []Strong
  OBVIOUS
<1>2. Init => Strong
  BY InitStrong
<1>3. Strong /\ [Next]_vars => Strong'
  BY <1>1
<1> QED
  BY <1>2, <1>3, PTL DEF Spec

\* When frames arrive promptly, cleaning never leaves the vector.
THEOREM CleanInBoundsCorrect == ASSUME Prompt PROVE Spec => []CleanInBounds
<1>1. Strong => CleanInBounds
  BY DEF Strong, CleanInBounds
<1> QED
  BY <1>1, StrongInvariant, PTL

\* When frames arrive promptly, a position is at most LIFE old for every
\* station there is.
THEOREM AgeBoundCorrect == ASSUME Prompt PROVE Spec => []AgeBound
<1>1. ASSUME Strong PROVE AgeBound
  <2>1. SUFFICES ASSUME NEW i \in DOMAIN table
                 PROVE  now - table[i].Ts < LIFE * Cardinality(Nodes)
    BY DEF AgeBound
  <2>2. Sound(table, Whole(ownAt - BEACON), cleanAt - LIFE) /\ table \in Seq(Entry)
    BY <1>1 DEF Strong, Sound
  <2>3. table[i] \in Entry /\ i \in Nat \ {0}
    BY <2>2
  <2>4. table[i].Ts \in Nat
    BY <2>3 DEF Entry
  <2>5. cleanAt - LIFE - table[i].Ts < Budget(i)
    BY <2>2 DEF Sound
  <2>6. Budget(i) \in Nat /\ Budget(i) + LIFE <= LIFE * Cardinality(Nodes)
    BY <2>3, BudgetFacts
  <2>7. LIFE * Cardinality(Nodes) \in Nat
    BY TwoStations, LocationTableAssumption
  <2>8. now \in Nat /\ cleanAt \in Nat /\ now <= cleanAt
    BY <1>1, StrongTypes DEF Strong, Clock
  <2> HIDE DEF Budget
  <2> QED
    BY <2>4, <2>5, <2>6, <2>7, <2>8, LocationTableAssumption
<1> QED
  BY <1>1, StrongInvariant, PTL


=============================================================================
