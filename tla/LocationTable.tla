--------------------------- MODULE LocationTable ---------------------------
(***************************************************************************)
(* The location table of a station in ns-3 (ns-3.7/src/node/               *)
(* location-table.cc): a vector of position entries in the order in which  *)
(* they were stored.  A frame stores the position of the station that      *)
(* transmitted it, which becomes a neighbour, and that of the station its  *)
(* packet comes from.  Every BEACON the station stores its own position,   *)
(* and every LIFE it erases entries of that age, in a loop that looks past *)
(* the entry that follows an erased one.                                   *)
(*                                                                         *)
(* Time is counted in ticks; the times in position vectors are those of    *)
(* the last whole second.                                                  *)
(***************************************************************************)
EXTENDS Integers, Sequences, FiniteSets

CONSTANTS
  Nodes,      \* the stations
  Self,       \* the station whose table this is
  SECOND,     \* ticks of a second
  BEACON,     \* BeaconingProtocol::BEACON_INTERVAL, 0.5 s
  LIFE,       \* LOCATION_ENTRY_LIFETIME, 5 s
  MaxDelay,   \* age of a position vector when its frame arrives
  MaxTime     \* bound: ticks

ASSUME LocationTableAssumption ==
  /\ Self \in Nodes /\ IsFiniteSet(Nodes) /\ Nodes # {Self}
  /\ SECOND \in Nat \ {0} /\ BEACON \in Nat \ {0}
  /\ LIFE \in Nat \ {0} /\ MaxDelay \in Nat /\ MaxTime \in Nat

VARIABLES
  table,      \* m_Table
  now,        \* Simulator::Now
  ownAt,      \* m_posEvent: when AddOwnEntry runs next
  cleanAt,    \* m_updateEvent: when CleanTable runs next
  inBounds,   \* no iterator has gone past the end of m_Table
  heard       \* history: the stations whose frames have arrived

vars == <<table, now, ownAt, cleanAt, inBounds, heard>>

Entry == [gnAddr : Nodes, Ts : Nat, is_neigh : BOOLEAN]

\* The time in a position vector made at time t.
Whole(t) == t - (t % SECOND)

\* The times that vectors arriving now may have.
Stamps == {Whole(t) : t \in {u \in 0 .. now : u + MaxDelay >= now}}

\* AddOwnEntry and CleanTable have run when the station was made.
Init ==
  /\ now \in 0 .. SECOND - 1
  /\ table = <<[gnAddr |-> Self, Ts |-> Whole(now), is_neigh |-> TRUE]>>
  /\ ownAt = now + BEACON
  /\ cleanAt = now + LIFE
  /\ inBounds = TRUE
  /\ heard = {}

-----------------------------------------------------------------------------
(* Storing an entry.                                                       *)

Has(tab, a) == \E i \in DOMAIN tab : tab[i].gnAddr = a

At(tab, a) == CHOOSE i \in DOMAIN tab : tab[i].gnAddr = a

Without(tab, i) ==
  [k \in 1 .. Len(tab) - 1 |-> IF k < i THEN tab[k] ELSE tab[k + 1]]

\* mutant of Put: the old entry is overwritten where it stands
PutInPlace(tab, e) ==
  IF Has(tab, e.gnAddr) THEN [tab EXCEPT ![At(tab, e.gnAddr)] = e] ELSE Append(tab, e)

\* An entry of the same second stays; another one is erased and the new one
\* goes to the end.
Put(tab, e) ==
  IF ~Has(tab, e.gnAddr) THEN Append(tab, e)
  ELSE IF tab[At(tab, e.gnAddr)].Ts = e.Ts THEN tab
  ELSE Append(Without(tab, At(tab, e.gnAddr)), e)

\* AddPosEntry with the common header of a frame.
AddHeader(tab, a, ts) == Put(tab, [gnAddr |-> a, Ts |-> ts, is_neigh |-> TRUE])

\* mutant of AddVector: what the old entry says of the station is lost
AddForgets(tab, a, ts) == Put(tab, [gnAddr |-> a, Ts |-> ts, is_neigh |-> a = Self])

\* mutant of AddVector: every station is a neighbour
AddAsNeighbour(tab, a, ts) == AddHeader(tab, a, ts)

\* AddPosEntry with a position vector.
AddVector(tab, a, ts) ==
  Put(tab, [gnAddr |-> a, Ts |-> ts,
            is_neigh |-> IF Has(tab, a) THEN tab[At(tab, a)].is_neigh ELSE a = Self])

\* A frame that station a transmitted; its packet is a duplicate.
ReceiveFrame(a, ts) ==
  /\ inBounds
  /\ table' = AddHeader(table, a, ts)
  /\ heard' = heard \union {a}
  /\ UNCHANGED <<now, ownAt, cleanAt, inBounds>>

\* The same with a packet of station src that is routed.
ReceivePacket(a, ts, src, srcTs) ==
  /\ inBounds
  /\ table' = AddVector(AddHeader(table, a, ts), src, srcTs)
  /\ heard' = heard \union {a}
  /\ UNCHANGED <<now, ownAt, cleanAt, inBounds>>

-----------------------------------------------------------------------------
(* The events of the simulator, in the order of their times.  CleanTable   *)
(* was scheduled before an AddOwnEntry of the same time.                   *)

AddOwnEntry ==
  /\ inBounds /\ ownAt = now /\ cleanAt # now
  /\ table' = AddVector(table, Self, Whole(now))
  /\ ownAt' = now + BEACON
  /\ UNCHANGED <<now, cleanAt, inBounds, heard>>

\* mutant of Expired: strictly older
OlderThan(e) == now - e.Ts > LIFE

Expired(e) == now - e.Ts >= LIFE

\* An entry is erased unless the one before it was.
IsErased(tab, E) ==
  \A i \in DOMAIN tab : i \in E <=> Expired(tab[i]) /\ i - 1 \notin E

\* f lists the places of tab that are not in E; every entry moves forward.
Keeps(tab, E, f) ==
  /\ \A i \in DOMAIN tab : i \in E \/ \E j \in DOMAIN f : f[j] = i
  /\ \A j \in DOMAIN f : f[j] \notin E /\ f[j] >= j
  /\ \A j, k \in DOMAIN f : j < k => f[j] < f[k]

\* Erasing the last entry takes the iterator past the end.
CleanTable ==
  /\ inBounds /\ cleanAt = now
  /\ \E E \in SUBSET (DOMAIN table) :
       /\ IsErased(table, E)
       /\ \E n \in 0 .. Len(table) : \E f \in [1 .. n -> DOMAIN table] :
            /\ Keeps(table, E, f)
            /\ table' = [j \in 1 .. n |-> table[f[j]]]
       /\ inBounds' = (Len(table) \notin E)
  /\ cleanAt' = now + LIFE
  /\ UNCHANGED <<now, ownAt, heard>>

Tick ==
  /\ inBounds /\ ownAt # now /\ cleanAt # now
  /\ now < MaxTime
  /\ now' = now + 1
  /\ UNCHANGED <<table, ownAt, cleanAt, inBounds, heard>>

Next ==
  \/ \E a \in Nodes \ {Self} : \E ts \in Stamps : ReceiveFrame(a, ts)
  \/ \E a, src \in Nodes \ {Self} : \E ts, srcTs \in Stamps :
       ReceivePacket(a, ts, src, srcTs)
  \/ AddOwnEntry
  \/ CleanTable
  \/ Tick

Spec == Init /\ [][Next]_vars

-----------------------------------------------------------------------------
(* Properties.                                                             *)

TypeOK ==
  /\ table \in Seq(Entry)
  /\ now \in Nat /\ ownAt \in Nat /\ cleanAt \in Nat
  /\ inBounds \in BOOLEAN
  /\ heard \subseteq Nodes

\* Frames arrive within the time the cleaning loop relies on.
Prompt == MaxDelay + 2 * SECOND + BEACON <= LIFE

\* No station has two entries, whatever order the two forms of AddPosEntry
\* are called in: DirectNeighbour and getMinDistToDest would mix them up.
UniqueEntries ==
  \A i, j \in DOMAIN table : table[i].gnAddr = table[j].gnAddr => i = j

\* CleanTable erases while it iterates and would leave the vector if the
\* last entry were erased.  The station's own entry, or one that was stored
\* after it, is always last and fresh.
CleanInBounds == inBounds

\* An entry that the loop looks past is erased in the end: a position is
\* never older than LIFE for every station there is.
AgeBound ==
  \A i \in DOMAIN table : now - table[i].Ts < LIFE * Cardinality(Nodes)

Neighbours == {table[i].gnAddr : i \in {k \in DOMAIN table : table[k].is_neigh}}

\* A station whose position was only relayed is not taken for a neighbour.
OnlyHeardDirectly == Neighbours \subseteq heard \union {Self}

\* A neighbour stops being one only when the table is cleaned, also when its
\* position is stored anew from a packet that others relayed.
NeighbourLeavesByCleaning ==
  [][Neighbours \subseteq Neighbours' \/ cleanAt' # cleanAt]_vars

\* What location-table.h says of CleanTable: the table is clean.
CleanedIsClean ==
  [][cleanAt' # cleanAt => \A i \in DOMAIN table' : now - table'[i].Ts < LIFE]_vars

=============================================================================
