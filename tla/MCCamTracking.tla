--------------------------- MODULE MCCamTracking ---------------------------
(***************************************************************************)
(* Small instances of CamTracking.                                         *)
(***************************************************************************)
EXTENDS CamTracking

CONSTANTS a1, a2

OneArea == {a1}
TwoAreas == {a1, a2}
NoArea == {}

\* The first road-side unit is inside every area, the others outside.
UnitInside == [s \in FixedStations |-> IF s = 1 THEN Areas ELSE {}]

\* The same frequency in every area, or one area with half that of the other.
SameFreq == [a \in Areas |-> SlotsPerStep]
MixedFreq == [a \in Areas |-> IF a = a1 THEN 1 ELSE SlotsPerStep]

NotHeard == {}
Together == {"now", "late"}
Apart == {"now", "late", "split"}

=============================================================================
