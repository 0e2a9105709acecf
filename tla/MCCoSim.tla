------------------------------ MODULE MCCoSim ------------------------------
(***************************************************************************)
(* Small instances of CoSim.                                               *)
(***************************************************************************)
EXTENDS CoSim

CONSTANTS v1, v2, v3    \* vehicles of SUMO

TwoVehicles == {v1, v2}
ThreeVehicles == {v1, v2, v3}

\* The counter gives 1 to the fixed station's constructor and 3 to the first
\* vehicle, since 2 is the identifier of the fixed station.
OneFixed == {2}

\* v1 has an identifier the counter does not reach, or reaches.
HighPredef == [v \in TsIds |-> IF v = v1 THEN 90 ELSE 0]
LowPredef == [v \in TsIds |-> IF v = v1 THEN 3 ELSE 0]

=============================================================================
