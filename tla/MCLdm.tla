------------------------------- MODULE MCLdm -------------------------------
(***************************************************************************)
(* Small instances of Ldm.                                                 *)
(***************************************************************************)
EXTENDS Ldm

CONSTANTS v1, v2, r1    \* two vehicles and a road-side unit

OneVehicle == {v1}
SecondVehicle == {v2}
OneRsu == {r1}
TwoVehicles == {v1, v2}
VehicleAndRsu == {v1, r1}

NoExpiry == {}
SomeExpiry == {0, 3}

=============================================================================
