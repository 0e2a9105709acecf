----------------------------- MODULE MCGeoNet -----------------------------
(* Small instances of GeoNet for TLC. *)
EXTENDS GeoNet

CONSTANTS n1, n2, n3, cam, app

Flow(src, svc, mode, hops, dst) ==
  [src |-> src, svc |-> svc, mode |-> mode, hops |-> hops, dst |-> dst]

\* A ring in which everybody may hear everybody, and nobody always does.
NobodySure == [n \in Nodes |-> {}]

\* A line n1 - n2 - n3 of stations that always hear each other.
Line3 == [n \in Nodes |->
  CASE n = n1 -> {n2} [] n = n2 -> {n1, n3} [] n = n3 -> {n2}]

\* One application that uses all three protocols at two stations.
AllProtocols == {Flow(n1, app, "TSB", 2, NoNode), Flow(n1, app, "UNICAST", 0, n3),
                 Flow(n2, app, "GEOBCAST", 0, NoNode)}

\* A station that sends CAMs (one hop) and floods of an application.
CamAndApp == {Flow(n1, cam, "TSB", 1, NoNode), Flow(n1, app, "TSB", 2, NoNode)}

\* Floods of one application at the end of a line.
Floods == {Flow(n1, app, "TSB", 2, NoNode)}

\* A flood that must not be retransmitted at all.
NoHops == {Flow(n1, app, "TSB", 0, NoNode)}

=============================================================================
