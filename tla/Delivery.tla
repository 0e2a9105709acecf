------------------------------ MODULE Delivery ------------------------------
(***************************************************************************)
(* What an application may expect of the C2C network stack of ns-3,        *)
(* whatever the frames do on the air: a packet is handed up only after it  *)
(* was sent, never to the station that sent it, and never twice to the     *)
(* same station.  The stack may lose packets.  Module GeoNet implements    *)
(* it as long as one application per station sends.                        *)
(***************************************************************************)
EXTENDS Integers

CONSTANTS Nodes, Services

VARIABLES
  sent,       \* the packets that were sent
  got,        \* got[n]: the packets that were handed up at node n
  recvCount   \* recvCount[n][s]: how often service s of node n was handed one

Init ==
  /\ sent = {}
  /\ got = [n \in Nodes |-> {}]
  /\ recvCount = [n \in Nodes |-> [s \in Services |-> 0]]

\* Packet p is new; its source and service are fields of it.
Send(p) ==
  /\ p \notin sent
  /\ sent' = sent \union {p}
  /\ UNCHANGED <<got, recvCount>>

HandUp(n, p) ==
  /\ p \in sent /\ p.src # n /\ p \notin got[n]
  /\ got' = [got EXCEPT ![n] = @ \union {p}]
  /\ recvCount' = [recvCount EXCEPT ![n] =
       [s \in Services |-> IF s = p.svc THEN @[s] + 1 ELSE @[s]]]
  /\ UNCHANGED sent

\* The packets that this step sends are those it adds to sent.
Next ==
  \/ \E p \in sent' : Send(p)
  \/ \E n \in Nodes : \E p \in sent : HandUp(n, p)

Spec == Init /\ [][Next]_<<sent, got, recvCount>>

=============================================================================
