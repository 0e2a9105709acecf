---------------------------- MODULE MessageLife ----------------------------
(***************************************************************************)
(* What the facilities' message store promises about each actionID: it is  *)
(* used once, a message that was received or discarded never comes back,   *)
(* and a message that is stored is never turned into a fresh payload.      *)
(* Module Ldm implements it as long as no station has used up its 16-bit   *)
(* sequence numbers.                                                       *)
(***************************************************************************)
EXTENDS Integers

CONSTANTS Stations, SeqMod

VARIABLE life    \* actionID -> "unborn", "generated", "stored" or "gone"

Ids == Stations \X (0 .. SeqMod - 1)

Init == life = [a \in Ids |-> "unborn"]

\* Numbers are drawn in order: every earlier one of the station is used.
Generate(a) ==
  /\ life[a] = "unborn"
  /\ \A n \in 0 .. a[2] - 1 : life[<<a[1], n>>] # "unborn"
  /\ life' = [life EXCEPT ![a] = "generated"]

Discard(a) ==
  /\ life[a] = "generated"
  /\ life' = [life EXCEPT ![a] = "gone"]

Receive(a) ==
  /\ life[a] = "generated"
  /\ life' = [life EXCEPT ![a] = "stored"]

\* Messages are deleted in groups, by deletion time.
Delete(X) ==
  /\ \A a \in X : life[a] = "stored"
  /\ life' = [a \in Ids |-> IF a \in X THEN "gone" ELSE life[a]]

Next ==
  \/ \E a \in Ids : Generate(a) \/ Discard(a) \/ Receive(a)
  \/ \E X \in SUBSET Ids : Delete(X)

Spec == Init /\ [][Next]_life

=============================================================================
