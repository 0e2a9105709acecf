--------------------------- MODULE MCAppMessages ---------------------------
(***************************************************************************)
(* Small instances of AppMessages.                                         *)
(***************************************************************************)
EXTENDS AppMessages

Listening(mode) == [mode |-> mode, dest |-> {}, source |-> {}]

\* A subscription to topobroadcasts, and one to what the first station sends.
TwoKinds == {Listening("topo"), [mode |-> "uni", dest |-> {}, source |-> {1}]}
ListenGeo == {Listening("geo")}
ListenUni == {Listening("uni")}

=============================================================================
