------------------------ MODULE MCWebsocketLibrary ------------------------
(***************************************************************************)
(* Instances of WebsocketLibrary for model checking.                       *)
(***************************************************************************)
EXTENDS WebsocketLibrary

CONSTANTS s1, s2, vm

TwoSockets == {s1, s2}
First == {s1}
None  == {}

=============================================================================
