---------------------------- MODULE MCGameControl ----------------------------
(* Instances of GameControl for TLC.                                       *)
EXTENDS GameControl

\* Two announcements that differ in state and penalty.
TwoPackets == {[state |-> 2, pen |-> FALSE], [state |-> 3, pen |-> TRUE]}
=============================================================================
