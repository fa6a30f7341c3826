------------------------------- MODULE MCGateway -------------------------------
(* Two servos in two places, and one servo with a place unused: a change of   *)
(* the map gives the first place another servo.                               *)
EXTENDS Gateway

TwoMaps == {<<1, 2>>, <<2, SkipId>>}
ZeroBased == {[k \in Places |-> f[k + 1]] : f \in TwoMaps}
=============================================================================
