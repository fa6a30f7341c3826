----------------------------- MODULE MCRs485Port -----------------------------
(***************************************************************************)
(* Packets for TLC.  Two of them do not fit the buffer together.  And two  *)
(* builds: one that touches the entry first, one that steps the index.     *)
(***************************************************************************)
EXTENDS Rs485Port

TwoBuilds == {[op \in {"push", "pop"} |-> first] : first \in BOOLEAN}
TwoPackets == {<<1, 2, 1>>, <<2, 2, 1>>}
=============================================================================
