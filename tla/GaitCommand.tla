----------------------------- MODULE GaitCommand -----------------------------
(***************************************************************************)
(* What the robot's command path promises the player.  The motion states   *)
(* (falling, standup, kick, walk) hand one-shot commands to the gait       *)
(* engine and poll until the command is over:                              *)
(*                                                                         *)
(*  - a command asked for once is begun at most once: nothing between the  *)
(*    player and the gait engine may repeat a kick or a stand-up;          *)
(*  - a player that keeps polling is told, in the end, that it may go on.  *)
(*                                                                         *)
(* It does NOT promise that a reported command was begun: DcmLink shows    *)
(* why the code cannot promise that.                                       *)
(***************************************************************************)
EXTENDS Naturals

CONSTANTS
  Cmds,      \* the one-shot commands
  MaxIssue   \* bound on how often each command is asked for

VARIABLES
  asked,     \* asked[c]: how many times the player asked for c
  begun,     \* begun[c]: how many times the gait engine began c
  outcome    \* outcome[c]: what the player knows of its last request

gcVars == <<asked, begun, outcome>>

Outcomes == {"none", "waiting", "done"}

GCInit ==
  /\ asked = [c \in Cmds |-> 0]
  /\ begun = [c \in Cmds |-> 0]
  /\ outcome = [c \in Cmds |-> "none"]

\* The player asks for c; it never asks twice without settling the first.
Ask(c) ==
  /\ outcome[c] # "waiting"
  /\ asked[c] < MaxIssue
  /\ asked' = [asked EXCEPT ![c] = @ + 1]
  /\ outcome' = [outcome EXCEPT ![c] = "waiting"]
  /\ UNCHANGED begun

\* The engine begins the commands of one packet, each of them owed.
Begin(batch) ==
  /\ \A c \in batch : begun[c] < asked[c]
  /\ begun' = [c \in Cmds |-> IF c \in batch THEN begun[c] + 1 ELSE begun[c]]
  /\ UNCHANGED <<asked, outcome>>

\* The player is told that its command is over.
Report(c) ==
  /\ outcome[c] = "waiting"
  /\ outcome' = [outcome EXCEPT ![c] = "done"]
  /\ UNCHANGED <<asked, begun>>

\* The player stops waiting (its state machine was forced elsewhere).
GiveUp(c) ==
  /\ outcome[c] = "waiting"
  /\ outcome' = [outcome EXCEPT ![c] = "none"]
  /\ UNCHANGED <<asked, begun>>

GCNext ==
  \/ \E c \in Cmds : Ask(c) \/ Report(c) \/ GiveUp(c)
  \/ \E batch \in SUBSET Cmds : Begin(batch)

GCSafeSpec == GCInit /\ [][GCNext]_gcVars

GCSpec == GCSafeSpec /\ \A c \in Cmds : WF_gcVars(Report(c))
=============================================================================
