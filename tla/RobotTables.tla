----------------------------- MODULE RobotTables -----------------------------
(***************************************************************************)
(* The transition tables of the robot's state machines, as set_transition  *)
(* fills them: table[state][event] is the state the event leads to.  Only  *)
(* tables; what the states do is in RobotFsm.                              *)
(***************************************************************************)
EXTENDS Naturals, Sequences

None == "none"    \* no event, or no next state
Never == [e \in {} |-> None]

\* Every other game state is one event away, "penalized" included.
GameTable ==
  LET to == [initial |-> "gameInitial", ready |-> "gameReady", set |-> "gameSet",
             playing |-> "gamePlaying", finished |-> "gameFinished",
             penalized |-> "gamePenalized"]
      Except(E) == [e \in DOMAIN to \ E |-> to[e]]
  IN [gameInitial   |-> Except({"initial", "penalized"}),
      gameReady     |-> Except({"ready"}),
      gameSet       |-> Except({"set"}),
      gamePlaying   |-> Except({"playing"}),
      gamePenalized |-> Except({"penalized", "finished"}),
      gameFinished  |-> Except({"finished", "penalized"})]

BodyTable ==
  [bodyIdle  |-> Never,
   bodyStop  |-> Never,
   bodyStart |-> [done |-> "bodyPosition", goalie |-> "bodyAnticipate"],
   bodyReady |-> [done |-> "bodyReadyMove"],
   bodyReadyMove |-> [fall |-> "bodyReadyMove"],
   bodyPosition |->
     [timeout |-> "bodyPosition", ballLost |-> "bodySearch", ballClose |-> "bodyOrbit",
      obstacle |-> "bodyObstacle", done |-> "bodyApproach", dribble |-> "bodyDribble",
      fall |-> "bodyPosition", goalie |-> "bodyPositionGoalie"],
   bodyObstacle |-> [clear |-> "bodyPosition", timeout |-> "bodyObstacleAvoid"],
   bodyObstacleAvoid |-> [clear |-> "bodyPosition", timeout |-> "bodyPosition"],
   bodySearch |->
     [ball |-> "bodyPosition", timeout |-> "bodyGotoCenter",
      ballgoalie |-> "bodyPositionGoalie", timeoutgoalie |-> "bodySearch"],
   bodyGotoCenter |->
     [ballFound |-> "bodyPosition", done |-> "bodySearch", timeout |-> "bodySearch"],
   bodyOrbit |->
     [timeout |-> "bodyPosition", ballLost |-> "bodySearch", ballFar |-> "bodyPosition",
      done |-> "bodyApproach"],
   bodyApproach |->
     [ballFar |-> "bodyPosition", ballLost |-> "bodySearch", timeout |-> "bodyPosition",
      kick |-> "bodyKick", walkkick |-> "bodyWalkKick", fall |-> "bodyPositionGoalie"],
   bodyDribble |->
     [ballFar |-> "bodyPosition", ballLost |-> "bodySearch", timeout |-> "bodyPosition",
      done |-> "bodyPosition", fall |-> "bodyPosition"],
   bodyKick |->
     [done |-> "bodyPosition", timeout |-> "bodyPosition",
      reposition |-> "bodyApproach", fall |-> "bodyPositionGoalie"],
   bodyWalkKick |-> [done |-> "bodyPosition"],
   bodyPositionGoalie |->
     [player |-> "bodyPosition", ready |-> "bodyAnticipate", ballClose |-> "bodyChase",
      done |-> "bodyAnticipate", fall |-> "bodyPositionGoalie"],
   bodyAnticipate |->
     [player |-> "bodyPosition", timeout |-> "bodyAnticipate",
      ballClose |-> "bodyChase", dive |-> "bodyDive"],
   bodyChase |->
     [ballClose |-> "bodyApproach", ballLost |-> "bodySearch",
      ballFar |-> "bodySearch", fall |-> "bodySearch"],
   bodyDive |->
     [timeout |-> "bodySearch", reanticipate |-> "bodyAnticipate", fall |-> "bodyChase"]]

MotionTable ==
  [relax |-> [standup |-> "stance", diveready |-> "divewait"],
   sit   |-> [done |-> "relax", standup |-> "stance"],
   stance |-> [done |-> "walk", sit |-> "sit", diveready |-> "divewait"],
   walk  |-> [sit |-> "sit", stance |-> "stance", standstill |-> "standstill",
              pickup |-> "grip", throw |-> "grip", align |-> "align",
              diveready |-> "divewait", dive |-> "dive", fall |-> "falling",
              kick |-> "kick"],
   align |-> [done |-> "walk", fall |-> "falling"],
   divewait |-> [dive |-> "dive", walk |-> "stance", standup |-> "stance",
                 sit |-> "sit", fall |-> "falling"],
   dive  |-> [done |-> "stance", divedone |-> "falling"],
   standstill |-> [stance |-> "stance", walk |-> "stance", sit |-> "sit",
                   diveready |-> "divewait"],
   grip  |-> [timeout |-> "grip", done |-> "stance"],
   falling |-> [done |-> "standup"],
   standup |-> [done |-> "stance", fail |-> "standup"],
   kick  |-> [done |-> "walk"]]

Machines == {"game", "body", "motion"}

Table == [game |-> GameTable, body |-> BodyTable, motion |-> MotionTable]

States(m) == DOMAIN Table[m]

\* fsm.update(): the first event of the queue the table knows picks the next
\* state; the others are dropped with it.
Chosen(row, queue) ==
  IF \E i \in DOMAIN queue : queue[i] \in DOMAIN row
  THEN LET first == CHOOSE i \in DOMAIN queue :
                      /\ queue[i] \in DOMAIN row
                      /\ \A j \in 1 .. i - 1 : queue[j] \notin DOMAIN row
       IN row[queue[first]]
  ELSE None
=============================================================================
