---------------------------- MODULE RobotFsm_proofs ----------------------------
(***************************************************************************)
(* The safety properties of RobotFsm as theorems.  The first half of the   *)
(* module is about the machines alone: what Chosen returns, what the three *)
(* tables allow, and the nine ways a step moves the machines (GameAsks ... *)
(* MotionEnters), with everything else abstracted away.  The second half   *)
(* adds, one invariant at a time, what the walk module, the queue and the  *)
(* body's phase have to do with the states:                                *)
(*                                                                         *)
(*   Machinery, Parts    types, and who may have a next state when         *)
(*   Obeys               the body heads where the game wants it            *)
(*   KickAsked           when a kick event can be queued                   *)
(*   Carried             whoever steers has a walk nobody asked to stop    *)
(*   Stilled             from bodyKick's stop on the robot comes to stand  *)
(*   FromPlay, Diving    how a goalie gets out of divewait                 *)
(*   Resting, Lying      "sit" belongs to bodyIdle       (not Hasty)       *)
(*   Fielding, OnCall,   a player's motions, and what    (Afoot and Taken: *)
(*   Afoot, Taken        becomes of its kick event        not Hasty)       *)
(*   Hushed              what is queued while a robot rests (not Hasty)    *)
(*                                                                         *)
(* Theorems with ASSUME ~Hasty hold of a game that changes only when the   *)
(* events of its last change have been heard; without it they are false.   *)
(***************************************************************************)
EXTENDS RobotFsm, WellFoundedInduction, TLAPS

\* The least-number principle, for sets instead of predicates.
LEMMA LeastNumber ==
  ASSUME NEW T \in SUBSET Nat, T # {}
  PROVE  \E x \in T : \A y \in T : x <= y
<1> DEFINE R == OpToRel(<, Nat)
<1>1. \E x \in T : \A y \in T : <<y, x>> \notin R
  <2>1. IsWellFoundedOn(R, Nat)
    BY NatLessThanWellFounded
  <2> HIDE DEF R
  <2> QED
    BY <2>1, WFMin
<1>2. \A x, y \in Nat : x < y => <<x, y>> \in R
  BY DEF OpToRel
<1> HIDE DEF R
<1>3. PICK x \in T : \A y \in T : <<y, x>> \notin R
  BY <1>1
<1>4. ASSUME NEW y \in T PROVE x <= y
  <2>1. x \in Nat /\ y \in Nat /\ ~ (y < x)
    BY <1>2, <1>3
  <2> QED
    BY <2>1
<1> QED
  BY <1>4

-----------------------------------------------------------------------------
(* The engine: what an event queue leads to.                               *)

\* Chosen follows an event of the queue, whenever there is one the row knows.
LEMMA ChosenKnown ==
  ASSUME NEW row, NEW S, NEW q \in Seq(S), \E i \in DOMAIN q : q[i] \in DOMAIN row
  PROVE  \E e \in Range(q) \cap DOMAIN row : Chosen(row, q) = row[e]
<1> DEFINE T == {i \in DOMAIN q : q[i] \in DOMAIN row}
           P(i) == /\ q[i] \in DOMAIN row
                   /\ \A j \in 1 .. i - 1 : q[j] \notin DOMAIN row
<1>1. T \in SUBSET Nat /\ T # {}
  OBVIOUS
<1>2. PICK x \in T : \A y \in T : x <= y
  <2> HIDE DEF T
  <2> QED
    BY <1>1, LeastNumber
<1>3. \E i \in DOMAIN q : P(i)
  <2>1. ASSUME NEW j \in 1 .. x - 1 PROVE q[j] \notin DOMAIN row
    BY <1>2
  <2> QED
    BY <1>2, <2>1
<1> DEFINE first == CHOOSE i \in DOMAIN q : P(i)
<1>4. first \in DOMAIN q /\ q[first] \in DOMAIN row
  <2>1. first \in DOMAIN q /\ P(first)
    <3> HIDE DEF P
    <3> QED
      BY <1>3
  <2> QED
    BY <2>1
<1>5. Chosen(row, q) = row[q[first]]
  BY DEF Chosen
<1> QED
  BY <1>4, <1>5 DEF Range

LEMMA ChosenNone ==
  ASSUME NEW row, NEW q, \A i \in DOMAIN q : q[i] \notin DOMAIN row
  PROVE  Chosen(row, q) = None
  BY DEF Chosen

-----------------------------------------------------------------------------
(* The tables.                                                             *)

\* Which event leads the motion machine where: each of these states is entered
\* on one event only.
LEMMA MotionRows ==
  ASSUME NEW s \in States("motion"), NEW e \in DOMAIN Table["motion"][s]
  PROVE  /\ e # None
         /\ Table["motion"][s][e] \in States("motion")
         /\ Table["motion"][s][e] = "walk" => e = "done" /\ s \in {"stance", "kick", "align"}
         /\ Table["motion"][s][e] = "kick" => e = "kick" /\ s = "walk"
         /\ Table["motion"][s][e] = "divewait" => e = "diveready" /\ s # "divewait"
         /\ Table["motion"][s][e] = "sit" => e = "sit"
         /\ Table["motion"][s][e] = "relax" => e = "done" /\ s = "sit"
         /\ Table["motion"][s][e] = "standup" => s \in {"falling", "standup"}
         /\ Table["motion"][s][e] = "standstill" => e = "standstill"
  BY DEF Table, MotionTable, States, None

LEMMA MotionStates ==
  States("motion") = {"relax", "sit", "stance", "walk", "align", "divewait", "dive", "standstill",
        "grip", "falling", "standup", "kick"}
  BY DEF Table, MotionTable, States

LEMMA BodyStatesAre ==
  States("body") = {"bodyIdle", "bodyStop", "bodyStart", "bodyReady", "bodyReadyMove",
     "bodyPosition", "bodyObstacle", "bodyObstacleAvoid", "bodySearch", "bodyGotoCenter",
     "bodyOrbit", "bodyApproach", "bodyDribble", "bodyKick", "bodyWalkKick",
     "bodyPositionGoalie", "bodyAnticipate", "bodyChase", "bodyDive"}
  BY SMTT(30) DEF States, Table, BodyTable

LEMMA BodyRows ==
  ASSUME NEW s \in States("body"), NEW e \in DOMAIN Table["body"][s]
  PROVE  /\ e # None
         /\ Table["body"][s][e] \in States("body")
<1>1. Table["body"] = BodyTable
  BY DEF Table
<1>2. e \in DOMAIN BodyTable[s]
  BY <1>1
<1>3. e # None
  BY <1>2, <1>1, BodyStatesAre, SMTT(60) DEF BodyTable, None, Never
<1>4. BodyTable[s][e] \in States("body")
  BY <1>2, <1>1, BodyStatesAre, SMTT(60) DEF BodyTable, None, Never
<1> QED
  BY <1>1, <1>3, <1>4

LEMMA GameStatesAre ==
  States("game") = {"gameInitial", "gameReady", "gameSet", "gamePlaying", "gamePenalized",
                    "gameFinished"}
  BY DEF Table, GameTable, States

LEMMA GameRows ==
  ASSUME NEW s \in States("game"), NEW e \in DOMAIN Table["game"][s]
  PROVE  /\ e # None
         /\ Table["game"][s][e] \in States("game")
         /\ Table["game"][s][e] # s
  BY DEF Table, GameTable, States, None

-----------------------------------------------------------------------------
(* The walk module.                                                        *)

WalkRecord ==
  [active : BOOLEAN, stop : 0 .. 3, cmd : Velocity, sent : Velocity, kick : BOOLEAN]

LEMMA ActiveCell ==
  ASSUME NEW w \in WalkRecord, NEW b \in BOOLEAN, NEW n \in 0 .. 3
  PROVE  /\ [w EXCEPT !.active = b, !.stop = n] \in WalkRecord
         /\ [w EXCEPT !.active = b, !.stop = n].cmd = w.cmd
         /\ [w EXCEPT !.active = b, !.stop = n].sent = w.sent
  BY DEF WalkRecord

LEMMA WalkOps ==
  ASSUME NEW w \in WalkRecord, NEW v \in Velocity
  PROVE  /\ Started(w) \in WalkRecord /\ Stopped(w) \in WalkRecord
         /\ Toward(w, v) \in WalkRecord /\ Reset(w) \in WalkRecord
         /\ LastStep(w) \in WalkRecord
         /\ Started(w).active = TRUE /\ Started(w).stop = 0
         /\ Started(w).cmd = w.cmd /\ Started(w).sent = w.sent
         /\ Stopped(w).active = w.active /\ Stopped(w).stop = AtLeastOne(w.stop)
         /\ Stopped(w).cmd = w.cmd /\ Stopped(w).sent = w.sent
         /\ Toward(w, v).active = w.active /\ Toward(w, v).stop = w.stop
         /\ Toward(w, v).cmd = v /\ Toward(w, v).sent = w.sent
         /\ Reset(w).active = w.active /\ Reset(w).stop = w.stop
         /\ Reset(w).cmd = 0 /\ Reset(w).sent = 0
         /\ LastStep(w).active = w.active /\ LastStep(w).stop = 2
         /\ LastStep(w).cmd = 0 /\ LastStep(w).sent = 0
<1>1. /\ Started(w) \in WalkRecord /\ Started(w).active = TRUE /\ Started(w).stop = 0
      /\ Started(w).cmd = w.cmd /\ Started(w).sent = w.sent
  <2>1. TRUE \in BOOLEAN /\ 0 \in 0 .. 3
    OBVIOUS
  <2>2. Started(w) \in WalkRecord
    BY <2>1, ActiveCell, Zenon DEF Started
  <2> QED
    BY <2>2 DEF WalkRecord, Started
<1>2. /\ Stopped(w) \in WalkRecord
      /\ Stopped(w).active = w.active /\ Stopped(w).stop = AtLeastOne(w.stop)
      /\ Stopped(w).cmd = w.cmd /\ Stopped(w).sent = w.sent
  <2>1. AtLeastOne(w.stop) \in 0 .. 3
    BY DEF WalkRecord, AtLeastOne
  <2> QED
    BY <2>1 DEF WalkRecord, Stopped
<1>3. /\ Toward(w, v) \in WalkRecord
      /\ Toward(w, v).active = w.active /\ Toward(w, v).stop = w.stop
      /\ Toward(w, v).cmd = v /\ Toward(w, v).sent = w.sent
  BY DEF WalkRecord, Toward
<1>4. /\ Reset(w) \in WalkRecord
      /\ Reset(w).active = w.active /\ Reset(w).stop = w.stop
      /\ Reset(w).cmd = 0 /\ Reset(w).sent = 0
  BY DEF WalkRecord, Velocity, Reset
<1>5. /\ LastStep(w) \in WalkRecord
      /\ LastStep(w).active = w.active /\ LastStep(w).stop = 2
      /\ LastStep(w).cmd = 0 /\ LastStep(w).sent = 0
  BY <1>4 DEF WalkRecord, LastStep
<1> QED
  BY <1>1, <1>2, <1>3, <1>4, <1>5

\* Handing a velocity over touches nothing but what was handed over.
LEMMA Sending ==
  ASSUME NEW w \in WalkRecord, Send(w), vel \in Velocity
  PROVE  /\ walk' \in WalkRecord /\ vel' \in Velocity
         /\ walk'.active = w.active /\ walk'.stop = w.stop /\ walk'.cmd = w.cmd
         /\ w.cmd = 0 /\ w.sent = 0 => walk' = w /\ vel' = vel
  BY DEF Send, WalkRecord, Velocity

LEMMA KickCell ==
  ASSUME NEW w \in WalkRecord, NEW b \in BOOLEAN
  PROVE  /\ [w EXCEPT !.kick = b] \in WalkRecord
         /\ [w EXCEPT !.kick = b].active = w.active /\ [w EXCEPT !.kick = b].stop = w.stop
         /\ [w EXCEPT !.kick = b].cmd = w.cmd /\ [w EXCEPT !.kick = b].sent = w.sent
  BY DEF WalkRecord

LEMMA WalkUpdateTypes ==
  ASSUME walk \in WalkRecord, vel \in Velocity, kicking \in BOOLEAN, WalkUpdate
  PROVE  walk' \in WalkRecord /\ vel' \in Velocity /\ kicking' = kicking
<1>1. CASE UNCHANGED legs
  BY <1>1 DEF legs
<1>2. CASE WalkStill
  <2>1. Reset(walk) \in WalkRecord /\ 0 \in Velocity
    BY WalkOps DEF Velocity
  <2> QED
    BY <1>2, <2>1 DEF WalkStill
<1>3. CASE WalkLast
  <2>1. /\ [walk EXCEPT !.stop = 3] \in WalkRecord
        /\ [walk EXCEPT !.active = FALSE, !.stop = 0] \in WalkRecord
    <3>1. FALSE \in BOOLEAN /\ 0 \in 0 .. 3
      OBVIOUS
    <3>2. [walk EXCEPT !.active = FALSE, !.stop = 0] \in WalkRecord
      BY <3>1, ActiveCell, Zenon
    <3> QED
      BY <3>2 DEF WalkRecord
  <2> QED
    BY <1>3, <2>1 DEF WalkLast
<1>4. CASE WalkKickStep
  <2>0. PICK on \in {walk.kick /\ kicking, FALSE} : Send([walk EXCEPT !.kick = on])
    BY <1>4 DEF WalkKickStep
  <2> DEFINE w == [walk EXCEPT !.kick = on]
  <2>1. w \in WalkRecord
    <3>1. on \in BOOLEAN
      BY <2>0
    <3> QED
      BY <3>1, KickCell
  <2>2. Send(w) /\ kicking' = kicking
    BY <1>4, <2>0 DEF WalkKickStep
  <2> HIDE DEF w
  <2> QED
    BY <2>1, <2>2, Sending
<1>5. CASE WalkStop
  BY <1>5, WalkOps DEF WalkStop, Velocity
<1>6. CASE WalkOn
  BY <1>6, Sending DEF WalkOn
<1> QED
  BY <1>1, <1>2, <1>3, <1>4, <1>5, <1>6 DEF WalkUpdate

\* The types apart from those of the machines.
Parts ==
  /\ phase \in 0 .. 3 /\ started \in BOOLEAN
  /\ walk \in WalkRecord
  /\ vel \in Velocity /\ kicking \in BOOLEAN /\ torque \in BOOLEAN
  /\ role \in Roles /\ risen \in BOOLEAN /\ kicked \in BOOLEAN /\ gaveUp \in BOOLEAN

LEMMA InactiveCell ==
  ASSUME NEW w \in WalkRecord
  PROVE  /\ [w EXCEPT !.active = FALSE] \in WalkRecord
         /\ [w EXCEPT !.active = FALSE].active = FALSE
         /\ [w EXCEPT !.active = FALSE].stop = w.stop
         /\ [w EXCEPT !.active = FALSE].cmd = w.cmd
         /\ [w EXCEPT !.active = FALSE].sent = w.sent
  BY DEF WalkRecord

LEMMA GameParts ==
  ASSUME Parts, Game PROVE Parts'
<1>1. walk' \in WalkRecord
  BY WalkOps DEF Parts, Game, GameUpdate, GameExit, GameEntry, Velocity
<1> QED
  BY <1>1 DEF Parts, Game, GameUpdate, GameExit, GameEntry, history

LEMMA BodyParts ==
  ASSUME Parts, Body PROVE Parts'
<1> USE DEF Parts
<1>1. 0 \in Velocity
  BY DEF Velocity
<1>2. ASSUME NEW w \in WalkRecord, NEW e, Goes(w, e), phase' \in 0 .. 3 PROVE Parts'
  BY <1>2 DEF Goes, history
<1>3. CASE BodyIdle
  BY <1>3 DEF BodyIdle, legs, history
<1>4. CASE BodyStart
  BY <1>1, <1>2, <1>4, WalkOps DEF BodyStart
<1>5. CASE BodyStop
  BY <1>5 DEF BodyStop, legs, history
<1>6. CASE BodyReady \/ BodyWalkKick \/ BodyDive
  BY <1>2, <1>6 DEF BodyReady, BodyWalkKick, BodyDive
<1>7. CASE BodyReadyMove
  <2>1. ASSUME NEW v \in Velocity
        PROVE  Toward(Started(walk), v) \in WalkRecord /\ Toward(walk, v) \in WalkRecord
    BY WalkOps
  <2>2. CASE phase = 0 /\ phase' = 0 /\ Goes(Toward(walk, 0), None)
    BY <1>1, <1>2, <2>1, <2>2
  <2>3. ASSUME NEW v \in Velocity, NEW w \in WalkRecord,
               \/ phase' = 3 /\ Goes(Stopped(w), None)
               \/ phase' = 1 /\ Goes(w, None)
        PROVE  Parts'
    <3>1. Stopped(w) \in WalkRecord
      BY <1>1, WalkOps
    <3> QED
      BY <1>2, <2>3, <3>1
  <2> QED
    BY <1>7, <2>1, <2>2, <2>3 DEF BodyReadyMove
<1>8. CASE BodySteer
  <2>1. PICK v \in Velocity : \E e \in SteerEvents(cur.body, v) :
          Goes(IF e = "goalie" THEN walk ELSE Toward(walk, v), e)
    BY <1>8 DEF BodySteer
  <2>2. PICK e \in SteerEvents(cur.body, v) :
          Goes(IF e = "goalie" THEN walk ELSE Toward(walk, v), e)
    BY <2>1
  <2>3. (IF e = "goalie" THEN walk ELSE Toward(walk, v)) \in WalkRecord
    BY WalkOps
  <2>4. phase' \in 0 .. 3
    BY <1>8 DEF BodySteer
  <2> QED
    BY <1>2, <2>2, <2>3, <2>4
<1>9. CASE BodyKick
  <2>1. walk' \in {walk, Toward(walk, 0), Started(walk), Started(Toward(walk, 0))}
    BY <1>9 DEF BodyKick
  <2>2. walk' \in WalkRecord
    <3>1. Toward(walk, 0) \in WalkRecord /\ Started(walk) \in WalkRecord
      BY <1>1, WalkOps
    <3>2. Started(Toward(walk, 0)) \in WalkRecord
      BY <1>1, <3>1, WalkOps
    <3> QED
      BY <2>1, <3>1, <3>2
  <2>3. phase' \in {phase, 1, 2}
    BY <1>9 DEF BodyKick
  <2>4. gaveUp' \in BOOLEAN
    BY <1>9, Zenon DEF BodyKick
  <2>5. UNCHANGED <<role, started, vel, kicking, torque, risen, kicked>>
    BY <1>9 DEF BodyKick
  <2> QED
    BY <2>2, <2>3, <2>4, <2>5
<1>10. CASE BodyAnticipate
  BY <1>1, <1>10, WalkOps DEF BodyAnticipate, history
<1>11. CASE BodyExit
  <2>1. walk' \in WalkRecord
    BY <1>1, <1>11, WalkOps DEF BodyExit
  <2>2. gaveUp' \in BOOLEAN
    BY <1>11, Zenon DEF BodyExit
  <2> QED
    BY <1>11, <2>1, <2>2 DEF BodyExit
<1>12. CASE BodyEntry
  <2>1. walk' \in WalkRecord /\ phase' \in 0 .. 3
    <3>1. walk' \in {walk, Stopped(walk), Stopped(Toward(walk, 0)), [walk EXCEPT !.kick = TRUE]}
      BY <1>12 DEF BodyEntry, DoWalkKick
    <3>2. [walk EXCEPT !.kick = TRUE] \in WalkRecord
      <4>1. TRUE \in BOOLEAN
        OBVIOUS
      <4> QED
        BY <4>1, KickCell
    <3>3. phase' \in 0 .. 3
      BY <1>12 DEF BodyEntry
    <3>4. Stopped(walk) \in WalkRecord /\ Toward(walk, 0) \in WalkRecord
      BY <1>1, WalkOps
    <3>5. Stopped(Toward(walk, 0)) \in WalkRecord
      BY <1>1, <3>4, WalkOps
    <3> QED
      BY <3>1, <3>2, <3>3, <3>4, <3>5
  <2>2. kicking' \in BOOLEAN
    <3>1. (kicking' = kicking) \/ (kicking' = (kicking \/ ~walk.kick))
      BY <1>12 DEF BodyEntry, DoWalkKick
    <3> QED
      BY <3>1, Zenon
  <2>3. kicked' \in BOOLEAN
    BY <1>12, Zenon DEF BodyEntry
  <2>4. vel' \in Velocity
    BY <1>12, <1>1 DEF BodyEntry, DoWalkKick, Velocity
  <2> QED
    BY <1>12, <2>1, <2>2, <2>3, <2>4 DEF BodyEntry
<1> QED
  BY <1>3, <1>4, <1>5, <1>6, <1>7, <1>8, <1>9, <1>10, <1>11, <1>12 DEF Body, BodyUpdate

LEMMA MotionParts ==
  ASSUME Parts, Motion PROVE Parts'
<1> USE DEF Parts
<1>1. WalkUpdate => walk' \in WalkRecord /\ vel' \in Velocity /\ kicking' = kicking
  BY WalkUpdateTypes
<1>2. CASE MotionHold \/ MotionDive \/ MotionFalling \/ MotionStandup
  BY <1>2 DEF MotionHold, MotionDive, MotionFalling, MotionStandup, legs, history
<1>3. CASE MotionSit
  BY <1>1, <1>3 DEF MotionSit, legs, history
<1>4. CASE MotionStance
  <2>1. Started(Reset(walk)) \in WalkRecord /\ 0 \in Velocity
    BY WalkOps DEF Velocity
  <2> QED
    BY <1>4, <2>1 DEF MotionStance, legs, history
<1>5. CASE MotionWalk
  BY <1>1, <1>5 DEF MotionWalk, history
<1>6. CASE MotionKick
  BY <1>1, <1>6 DEF MotionKick, legs, history
<1>7. CASE MotionExit
  <2>1. walk' \in WalkRecord
    BY <1>7, WalkOps DEF MotionExit, Velocity
  <2>2. kicked' \in BOOLEAN
    BY <1>7, Zenon DEF MotionExit
  <2> QED
    BY <1>7, <2>1, <2>2 DEF MotionExit
<1>8. CASE MotionEntry
  <2>1. walk' \in WalkRecord
    <3>1. /\ Reset(Stopped(walk)) \in WalkRecord /\ Reset(walk) \in WalkRecord
          /\ Stopped(walk) \in WalkRecord
      BY WalkOps DEF Velocity
    <3>2. /\ [Reset(walk) EXCEPT !.active = FALSE] \in WalkRecord
          /\ [walk EXCEPT !.active = FALSE] \in WalkRecord
      BY <3>1, InactiveCell
    <3>3. [walk EXCEPT !.kick = FALSE] \in WalkRecord
      <4>1. FALSE \in BOOLEAN
        OBVIOUS
      <4> QED
        BY <4>1, KickCell
    <3> QED
      BY <1>8, <3>1, <3>2, <3>3 DEF MotionEntry, WalkAtEntry
  <2>2. vel' \in Velocity
    BY <1>8 DEF MotionEntry, Velocity
  <2>3. torque' \in BOOLEAN /\ started' \in BOOLEAN
    BY <1>8, Zenon DEF MotionEntry
  <2> QED
    BY <1>8, <2>1, <2>2, <2>3 DEF MotionEntry, history
<1> QED
  BY <1>2, <1>3, <1>4, <1>5, <1>6, <1>7, <1>8 DEF Motion, MotionUpdate

LEMMA PartsStep ==
  ASSUME Parts, [Next]_vars PROVE Parts'
<1>1. CASE WalkKickOver
  BY <1>1 DEF Parts, WalkKickOver, history
<1>2. CASE UNCHANGED vars
  BY <1>2 DEF Parts, vars, robot, legs, history
<1> QED
  BY <1>1, <1>2, GameParts, BodyParts, MotionParts DEF Next

-----------------------------------------------------------------------------
(* How the machines move.                                                  *)

Names == {None} \cup States("game") \cup States("body") \cup States("motion")

Frame ==
  /\ cur \in [Machines -> Names] /\ nxt \in [Machines -> Names]
  /\ \A m \in Machines : /\ cur[m] \in States(m)
                         /\ nxt[m] \in States(m) \cup {None}
  /\ turn \in Machines /\ step \in {"update", "exit", "entry"}

LEMMA StatesAreNames ==
  \A m \in Machines : States(m) \subseteq Names /\ None \notin States(m)
  BY MotionStates, BodyStatesAre, GameStatesAre DEF Machines, Names, None

LEMMA Targets ==
  ASSUME NEW m \in Machines, NEW s \in States(m), NEW S, NEW q \in Seq(S)
  PROVE  \/ /\ Chosen(Table[m][s], q) = None
            /\ Range(q) \cap DOMAIN Table[m][s] = {}
         \/ \E e \in Range(q) \cap DOMAIN Table[m][s] :
              /\ Chosen(Table[m][s], q) = Table[m][s][e]
              /\ Table[m][s][e] \in States(m)
<1>1. CASE \E i \in DOMAIN q : q[i] \in DOMAIN Table[m][s]
  <2>1. PICK e \in Range(q) \cap DOMAIN Table[m][s] :
          Chosen(Table[m][s], q) = Table[m][s][e]
    BY <1>1, ChosenKnown
  <2>2. Table[m][s][e] \in States(m)
    BY <2>1, GameRows, BodyRows, MotionRows DEF Machines
  <2> QED
    BY <2>1, <2>2
<1>2. CASE \A i \in DOMAIN q : q[i] \notin DOMAIN Table[m][s]
  BY <1>2, ChosenNone DEF Range
<1> QED
  BY <1>1, <1>2

\* The end of an update of machine m.
LEMMA Concluding ==
  ASSUME NEW m \in Machines, NEW n \in [Machines -> Names], NEW S, NEW q \in Seq(S),
         Frame, Conclude(m, n, q)
  PROVE  /\ cur' = cur /\ nxt' \in [Machines -> Names]
         /\ \A o \in Machines \ {m} : nxt'[o] = n[o]
         /\ \/ /\ nxt'[m] = None /\ step' = "update" /\ turn' = After[m]
               /\ Range(q) \cap DOMAIN Table[m][cur[m]] = {}
            \/ \E e \in Range(q) \cap DOMAIN Table[m][cur[m]] :
                 /\ nxt'[m] = Table[m][cur[m]][e] /\ nxt'[m] \in States(m)
                 /\ step' = "exit" /\ turn' = turn
<1> DEFINE t == Chosen(Table[m][cur[m]], q)
<1>1. /\ cur' = cur /\ nxt' = [n EXCEPT ![m] = t]
      /\ IF t = None THEN step' = "update" /\ turn' = After[m]
                     ELSE step' = "exit" /\ turn' = turn
  BY DEF Conclude
<1>2. \/ t = None /\ Range(q) \cap DOMAIN Table[m][cur[m]] = {}
      \/ \E e \in Range(q) \cap DOMAIN Table[m][cur[m]] :
           t = Table[m][cur[m]][e] /\ t \in States(m)
  BY Targets DEF Frame
<1>3. t \in Names /\ (t \in States(m) => t # None)
  BY <1>2, StatesAreNames DEF Names
<1> HIDE DEF t
<1> QED
  BY <1>1, <1>2, <1>3

LEMMA Leaving ==
  ASSUME NEW m \in Machines, NEW n \in [Machines -> Names], Frame, Exits(m), Exited(n)
  PROVE  /\ turn = m /\ turn' = m /\ step \in {"update", "exit"} /\ step' = "entry"
         /\ (step = "update" => nxt[m] # None)
         /\ cur' = cur /\ nxt' = n
  BY DEF Frame, Exits, Exited

LEMMA Entering ==
  ASSUME NEW m \in Machines, NEW n \in [Machines -> Names], Frame, Entered(m, n)
  PROVE  /\ turn = m /\ turn' = After[m] /\ step = "entry" /\ step' = "update"
         /\ cur' \in [Machines -> Names] /\ nxt' \in [Machines -> Names]
         /\ cur'[m] = nxt[m] /\ nxt'[m] = None
         /\ \A o \in Machines \ {m} : cur'[o] = cur[o] /\ nxt'[o] = n[o]
  BY DEF Frame, Entered, Names

LEMMA Turns == After["game"] = "body" /\ After["body"] = "motion" /\ After["motion"] = "game"
  BY DEF After

\* An event that is returned.
LEMMA OneEvent ==
  ASSUME NEW e
  PROVE  <<e>> \in Seq({e}) /\ Range(<<e>>) = {e}
  BY DEF Range

\* The events that are posted to the motion machine.
Posted == {"sit", "standup", "diveready", "walk", "dive", "kick"}

Queued == 
  /\ queue \in Seq(Posted)
  /\ \A i, j \in DOMAIN queue : queue[i] = queue[j] => i = j

\* Whose turn it is says which machines may have a next state.
Flow ==
  /\ step # "update" => nxt[turn] # None
  /\ nxt["game"] # None => turn = "game" /\ step # "update" /\ nxt["game"] # cur["game"]
  /\ turn = "game" =>
       /\ nxt["motion"] = None
       /\ nxt["body"] # None => nxt["body"] = "bodyIdle" /\ cur["body"] = "bodyIdle"
  /\ turn = "body" /\ nxt["motion"] # None => step = "entry" /\ cur["body"] = "bodyIdle"
  /\ turn = "body" /\ step = "entry" /\ cur["body"] = "bodyIdle" => nxt["motion"] = "stance"
  /\ turn = "motion" => nxt["body"] = None

Machinery == Frame /\ Queued /\ Flow

\* One step of a machine, as the other machines see it.
GameAsks ==
  /\ turn = "game" /\ step = "update" /\ nxt["game"] = None /\ cur' = cur
  /\ nxt' \in [Machines -> Names]
  /\ nxt'["body"] = nxt["body"] /\ nxt'["motion"] = nxt["motion"]
  /\ \/ nxt'["game"] = None /\ step' = "update" /\ turn' = "body"
     \/ /\ nxt'["game"] \in States("game") /\ nxt'["game"] # cur["game"]
        /\ step' = "exit" /\ turn' = "game" /\ (Hasty \/ queue = <<>>)
GameLeaves ==
  /\ turn = "game" /\ turn' = "game" /\ step = "exit" /\ step' = "entry"
  /\ cur' = cur /\ nxt' = nxt
GameEnters ==
  /\ turn = "game" /\ turn' = "body" /\ step = "entry" /\ step' = "update"
  /\ cur' \in [Machines -> Names] /\ nxt' \in [Machines -> Names]
  /\ cur'["game"] = nxt["game"] /\ nxt'["game"] = None
  /\ cur'["body"] = cur["body"] /\ cur'["motion"] = cur["motion"]
  /\ nxt'["body"] = BodyOf[nxt["game"]] /\ nxt'["motion"] = nxt["motion"]

BodyAsks ==
  /\ turn = "body" /\ step = "update" /\ nxt["body"] = None /\ cur' = cur
  /\ nxt' \in [Machines -> Names] /\ nxt'["game"] = nxt["game"]
  /\ \/ /\ nxt'["body"] = None /\ step' = "update" /\ turn' = "motion"
        /\ \/ nxt'["motion"] = nxt["motion"]
           \/ cur["body"] = "bodyStop" /\ nxt'["motion"] = "standstill"
     \/ /\ \E e \in DOMAIN Table["body"][cur["body"]] :
             nxt'["body"] = Table["body"][cur["body"]][e]
        /\ nxt'["motion"] = nxt["motion"] /\ step' = "exit" /\ turn' = "body"
BodyLeaves ==
  /\ turn = "body" /\ turn' = "body" /\ step \in {"update", "exit"} /\ step' = "entry"
  /\ nxt["body"] # None
  /\ cur' = cur /\ nxt' \in [Machines -> Names]
  /\ nxt'["game"] = nxt["game"] /\ nxt'["body"] = nxt["body"]
  /\ nxt'["motion"] = IF cur["body"] = "bodyIdle" THEN "stance" ELSE nxt["motion"]
BodyEnters ==
  /\ turn = "body" /\ turn' = "motion" /\ step = "entry" /\ step' = "update"
  /\ cur' \in [Machines -> Names] /\ nxt' \in [Machines -> Names]
  /\ cur'["body"] = nxt["body"] /\ nxt'["body"] = None
  /\ cur'["game"] = cur["game"] /\ cur'["motion"] = cur["motion"]
  /\ nxt'["game"] = nxt["game"] /\ nxt'["motion"] = nxt["motion"]

\* The motion machine's update returns e.
MotionAsks(e) ==
  /\ turn = "motion" /\ step = "update" /\ nxt["motion"] = None /\ cur' = cur
  /\ nxt' \in [Machines -> Names] /\ queue' = <<>>
  /\ nxt'["game"] = nxt["game"] /\ nxt'["body"] = nxt["body"]
  /\ \/ /\ nxt'["motion"] = None /\ step' = "update" /\ turn' = "game"
        /\ (Range(queue) \cup {e}) \cap DOMAIN Table["motion"][cur["motion"]] = {}
     \/ /\ \E x \in (Range(queue) \cup {e}) \cap DOMAIN Table["motion"][cur["motion"]] :
             nxt'["motion"] = Table["motion"][cur["motion"]][x]
        /\ step' = "exit" /\ turn' = "motion"
MotionLeaves ==
  /\ turn = "motion" /\ turn' = "motion" /\ step \in {"update", "exit"} /\ step' = "entry"
  /\ nxt["motion"] # None
  /\ cur' = cur /\ nxt' = nxt
MotionEnters ==
  /\ turn = "motion" /\ turn' = "game" /\ step = "entry" /\ step' = "update"
  /\ cur' \in [Machines -> Names] /\ nxt' \in [Machines -> Names]
  /\ cur'["motion"] = nxt["motion"] /\ nxt'["motion"] = None
  /\ cur'["game"] = cur["game"] /\ cur'["body"] = cur["body"]
  /\ nxt'["game"] = nxt["game"] /\ nxt'["body"] = nxt["body"]

LEMMA MachineNames == Machines = {"game", "body", "motion"}
  BY DEF Machines

\* A game or body state returns e, and n is nxt as its update left it.
LEMMA Returning ==
  ASSUME Frame, NEW m \in Machines, NEW n \in [Machines -> Names], NEW e,
         Conclude(m, n, <<e>>)
  PROVE  /\ cur' = cur /\ nxt' \in [Machines -> Names]
         /\ \A o \in Machines \ {m} : nxt'[o] = n[o]
         /\ \/ /\ nxt'[m] = None /\ step' = "update" /\ turn' = After[m]
               /\ e \notin DOMAIN Table[m][cur[m]]
            \/ /\ e \in DOMAIN Table[m][cur[m]]
               /\ nxt'[m] = Table[m][cur[m]][e] /\ nxt'[m] \in States(m)
               /\ step' = "exit" /\ turn' = turn
<1>1. <<e>> \in Seq({e}) /\ Range(<<e>>) = {e}
  BY OneEvent
<1> DEFINE q == <<e>>
<1>2. q \in Seq({e}) /\ Range(q) = {e} /\ Conclude(m, n, q)
  BY <1>1
<1> HIDE DEF q
<1>3. /\ cur' = cur /\ nxt' \in [Machines -> Names]
      /\ \A o \in Machines \ {m} : nxt'[o] = n[o]
      /\ \/ /\ nxt'[m] = None /\ step' = "update" /\ turn' = After[m]
            /\ Range(q) \cap DOMAIN Table[m][cur[m]] = {}
         \/ \E x \in Range(q) \cap DOMAIN Table[m][cur[m]] :
              /\ nxt'[m] = Table[m][cur[m]][x] /\ nxt'[m] \in States(m)
              /\ step' = "exit" /\ turn' = turn
  BY <1>2, Concluding
<1> QED
  BY <1>2, <1>3

LEMMA GameUpdating ==
  ASSUME Machinery, GameUpdate PROVE GameAsks
<1>1. PICK e : Returns("game", e) /\ (Hasty \/ queue = <<>> \/ e \notin DOMAIN GameTable[cur.game])
  BY DEF GameUpdate
<1>2. Conclude("game", nxt, <<e>>)
  BY <1>1 DEF Returns
<1>3. turn = "game" /\ step = "update" /\ nxt["game"] = None
  BY DEF GameUpdate, Updates
<1>4. \/ nxt'["game"] = None /\ step' = "update" /\ turn' = "body"
      \/ /\ e \in DOMAIN Table["game"][cur["game"]]
         /\ nxt'["game"] = Table["game"][cur["game"]][e] /\ nxt'["game"] \in States("game")
         /\ step' = "exit" /\ turn' = "game"
  BY <1>2, <1>3, Returning, Turns, MachineNames DEF Machinery, Frame
<1>5. /\ cur' = cur /\ nxt' \in [Machines -> Names]
      /\ nxt'["body"] = nxt["body"] /\ nxt'["motion"] = nxt["motion"]
  BY <1>2, Returning, MachineNames DEF Machinery, Frame
<1>6. ASSUME e \in DOMAIN Table["game"][cur["game"]]
      PROVE  Table["game"][cur["game"]][e] # cur["game"] /\ (Hasty \/ queue = <<>>)
  BY <1>1, <1>6, GameRows, MachineNames DEF Machinery, Frame, Table
<1> QED
  BY <1>3, <1>4, <1>5, <1>6 DEF GameAsks

LEMMA GameExiting ==
  ASSUME Machinery, GameExit PROVE GameLeaves
  BY Leaving, MachineNames DEF GameExit, GameLeaves, Machinery, Frame, Flow

LEMMA ForcedNames ==
  ASSUME NEW g \in States("game")
  PROVE  BodyOf[g] \in States("body") \cap {"bodyIdle", "bodyReady", "bodyStop", "bodyStart"}
  BY GameStatesAre, BodyStatesAre DEF BodyOf

LEMMA GameEntering ==
  ASSUME Machinery, GameEntry PROVE GameEnters
<1> DEFINE n == [nxt EXCEPT !.body = BodyOf[nxt.game]]
<1>1. Entered("game", n)
  BY DEF GameEntry
<1>2. turn = "game" /\ step = "entry" /\ nxt["game"] \in States("game")
  BY <1>1 DEF Entered, Machinery, Frame, Flow
<1>3. BodyOf[nxt["game"]] \in Names
  BY <1>2, ForcedNames DEF Names
<1>4. /\ n \in [Machines -> Names] /\ n["body"] = BodyOf[nxt["game"]]
      /\ n["motion"] = nxt["motion"]
  BY <1>3, MachineNames DEF Machinery, Frame
<1> HIDE DEF n
<1> QED
  BY <1>1, <1>2, <1>4, Entering, Turns, MachineNames DEF GameEnters, Machinery

LEMMA BodyUpdating ==
  ASSUME Machinery, BodyUpdate PROVE BodyAsks
<1>1. turn = "body" /\ step = "update" /\ nxt["body"] = None
  BY DEF BodyUpdate, BodyIdle, BodyStart, BodyStop, BodyReady, BodyReadyMove, BodySteer,
     BodyKick, BodyWalkKick, BodyAnticipate, BodyDive, Updates
<1>2. ASSUME NEW n \in [Machines -> Names], NEW e, Conclude("body", n, <<e>>),
             n["game"] = nxt["game"]
      PROVE  /\ cur' = cur /\ nxt' \in [Machines -> Names] /\ nxt'["game"] = nxt["game"]
             /\ nxt'["motion"] = n["motion"]
             /\ \/ /\ nxt'["body"] = None /\ step' = "update" /\ turn' = "motion"
                \/ /\ e \in DOMAIN Table["body"][cur["body"]]
                   /\ nxt'["body"] = Table["body"][cur["body"]][e]
                   /\ step' = "exit" /\ turn' = "body"
  BY <1>1, <1>2, Returning, Turns, MachineNames DEF Machinery
<1>3. CASE \E e : Returns("body", e)
  <2>1. PICK e : Conclude("body", nxt, <<e>>)
    BY <1>3 DEF Returns
  <2> QED
    BY <1>1, <1>2, <2>1 DEF BodyAsks, Machinery, Frame
<1>4. CASE BodyStop /\ Conclude("body", [nxt EXCEPT !.motion = "standstill"], <<None>>)
  <2> DEFINE n == [nxt EXCEPT !.motion = "standstill"]
  <2>1. /\ n \in [Machines -> Names] /\ n["game"] = nxt["game"]
        /\ n["motion"] = "standstill"
    BY MotionStates, MachineNames DEF Machinery, Frame, Names
  <2>2. Conclude("body", n, <<None>>) /\ cur["body"] = "bodyStop"
    BY <1>4 DEF BodyStop, Updates
  <2>3. None \notin DOMAIN Table["body"][cur["body"]]
    BY BodyRows, MachineNames DEF Machinery, Frame
  <2> HIDE DEF n
  <2> QED
    BY <1>1, <1>2, <2>1, <2>2, <2>3 DEF BodyAsks
<1>5. \/ \E e : Returns("body", e)
      \/ BodyStop /\ Conclude("body", [nxt EXCEPT !.motion = "standstill"], <<None>>)
  BY DEF BodyUpdate, BodyIdle, BodyStart, BodyStop, BodyReady, BodyReadyMove, BodySteer,
     BodyKick, BodyWalkKick, BodyAnticipate, BodyDive, Goes
<1> QED
  BY <1>3, <1>4, <1>5

LEMMA BodyExiting ==
  ASSUME Machinery, BodyExit PROVE BodyLeaves
<1> DEFINE n == IF cur["body"] = "bodyIdle" THEN [nxt EXCEPT !.motion = "stance"] ELSE nxt
<1>1. Exits("body") /\ Exited(n)
  BY DEF BodyExit
<1>2. /\ n \in [Machines -> Names] /\ n["game"] = nxt["game"] /\ n["body"] = nxt["body"]
      /\ n["motion"] = IF cur["body"] = "bodyIdle" THEN "stance" ELSE nxt["motion"]
  BY MotionStates, MachineNames DEF Machinery, Frame, Names
<1>3. nxt["body"] # None
  BY <1>1 DEF Exits, Machinery, Flow
<1> HIDE DEF n
<1> QED
  BY <1>1, <1>2, <1>3, Leaving, MachineNames DEF BodyLeaves, Machinery

LEMMA BodyEntering ==
  ASSUME Machinery, BodyEntry PROVE BodyEnters
<1>1. Entered("body", nxt) /\ nxt \in [Machines -> Names]
  BY DEF BodyEntry, Machinery, Frame
<1> QED
  BY <1>1, Entering, Turns, MachineNames DEF BodyEnters, Machinery

LEMMA Moving ==
  ASSUME Machinery, NEW e, turn = "motion", step = "update", nxt["motion"] = None, Moves(e)
  PROVE  MotionAsks(e)
<1> DEFINE q == Append(queue, e)
<1>1. q \in Seq(Posted \cup {e}) /\ Range(q) = Range(queue) \cup {e}
  <2>1. queue \in Seq(Posted \cup {e})
    BY DEF Machinery, Queued
  <2>2. /\ q \in Seq(Posted \cup {e}) /\ DOMAIN q = (DOMAIN queue) \cup {Len(queue) + 1}
        /\ q[Len(queue) + 1] = e /\ \A i \in DOMAIN queue : q[i] = queue[i]
    BY <2>1
  <2> HIDE DEF q
  <2> QED
    BY <2>2 DEF Range
<1>2. Conclude("motion", nxt, q) /\ queue' = <<>>
  BY DEF Moves
<1> HIDE DEF q
<1>3. /\ cur' = cur /\ nxt' \in [Machines -> Names]
      /\ \A o \in Machines \ {"motion"} : nxt'[o] = nxt[o]
      /\ \/ /\ nxt'["motion"] = None /\ step' = "update" /\ turn' = After["motion"]
            /\ Range(q) \cap DOMAIN Table["motion"][cur["motion"]] = {}
         \/ \E x \in Range(q) \cap DOMAIN Table["motion"][cur["motion"]] :
              /\ nxt'["motion"] = Table["motion"][cur["motion"]][x]
              /\ nxt'["motion"] \in States("motion")
              /\ step' = "exit" /\ turn' = turn
  BY <1>1, <1>2, Concluding, MachineNames DEF Machinery, Frame
<1> QED
  BY <1>1, <1>2, <1>3, Turns, MachineNames DEF MotionAsks

LEMMA MotionUpdating ==
  ASSUME Machinery, MotionUpdate PROVE \E e \in {None, "done", "divedone"} : MotionAsks(e)
<1>1. turn = "motion" /\ step = "update" /\ nxt["motion"] = None
  BY DEF MotionUpdate, MotionHold, MotionSit, MotionStance, MotionWalk, MotionDive,
     MotionFalling, MotionStandup, MotionKick, Updates
<1>2. \E e \in {None, "done", "divedone"} : Moves(e)
  BY DEF MotionUpdate, MotionHold, MotionSit, MotionStance, MotionWalk, MotionDive,
     MotionFalling, MotionStandup, MotionKick
<1> QED
  BY <1>1, <1>2, Moving

LEMMA MotionExiting ==
  ASSUME Machinery, MotionExit PROVE MotionLeaves
<1>1. Exits("motion") /\ Exited(nxt) /\ nxt \in [Machines -> Names]
  BY DEF MotionExit, Machinery, Frame
<1>2. nxt["motion"] # None
  BY <1>1 DEF Exits, Machinery, Flow
<1> QED
  BY <1>1, <1>2, Leaving, MachineNames DEF MotionLeaves, Machinery

LEMMA MotionEntering ==
  ASSUME Machinery, MotionEntry PROVE MotionEnters
<1>1. Entered("motion", nxt) /\ nxt \in [Machines -> Names]
  BY DEF MotionEntry, Machinery, Frame
<1> QED
  BY <1>1, Entering, Turns, MachineNames DEF MotionEnters, Machinery

\* Every step is one of these, or leaves the machines alone.
LEMMA MachineSteps ==
  ASSUME Machinery, [Next]_vars
  PROVE  \/ GameAsks \/ GameLeaves \/ GameEnters
         \/ BodyAsks \/ BodyLeaves \/ BodyEnters
         \/ (\E e \in {None, "done", "divedone"} : MotionAsks(e))
         \/ MotionLeaves \/ MotionEnters
         \/ UNCHANGED machines
<1>1. CASE WalkKickOver
  BY <1>1 DEF WalkKickOver
<1>2. CASE UNCHANGED vars
  BY <1>2 DEF vars, robot
<1>3. CASE Game
  BY <1>3, GameUpdating, GameExiting, GameEntering DEF Game
<1>4. CASE Body
  BY <1>4, BodyUpdating, BodyExiting, BodyEntering DEF Body
<1>5. CASE Motion
  BY <1>5, MotionUpdating, MotionExiting, MotionEntering DEF Motion
<1> QED
  BY <1>1, <1>2, <1>3, <1>4, <1>5 DEF Next

LEMMA FrameStep ==
  ASSUME Machinery, [Next]_vars PROVE Frame'
<1> USE MachineNames DEF Machinery, Frame, Flow
<1>1. CASE GameAsks
  BY <1>1 DEF GameAsks
<1>2. CASE GameLeaves
  BY <1>2 DEF GameLeaves
<1>3. CASE GameEnters
  <2>1. nxt["game"] \in States("game")
    BY <1>3 DEF GameEnters
  <2>2. BodyOf[nxt["game"]] \in States("body")
    BY <2>1, ForcedNames
  <2> QED
    BY <1>3, <2>1, <2>2 DEF GameEnters
<1>4. CASE BodyAsks
  <2>1. nxt'["body"] \in States("body") \cup {None}
    BY <1>4, BodyRows DEF BodyAsks
  <2>2. nxt'["motion"] \in States("motion") \cup {None}
    BY <1>4, MotionStates DEF BodyAsks
  <2> QED
    BY <1>4, <2>1, <2>2 DEF BodyAsks
<1>5. CASE BodyLeaves
  <2>1. nxt'["motion"] \in States("motion") \cup {None}
    BY <1>5, MotionStates DEF BodyLeaves
  <2> QED
    BY <1>5, <2>1 DEF BodyLeaves
<1>6. CASE BodyEnters
  BY <1>6 DEF BodyEnters
<1>7. CASE \E e \in {None, "done", "divedone"} : MotionAsks(e)
  <2>1. nxt'["motion"] \in States("motion") \cup {None}
    BY <1>7, MotionRows DEF MotionAsks
  <2> QED
    BY <1>7, <2>1 DEF MotionAsks
<1>8. CASE MotionLeaves
  BY <1>8 DEF MotionLeaves
<1>9. CASE MotionEnters
  BY <1>9 DEF MotionEnters
<1>10. CASE UNCHANGED machines
  BY <1>10 DEF machines
<1> QED
  BY <1>1, <1>2, <1>3, <1>4, <1>5, <1>6, <1>7, <1>8, <1>9, <1>10, MachineSteps

LEMMA FlowStep ==
  ASSUME Machinery, [Next]_vars PROVE Flow'
<1> USE MachineNames DEF Machinery, Flow
<1>1. CASE GameAsks
  BY <1>1, GameStatesAre DEF GameAsks, None
<1>2. CASE GameLeaves
  BY <1>2 DEF GameLeaves
<1>3. CASE GameEnters
  BY <1>3 DEF GameEnters
<1>4. CASE BodyAsks
  <2>1. \A e \in DOMAIN Table["body"][cur["body"]] : Table["body"][cur["body"]][e] # None
    BY BodyRows, BodyStatesAre DEF Frame, None
  <2> QED
    BY <1>4, <2>1 DEF BodyAsks
<1>5. CASE BodyLeaves
  BY <1>5 DEF BodyLeaves
<1>6. CASE BodyEnters
  BY <1>6 DEF BodyEnters
<1>7. CASE \E e \in {None, "done", "divedone"} : MotionAsks(e)
  <2>1. \A x \in DOMAIN Table["motion"][cur["motion"]] :
          Table["motion"][cur["motion"]][x] # None
    BY MotionRows, MotionStates DEF Frame, None
  <2> QED
    BY <1>7, <2>1 DEF MotionAsks
<1>8. CASE MotionLeaves
  BY <1>8 DEF MotionLeaves
<1>9. CASE MotionEnters
  BY <1>9 DEF MotionEnters
<1>10. CASE UNCHANGED machines
  BY <1>10 DEF machines
<1> QED
  BY <1>1, <1>2, <1>3, <1>4, <1>5, <1>6, <1>7, <1>8, <1>9, <1>10, MachineSteps

\* Posting an event adds it to the queue, once.
LEMMA Posting ==
  ASSUME Queued, NEW e \in Posted
  PROVE  /\ Post(queue, e) \in Seq(Posted)
         /\ Range(Post(queue, e)) = Range(queue) \cup {e}
         /\ \A i, j \in DOMAIN Post(queue, e) :
              Post(queue, e)[i] = Post(queue, e)[j] => i = j
<1>1. CASE e \in Range(queue)
  BY <1>1 DEF Post, Queued
<1>2. CASE e \notin Range(queue)
  <2> DEFINE q == Append(queue, e)
  <2>1. /\ q \in Seq(Posted) /\ DOMAIN q = (DOMAIN queue) \cup {Len(queue) + 1}
        /\ q[Len(queue) + 1] = e /\ \A i \in DOMAIN queue : q[i] = queue[i]
    BY DEF Queued
  <2>2. \A i \in DOMAIN queue : queue[i] # e
    BY <1>2 DEF Range
  <2>3. Post(queue, e) = q
    BY <1>2 DEF Post
  <2> HIDE DEF q
  <2>4. Range(q) = Range(queue) \cup {e}
    BY <2>1 DEF Range
  <2>5. ASSUME NEW i \in DOMAIN q, NEW j \in DOMAIN q, q[i] = q[j] PROVE i = j
    BY <2>1, <2>2, <2>5 DEF Queued
  <2> QED
    BY <2>1, <2>3, <2>4, <2>5
<1> QED
  BY <1>1, <1>2

LEMMA QueueSteps ==
  ASSUME [Next]_vars
  PROVE  queue' = queue \/ queue' = <<>> \/ \E e \in Posted : queue' = Post(queue, e)
<1>1. CASE Game
  BY <1>1 DEF Game, GameUpdate, GameExit, GameEntry
<1>2. CASE BodyUpdate
  BY <1>2 DEF BodyUpdate, BodyIdle, BodyStart, BodyStop, BodyReady, BodyReadyMove, BodySteer,
     BodyKick, BodyWalkKick, BodyAnticipate, BodyDive, Goes, Posted
<1>3. CASE BodyExit
  BY <1>3 DEF BodyExit, Posted
<1>4. CASE BodyEntry
  BY <1>4 DEF BodyEntry, Posts, Posted
<1>5. CASE Motion
  BY <1>5 DEF Motion, MotionUpdate, MotionHold, MotionSit, MotionStance, MotionWalk, MotionDive,
     MotionFalling, MotionStandup, MotionKick, MotionExit, MotionEntry, Moves
<1>6. CASE WalkKickOver \/ UNCHANGED vars
  BY <1>6 DEF WalkKickOver, machines, vars, robot
<1> QED
  BY <1>1, <1>2, <1>3, <1>4, <1>5, <1>6 DEF Next, Body

LEMMA QueuedStep ==
  ASSUME Queued, [Next]_vars PROVE Queued'
<1>1. CASE queue' = queue
  BY <1>1 DEF Queued
<1>2. CASE queue' = <<>>
  BY <1>2 DEF Queued
<1>3. CASE \E e \in Posted : queue' = Post(queue, e)
  BY <1>3, Posting DEF Queued
<1> QED
  BY <1>1, <1>2, <1>3, QueueSteps

LEMMA MachineryStep ==
  ASSUME Machinery, [Next]_vars PROVE Machinery'
  BY FrameStep, FlowStep, QueuedStep DEF Machinery

LEMMA MachineryInit == Init => Machinery
<1> SUFFICES ASSUME Init PROVE Machinery
  OBVIOUS
<1>1. Frame
  BY MachineNames, GameStatesAre, BodyStatesAre, MotionStates DEF Init, Frame, Names
<1>2. Queued
  BY DEF Init, Queued, Posted
<1>3. Flow
  BY DEF Init, Flow, None
<1> QED
  BY <1>1, <1>2, <1>3 DEF Machinery

\* The machines' part of the type invariant, and the flow of a tick: only the
\* machine whose turn it is, or one that another has forced, has a next state.
THEOREM MachineryAlways == Spec => []Machinery
  BY MachineryInit, MachineryStep, PTL DEF Spec

LEMMA PartsInit == Init => Parts
<1> SUFFICES ASSUME Init PROVE Parts
  OBVIOUS
<1>1. walk \in WalkRecord
  <2> DEFINE w == [active |-> TRUE, stop |-> 2, cmd |-> 0, sent |-> 0, kick |-> FALSE]
  <2>1. w \in WalkRecord
    BY DEF WalkRecord, Velocity
  <2> QED
    BY <2>1 DEF Init
<1>2. phase \in 0 .. 3 /\ vel \in Velocity
  BY DEF Init, Velocity
<1>3. /\ started \in BOOLEAN /\ kicking \in BOOLEAN /\ torque \in BOOLEAN
      /\ kicked \in BOOLEAN /\ gaveUp \in BOOLEAN
  BY Zenon DEF Init
<1> QED
  BY <1>1, <1>2, <1>3 DEF Init, Parts

\* The rest of the type invariant: the walk module, the engine, the histories.
THEOREM PartsAlways == Spec => []Parts
  BY PartsInit, PartsStep, PTL DEF Spec

\* The types of RobotFsm hold for every set of roles, Hasty or not.
THEOREM TypeCorrect == Spec => []TypeOK
<1>1. Machinery /\ Parts => TypeOK
  BY DEF Machinery, Frame, Queued, Flow, Parts, TypeOK, WalkRecord
<1> QED
  BY <1>1, PartsAlways, MachineryAlways, PTL

-----------------------------------------------------------------------------
(* The body machine does what the game wants.                              *)

GoesReady == {"bodyReady", "bodyReadyMove"}
InPlay == States("body") \ ({"bodyIdle", "bodyStop"} \cup GoesReady)

\* What the game in state g wants of the body machine.
Agrees(g, b) ==
  CASE g \in IdleGames -> b = "bodyIdle"
    [] g = "gameReady" -> b \in GoesReady
    [] g = "gameSet" -> b = "bodyStop"
    [] OTHER -> b \in InPlay

\* The state the body machine is in, or is on its way to.
Heading == IF nxt["body"] = None THEN cur["body"] ELSE nxt["body"]

\* On its way is enough while it is the body machine's turn.
Obeys ==
  /\ Agrees(cur["game"], Heading)
  /\ turn # "body" => Agrees(cur["game"], cur["body"])
  /\ nxt["body"] = "bodyStart" => cur["body"] \notin InPlay

\* The body machine's own transitions never leave what the game wants.
LEMMA BodyClasses ==
  ASSUME NEW s \in States("body"), NEW e \in DOMAIN Table["body"][s]
  PROVE  /\ Table["body"][s][e] # "bodyStart"
         /\ s \in GoesReady => Table["body"][s][e] \in GoesReady
         /\ s \in InPlay => Table["body"][s][e] \in InPlay
         /\ s \notin {"bodyIdle", "bodyStop"}
<1>1. Table["body"] = BodyTable
  BY DEF Table
<1>2. e \in DOMAIN BodyTable[s]
  BY <1>1
<1>3. s \notin {"bodyIdle", "bodyStop"}
  BY <1>2 DEF BodyTable, Never
<1>4. BodyTable[s][e] # "bodyStart"
  BY <1>1, <1>2, BodyStatesAre, SMTT(60) DEF BodyTable, Never
<1>5. s \in GoesReady => BodyTable[s][e] \in GoesReady
  BY <1>2, SMTT(60) DEF BodyTable, GoesReady
<1>6. s \in InPlay => BodyTable[s][e] \in InPlay
  BY <1>1, <1>2, BodyStatesAre, SMTT(60) DEF BodyTable, InPlay, GoesReady
<1> QED
  BY <1>1, <1>3, <1>4, <1>5, <1>6

LEMMA ForcedAgrees ==
  ASSUME NEW g \in States("game")
  PROVE  /\ Agrees(g, BodyOf[g])
         /\ BodyOf[g] = "bodyStart" => g = "gamePlaying"
  BY GameStatesAre, BodyStatesAre DEF Agrees, BodyOf, IdleGames, InPlay, GoesReady

LEMMA ObeysStep ==
  ASSUME Machinery, Obeys, [Next]_vars PROVE Obeys'
<1> USE MachineNames DEF Machinery, Frame, Flow
<1>1. CASE GameAsks
  BY <1>1 DEF GameAsks, Obeys, Heading
<1>2. CASE GameLeaves
  BY <1>2 DEF GameLeaves, Obeys, Heading
<1>3. CASE GameEnters
  <2>1. nxt["game"] \in States("game") /\ nxt["game"] # cur["game"]
    BY <1>3 DEF GameEnters
  <2>2. /\ Agrees(nxt["game"], BodyOf[nxt["game"]]) /\ BodyOf[nxt["game"]] # None
        /\ BodyOf[nxt["game"]] = "bodyStart" => nxt["game"] = "gamePlaying"
    BY <2>1, ForcedAgrees, ForcedNames, StatesAreNames
  <2>3. ASSUME nxt["game"] = "gamePlaying" PROVE cur["body"] \notin InPlay
    <3>1. cur["game"] # "gamePlaying" /\ Agrees(cur["game"], cur["body"])
      BY <1>3, <2>1, <2>3 DEF GameEnters, Obeys
    <3> QED
      BY <3>1, GameStatesAre DEF Agrees, IdleGames, InPlay, GoesReady
  <2> QED
    BY <1>3, <2>1, <2>2, <2>3 DEF GameEnters, Obeys, Heading
<1>4. CASE BodyAsks
  <2>1. CASE nxt'["body"] = None
    BY <1>4, <2>1 DEF BodyAsks, Obeys, Heading, None
  <2>2. CASE nxt'["body"] # None
    <3>1. PICK e \in DOMAIN Table["body"][cur["body"]] :
            nxt'["body"] = Table["body"][cur["body"]][e]
      BY <1>4, <2>2 DEF BodyAsks
    <3>2. Agrees(cur["game"], cur["body"]) /\ turn' = "body" /\ cur' = cur
      BY <1>4, <2>2 DEF BodyAsks, Obeys, Heading
    <3>3. Agrees(cur["game"], nxt'["body"]) /\ nxt'["body"] # "bodyStart"
      BY <3>1, <3>2, BodyClasses DEF Agrees
    <3> QED
      BY <2>2, <3>2, <3>3 DEF Obeys, Heading
  <2> QED
    BY <2>1, <2>2
<1>5. CASE BodyLeaves
  BY <1>5 DEF BodyLeaves, Obeys, Heading
<1>6. CASE BodyEnters
  BY <1>6 DEF BodyEnters, Obeys, Heading, None
<1>7. CASE \E e \in {None, "done", "divedone"} : MotionAsks(e)
  BY <1>7 DEF MotionAsks, Obeys, Heading
<1>8. CASE MotionLeaves
  BY <1>8 DEF MotionLeaves, Obeys, Heading
<1>9. CASE MotionEnters
  BY <1>9 DEF MotionEnters, Obeys, Heading
<1>10. CASE UNCHANGED machines
  BY <1>10 DEF machines, Obeys, Heading
<1> QED
  BY <1>1, <1>2, <1>3, <1>4, <1>5, <1>6, <1>7, <1>8, <1>9, <1>10, MachineSteps

\* At every step of a tick, not only at its start, the body machine is where the
\* game wants it or on its way there: no forced state is lost.
THEOREM ObeysAlways == Spec => []Obeys
<1>1. Init => Obeys
  BY BodyStatesAre DEF Init, Obeys, Heading, Agrees, IdleGames, InPlay, None
<1> QED
  BY <1>1, ObeysStep, MachineryAlways, PTL DEF Spec

\* One tick after a change of the game the body machine does what the game
\* wants, however fast the game changes: RobotFsm_hasty checks it.
THEOREM BodyAgreesAlways == Spec => []BodyAgrees
<1>1. Obeys => BodyAgrees
  <2> SUFFICES ASSUME Obeys, TickStart PROVE BodyAgrees
    BY DEF BodyAgrees
  <2>1. Agrees(cur.game, cur.body)
    BY DEF Obeys, TickStart
  <2> QED
    BY <2>1 DEF BodyAgrees, Agrees, InPlay, GoesReady
<1> QED
  BY <1>1, ObeysAlways, PTL

-----------------------------------------------------------------------------
(* The kick event.                                                         *)

\* Who posts what: an event that is new in the queue.
LEMMA NewEvents ==
  ASSUME Machinery, Body, NEW x \in Range(queue'), x \notin Range(queue)
  PROVE  \/ x = "sit" /\ cur'["body"] = "bodyIdle" /\ nxt'["body"] = None
         \/ x = "standup" /\ cur'["body"] \in GoesReady
         \/ x = "diveready" /\ BodyEnters /\ cur'["body"] = "bodyAnticipate"
         \/ x = "dive" /\ BodyAsks /\ cur["body"] = "bodyAnticipate"
         \/ x = "walk" /\ BodyAsks /\ cur["body"] = "bodyAnticipate"
         \/ x = "walk" /\ BodyLeaves /\ cur["body"] = "bodyStop"
         \/ x = "kick" /\ BodyAsks /\ cur["body"] = "bodyKick" /\ phase' = 1 /\ nxt'["body"] = None
<1> USE DEF Machinery
<1>1. ASSUME NEW e \in Posted, queue' = Post(queue, e) PROVE x = e
  BY <1>1, Posting
<1>2. queue' # queue
  OBVIOUS
<1>3. CASE BodyIdle
  <2>1. cur' = cur /\ cur["body"] = "bodyIdle"
    BY <1>3, BodyUpdating DEF BodyUpdate, BodyIdle, Updates, BodyAsks
  <2>2. None \notin DOMAIN Table["body"][cur["body"]]
    BY BodyRows, MachineNames DEF Frame
  <2>3. nxt'["body"] = None
    BY <1>3, <2>2, Returning, MachineNames DEF BodyIdle, Returns, Frame
  <2> QED
    BY <1>1, <1>3, <2>1, <2>3 DEF BodyIdle, Posted
<1>4. CASE BodyKick
  <2>1. queue' = Post(queue, "kick") /\ phase' = 1 /\ Returns("body", None)
    BY <1>2, <1>4 DEF BodyKick
  <2>2. BodyAsks /\ cur["body"] = "bodyKick"
    BY <1>4, BodyUpdating DEF BodyUpdate, BodyKick, Updates
  <2>3. None \notin DOMAIN Table["body"][cur["body"]]
    BY BodyRows, MachineNames DEF Frame
  <2>4. nxt'["body"] = None
    BY <2>1, <2>3, Returning, MachineNames DEF Returns, Frame
  <2> QED
    BY <1>1, <2>1, <2>2, <2>4 DEF Posted
<1>5. CASE BodyAnticipate
  <2>1. BodyAsks /\ cur["body"] = "bodyAnticipate"
    BY <1>5, BodyUpdating DEF BodyUpdate, BodyAnticipate, Updates
  <2>2. queue' = Post(queue, "dive") \/ queue' = Post(queue, "walk")
    BY <1>2, <1>5 DEF BodyAnticipate
  <2> QED
    BY <1>1, <2>1, <2>2 DEF Posted
<1>6. CASE BodyUpdate /\ ~ BodyIdle /\ ~ BodyKick /\ ~ BodyAnticipate
  BY <1>2, <1>6 DEF BodyUpdate, BodyStart, BodyStop, BodyReady, BodyReadyMove, BodySteer,
     BodyWalkKick, BodyDive, Goes
<1>7. CASE BodyExit
  <2>1. BodyLeaves /\ queue' = Post(queue, "walk") /\ cur["body"] = "bodyStop"
    BY <1>2, <1>7, BodyExiting DEF BodyExit
  <2> QED
    BY <1>1, <2>1 DEF Posted
<1>8. CASE BodyEntry
  <2>1. BodyEnters /\ cur'["body"] = nxt["body"] /\ nxt'["body"] = None
    BY <1>8, BodyEntering DEF BodyEnters
  <2>2. queue' = Post(queue, Posts(nxt["body"])) /\ Posts(nxt["body"]) # None
    BY <1>2, <1>8 DEF BodyEntry
  <2>3. \/ Posts(nxt["body"]) = "sit" /\ nxt["body"] = "bodyIdle"
        \/ Posts(nxt["body"]) = "standup" /\ nxt["body"] \in GoesReady
        \/ Posts(nxt["body"]) = "diveready" /\ nxt["body"] = "bodyAnticipate"
    BY <2>2 DEF Posts, GoesReady
  <2> QED
    BY <1>1, <2>1, <2>2, <2>3 DEF Posted
<1> QED
  BY <1>3, <1>4, <1>5, <1>6, <1>7, <1>8 DEF Body, BodyUpdate

LEMMA QueueOfOthers ==
  ASSUME Machinery, [Next]_vars, ~ Body
  PROVE  \/ queue' = queue
         \/ queue' = <<>> /\ \E e \in {None, "done", "divedone"} : MotionAsks(e)
<1>1. CASE Game
  BY <1>1 DEF Game, GameUpdate, GameExit, GameEntry
<1>2. CASE MotionUpdate
  BY <1>2, MotionUpdating DEF MotionAsks
<1>3. CASE MotionExit \/ MotionEntry
  BY <1>3 DEF MotionExit, MotionEntry
<1>4. CASE WalkKickOver \/ UNCHANGED vars
  BY <1>4 DEF WalkKickOver, machines, vars, robot
<1> QED
  BY <1>1, <1>2, <1>3, <1>4 DEF Next, Motion

\* phase belongs to the body machine.
LEMMA PhaseOfOthers ==
  ASSUME [Next]_vars, ~ Body
  PROVE  phase' = phase /\ gaveUp' = gaveUp
<1>1. CASE Game
  BY <1>1 DEF Game, GameUpdate, GameExit, GameEntry, history
<1>2. CASE MotionUpdate
  BY <1>2 DEF MotionUpdate, MotionHold, MotionSit, MotionStance, MotionWalk, MotionDive,
     MotionFalling, MotionStandup, MotionKick, history
<1>3. CASE MotionExit \/ MotionEntry
  BY <1>3 DEF MotionExit, MotionEntry, history
<1>4. CASE WalkKickOver \/ UNCHANGED vars
  BY <1>4 DEF WalkKickOver, history, vars, robot
<1> QED
  BY <1>1, <1>2, <1>3, <1>4 DEF Next, Motion

LEMMA BodyTurn == ASSUME Machinery, Body PROVE turn = "body"
  BY BodyUpdating, BodyExiting, BodyEntering DEF Body, BodyAsks, BodyLeaves, BodyEnters

\* A kick event is heard in the tick it is posted, by the walk if at all.
KickAsked ==
  /\ "kick" \in Range(queue) =>
       /\ turn = "motion" /\ step = "update" /\ nxt["motion"] = None
       /\ cur["body"] = "bodyKick" /\ phase = 1
  /\ nxt["motion"] = "kick" =>
       /\ turn = "motion" /\ cur["motion"] = "walk"
       /\ cur["body"] = "bodyKick" /\ phase = 1

LEMMA EmptyRange == Range(<<>>) = {}
  BY DEF Range

LEMMA KickAskedStep ==
  ASSUME Machinery, KickAsked, [Next]_vars PROVE KickAsked'
<1> USE MachineNames DEF Machinery
<1>1. CASE Body
  <2>1. turn = "body" /\ "kick" \notin Range(queue) /\ nxt["motion"] # "kick"
    BY <1>1, BodyTurn DEF KickAsked
  <2>2. nxt'["motion"] # "kick"
    BY <1>1, <2>1, BodyUpdating, BodyExiting, BodyEntering
       DEF Body, BodyAsks, BodyLeaves, BodyEnters
  <2>3. ASSUME "kick" \in Range(queue')
        PROVE  /\ BodyAsks /\ cur["body"] = "bodyKick" /\ phase' = 1 /\ nxt'["body"] = None
    BY <1>1, <2>1, <2>3, NewEvents
  <2>4. ASSUME BodyAsks, nxt'["body"] = None, cur["body"] = "bodyKick"
        PROVE  /\ turn' = "motion" /\ step' = "update" /\ cur' = cur
               /\ nxt'["motion"] = None
    <3>1. \A e \in DOMAIN Table["body"][cur["body"]] :
            Table["body"][cur["body"]][e] # None
      BY BodyRows, StatesAreNames DEF Frame
    <3> QED
      BY <2>4, <3>1 DEF BodyAsks, Flow
  <2> QED
    BY <2>2, <2>3, <2>4 DEF KickAsked
<1>2. CASE ~ Body
  <2>1. phase' = phase
    BY <1>2, PhaseOfOthers
  <2>2. CASE \E e \in {None, "done", "divedone"} : MotionAsks(e)
    <3>1. PICK e \in {None, "done", "divedone"} : MotionAsks(e)
      BY <2>2
    <3>2. "kick" \notin Range(queue')
      BY <3>1, EmptyRange DEF MotionAsks
    <3>3. ASSUME nxt'["motion"] = "kick"
          PROVE  "kick" \in Range(queue) /\ cur["motion"] = "walk" /\ turn' = "motion"
      BY <3>1, <3>3, MotionRows DEF MotionAsks, Frame, None
    <3> QED
      BY <2>1, <3>1, <3>2, <3>3 DEF KickAsked, MotionAsks
  <2>3. CASE queue' = queue /\ ~ \E e \in {None, "done", "divedone"} : MotionAsks(e)
    <3>1. CASE GameAsks \/ GameLeaves \/ GameEnters
      BY <2>1, <2>3, <3>1 DEF KickAsked, GameAsks, GameLeaves, GameEnters
    <3>2. CASE MotionLeaves
      BY <2>1, <2>3, <3>2 DEF KickAsked, MotionLeaves, Flow
    <3>3. CASE MotionEnters
      BY <2>1, <2>3, <3>3 DEF KickAsked, MotionEnters, Flow, None
    <3>4. CASE UNCHANGED machines
      BY <2>1, <2>3, <3>4 DEF KickAsked, machines
    <3>5. GameAsks \/ GameLeaves \/ GameEnters \/ MotionLeaves \/ MotionEnters \/ UNCHANGED machines
      <4>1. CASE Game
        BY <4>1, GameUpdating, GameExiting, GameEntering DEF Game
      <4>2. CASE Motion
        BY <2>3, <4>2, MotionUpdating, MotionExiting, MotionEntering DEF Motion
      <4>3. CASE WalkKickOver \/ UNCHANGED vars
        BY <4>3 DEF WalkKickOver, vars, robot
      <4> QED
        BY <1>2, <4>1, <4>2, <4>3 DEF Next
    <3> QED
      BY <3>1, <3>2, <3>3, <3>4, <3>5
  <2> QED
    BY <1>2, <2>2, <2>3, QueueOfOthers
<1> QED
  BY <1>1, <1>2

\* bodyKick's event reaches the motion machine in the tick it is posted, and only
\* the walk hears it.
THEOREM KickAskedAlways == Spec => []KickAsked
<1>1. Init => KickAsked
  BY DEF Init, KickAsked, Range, None
<1> QED
  BY <1>1, KickAskedStep, MachineryAlways, PTL DEF Spec

-----------------------------------------------------------------------------
(* Nobody is left stranded.                                                *)

\* The states in play that leave the walk as they find it.
Free == Steering \cup {"bodyWalkKick", "bodyDive"}

\* The body machine is in one of them, or in a bodyKick that found the walk
\* over, or on its way to one, past the exit that starts the walk again.
Steers ==
  IF nxt["body"] = None
  THEN cur["body"] \in Free \/ (cur["body"] = "bodyKick" /\ phase = 3)
  ELSE /\ nxt["body"] \in Free \cup {"bodyKick"}
       /\ cur["body"] \in {"bodyStart", "bodyAnticipate"} => step = "entry"

\* The motion machine walks, or will when it is done with its transition or kick.
OnFoot == cur["motion"] \in {"walk", "kick"} \/ nxt["motion"] = "walk"

Walking(w) == w.active = TRUE /\ w.stop = 0

\* Whoever steers a robot on its feet has a walk that nobody asked to stop.
Carried == Steers /\ OnFoot /\ ~gaveUp => Walking(walk)

LEMMA WalkUpdateKeeps ==
  ASSUME Parts, WalkUpdate, Walking(walk) PROVE Walking(walk')
<1>1. CASE UNCHANGED legs
  BY <1>1 DEF legs
<1>2. CASE WalkStill \/ WalkLast \/ WalkStop
  BY <1>2 DEF WalkStill, WalkLast, WalkStop, Walking
<1>3. CASE WalkKickStep
  <2>0. PICK on \in {walk.kick /\ kicking, FALSE} : Send([walk EXCEPT !.kick = on])
    BY <1>3 DEF WalkKickStep
  <2> DEFINE w == [walk EXCEPT !.kick = on]
  <2>1. w \in WalkRecord /\ w.active = walk.active /\ w.stop = walk.stop
    <3>1. on \in BOOLEAN
      BY <2>0
    <3> QED
      BY <3>1, KickCell DEF Parts
  <2>2. Send(w)
    BY <2>0
  <2> HIDE DEF w
  <2> QED
    BY <2>1, <2>2, Sending DEF Parts, Walking
<1>4. CASE WalkOn
  BY <1>4, Sending DEF WalkOn, Parts, Walking
<1> QED
  BY <1>1, <1>2, <1>3, <1>4 DEF WalkUpdate

LEMMA WalkingOps ==
  ASSUME NEW w \in WalkRecord, NEW v \in Velocity
  PROVE  Walking(Started(w)) /\ (Walking(w) => Walking(Toward(w, v)))
  BY WalkOps DEF Walking

LEMMA GameCarried ==
  ASSUME Machinery, Parts, Obeys, Carried, Game PROVE Carried'
<1> USE MachineNames DEF Machinery, Frame, Flow
<1>1. phase' = phase /\ gaveUp' = gaveUp
  BY DEF Game, GameUpdate, GameExit, GameEntry, history
<1>2. CASE GameUpdate
  <2>1. GameAsks
    BY <1>2, GameUpdating
  <2>2. (Steers' => Steers) /\ (OnFoot' => OnFoot)
    BY <1>1, <2>1, BodyStatesAre DEF GameAsks, Steers, OnFoot, Free, Steering, None
  <2>3. cur["game"] = "gameSet" => ~ Steers
    BY <2>1, BodyStatesAre
       DEF GameAsks, Obeys, Heading, Agrees, IdleGames, Steers, Free, Steering
  <2>4. cur["game"] # "gameSet" => walk' = walk
    BY <1>2 DEF GameUpdate
  <2> QED
    BY <1>1, <2>2, <2>3, <2>4 DEF Carried
<1>3. CASE GameExit
  <2>1. walk' = walk \/ walk' = Started(walk)
    BY <1>3 DEF GameExit
  <2>2. (Steers' => Steers) /\ (OnFoot' => OnFoot)
    BY <1>1, <1>3, GameExiting, BodyStatesAre
       DEF GameLeaves, Steers, OnFoot, Free, Steering, None
  <2> QED
    BY <1>1, <2>1, <2>2, WalkingOps DEF Carried, Parts, Velocity
<1>4. CASE GameEntry
  <2>1. GameEnters
    BY <1>4, GameEntering
  <2>2. nxt'["body"] \in {"bodyIdle", "bodyReady", "bodyStop", "bodyStart"}
    BY <2>1, ForcedNames DEF GameEnters
  <2>3. ~ Steers'
    BY <2>2 DEF Steers, Free, Steering, None
  <2> QED
    BY <2>3 DEF Carried
<1> QED
  BY <1>2, <1>3, <1>4 DEF Game

LEMMA BodyUpdateCarried ==
  ASSUME Machinery, Parts, Carried, BodyUpdate PROVE Carried'
<1> USE MachineNames DEF Machinery, Frame
<1>0. BodyAsks /\ cur' = cur /\ nxt["body"] = None
  BY BodyUpdating DEF BodyAsks
<1>1. OnFoot' => OnFoot
  BY <1>0 DEF BodyAsks, OnFoot
<1>2. 0 \in Velocity /\ walk \in WalkRecord
  BY DEF Velocity, Parts
<1>3. ASSUME gaveUp' = gaveUp, Steers' => Steers, Walking(walk) => Walking(walk')
      PROVE  Carried'
  BY <1>1, <1>3 DEF Carried
<1>4. ASSUME cur["body"] \in Free PROVE Steers
  BY <1>0, <1>4 DEF Steers
<1>5. ASSUME cur["body"] \in {"bodyIdle", "bodyStop", "bodyReady", "bodyReadyMove"}
      PROVE  ~ Steers'
  <2>1. nxt'["body"] = None \/ nxt'["body"] \in GoesReady
    BY <1>0, <1>5, BodyClasses DEF BodyAsks, GoesReady
  <2> QED
    BY <1>0, <1>5, <2>1 DEF Steers, Free, Steering, GoesReady, None
<1>6. ASSUME cur["body"] \in {"bodyStart", "bodyAnticipate"} PROVE ~ Steers'
  <2>1. nxt'["body"] = None \/ step' = "exit"
    BY <1>0 DEF BodyAsks
  <2> QED
    BY <1>0, <1>6, <2>1 DEF Steers, Free, Steering
<1>7. CASE BodyIdle \/ BodyStop \/ BodyReady \/ BodyReadyMove
  <2>1. cur["body"] \in {"bodyIdle", "bodyStop", "bodyReady", "bodyReadyMove"}
    BY <1>7 DEF BodyIdle, BodyStop, BodyReady, BodyReadyMove, Updates
  <2> QED
    BY <1>5, <2>1 DEF Carried
<1>8. CASE BodyStart \/ BodyAnticipate
  <2>1. cur["body"] \in {"bodyStart", "bodyAnticipate"}
    BY <1>8 DEF BodyStart, BodyAnticipate, Updates
  <2> QED
    BY <1>6, <2>1 DEF Carried
<1>9. CASE BodySteer
  <2>1. cur["body"] \in Free
    BY <1>9 DEF BodySteer, Updates, Free
  <2>2. walk' = walk \/ \E v \in Velocity : walk' = Toward(walk, v)
    BY <1>9 DEF BodySteer, Goes
  <2>3. gaveUp' = gaveUp
    BY <1>9 DEF BodySteer, Goes, history
  <2> QED
    BY <1>2, <1>3, <1>4, <2>1, <2>2, <2>3, WalkingOps
<1>10. CASE BodyWalkKick \/ BodyDive
  <2>1. cur["body"] \in Free
    BY <1>10 DEF BodyWalkKick, BodyDive, Updates, Free
  <2>2. walk' = walk /\ gaveUp' = gaveUp
    BY <1>10 DEF BodyWalkKick, BodyDive, Goes, history
  <2> QED
    BY <1>3, <1>4, <2>1, <2>2
<1>11. CASE BodyKick
  <2>1. cur["body"] = "bodyKick"
    BY <1>11 DEF BodyKick, Updates
  <2>2. CASE phase = 3
    <3>1. Steers /\ walk' = Toward(walk, 0) /\ gaveUp' = gaveUp
      BY <1>0, <1>11, <2>1, <2>2 DEF BodyKick, Steers
    <3> QED
      BY <1>2, <1>3, <3>1, WalkingOps
  <2>3. CASE gaveUp' = TRUE
    BY <2>3 DEF Carried
  <2>4. CASE walk' = Started(walk) \/ walk' = Started(Toward(walk, 0))
    <3>1. Toward(walk, 0) \in WalkRecord
      BY <1>2, WalkOps
    <3> QED
      BY <1>2, <2>4, <3>1, WalkingOps DEF Carried
  <2>5. CASE Returns("body", None) /\ phase' # 3
    <3>1. None \notin DOMAIN Table["body"][cur["body"]]
      BY BodyRows
    <3>2. nxt'["body"] = None
      BY <2>5, <3>1, Returning DEF Returns
    <3>3. ~ Steers'
      BY <1>0, <2>1, <2>5, <3>2 DEF Steers, Free, Steering
    <3> QED
      BY <3>3 DEF Carried
  <2>6. phase # 3 => \/ gaveUp' = TRUE
                     \/ walk' = Started(walk) \/ walk' = Started(Toward(walk, 0))
                     \/ Returns("body", None) /\ phase' # 3
    BY <1>11 DEF BodyKick
  <2> QED
    BY <2>2, <2>3, <2>4, <2>5, <2>6
<1> QED
  BY <1>7, <1>8, <1>9, <1>10, <1>11 DEF BodyUpdate

LEMMA BodyExitCarried ==
  ASSUME Machinery, Parts, Carried, BodyExit PROVE Carried'
<1> USE MachineNames DEF Machinery, Frame, Flow
<1>1. /\ BodyLeaves /\ cur' = cur /\ nxt["body"] # None /\ nxt'["body"] = nxt["body"]
      /\ (OnFoot' => OnFoot)
  BY BodyExiting DEF BodyLeaves, OnFoot
<1>2. CASE cur["body"] \in {"bodyStart", "bodyAnticipate"}
  <2>1. walk' = Started(walk)
    BY <1>2 DEF BodyExit
  <2> QED
    BY <2>1, WalkingOps DEF Carried, Parts, Velocity
<1>3. CASE cur["body"] \notin {"bodyStart", "bodyAnticipate"}
  <2>1. walk' = walk /\ phase' = phase
    BY <1>3 DEF BodyExit
  <2>2. gaveUp => gaveUp'
    BY <1>3 DEF BodyExit
  <2>3. Steers' => Steers
    BY <1>1, <1>3 DEF Steers
  <2> QED
    BY <1>1, <2>1, <2>2, <2>3 DEF Carried
<1> QED
  BY <1>2, <1>3

LEMMA BodyEntryCarried ==
  ASSUME Machinery, Parts, Carried, BodyEntry PROVE Carried'
<1>1. /\ BodyEnters /\ cur'["body"] = nxt["body"] /\ nxt["body"] # None
      /\ nxt'["body"] = None /\ step = "entry"
      /\ (OnFoot' => OnFoot)
  BY BodyEntering DEF BodyEnters, OnFoot, Machinery, Flow
<1>2. gaveUp' = gaveUp
  BY DEF BodyEntry
<1>3. CASE nxt["body"] \in Free
  <2>1. walk' = walk \/ walk' = [walk EXCEPT !.kick = TRUE]
    BY <1>3 DEF BodyEntry, DoWalkKick, Free, Steering
  <2>2. Walking(walk) => Walking(walk')
    <3>1. TRUE \in BOOLEAN
      OBVIOUS
    <3> QED
      BY <2>1, <3>1, KickCell DEF Walking, Parts
  <2>3. Steers
    BY <1>1, <1>3 DEF Steers
  <2> QED
    BY <1>1, <1>2, <2>2, <2>3 DEF Carried
<1>4. CASE nxt["body"] = "bodyKick"
  <2>1. phase' = IF walk.active THEN 0 ELSE 3
    BY <1>4 DEF BodyEntry
  <2>2. Steers
    BY <1>1, <1>4 DEF Steers
  <2>3. OnFoot /\ ~gaveUp => phase' = 0
    BY <2>1, <2>2 DEF Carried, Walking
  <2> QED
    BY <1>1, <1>2, <1>4, <2>3 DEF Carried, Steers, Free, Steering
<1>5. CASE nxt["body"] \notin Free \cup {"bodyKick"}
  BY <1>1, <1>5 DEF Carried, Steers
<1> QED
  BY <1>3, <1>4, <1>5

LEMMA MotionCarried ==
  ASSUME Machinery, Parts, KickAsked, Carried, Motion PROVE Carried'
<1> USE MachineNames DEF Machinery, Frame, Flow
<1>0. turn = "motion" /\ nxt["body"] = None
  BY MotionUpdating, MotionExiting, MotionEntering
     DEF Motion, MotionAsks, MotionLeaves, MotionEnters
<1>1. phase' = phase /\ gaveUp' = gaveUp
  <2>1. ~ Body
    BY <1>0, BodyTurn
  <2> QED
    BY <2>1, PhaseOfOthers DEF Next
<1>2. /\ nxt'["body"] = None /\ cur'["body"] = cur["body"]
      /\ (Steers' => Steers)
  BY <1>0, <1>1, MotionUpdating, MotionExiting, MotionEntering
     DEF Motion, MotionAsks, MotionLeaves, MotionEnters, Steers
<1>3. CASE MotionUpdate
  <2>1. /\ cur' = cur /\ nxt["motion"] = None
    BY <1>3, MotionUpdating DEF MotionAsks
  <2>2. ASSUME NEW e \in {None, "done", "divedone"}, MotionAsks(e), nxt'["motion"] = "walk"
        PROVE  e = "done" /\ cur["motion"] \in {"stance", "kick", "align"}
    <3>1. PICK x \in (Range(queue) \cup {e}) \cap DOMAIN Table["motion"][cur["motion"]] :
            nxt'["motion"] = Table["motion"][cur["motion"]][x]
      BY <2>2 DEF MotionAsks, None
    <3>2. x = "done" /\ cur["motion"] \in {"stance", "kick", "align"}
      BY <2>2, <3>1, MotionRows
    <3>3. "done" \notin Range(queue)
      BY DEF Queued, Posted, Range
    <3> QED
      BY <3>1, <3>2, <3>3
  <2>3. CASE cur["motion"] \notin {"stance", "walk", "kick"}
    <3>1. cur["motion"] # "align"
      BY <1>3 DEF MotionUpdate, MotionHold, MotionSit, MotionStance, MotionWalk, MotionDive,
         MotionFalling, MotionStandup, MotionKick, Updates
    <3>2. ~ OnFoot'
      BY <1>3, <2>1, <2>2, <2>3, <3>1, MotionUpdating DEF OnFoot
    <3> QED
      BY <3>2 DEF Carried
  <2>4. CASE cur["motion"] = "stance"
    <3>1. MotionStance
      BY <1>3, <2>4 DEF MotionUpdate, MotionHold, MotionSit, MotionWalk, MotionDive,
         MotionFalling, MotionStandup, MotionKick, Updates
    <3>2. CASE Moves(None)
      <4>1. MotionAsks(None)
        BY <1>0, <2>1, <3>1, <3>2, Moving DEF MotionStance, Updates
      <4>2. ~ OnFoot'
        BY <2>1, <2>2, <2>4, <4>1 DEF OnFoot, None
      <4> QED
        BY <4>2 DEF Carried
    <3>3. CASE walk' = Started(Reset(walk))
      <4>1. Reset(walk) \in WalkRecord /\ 0 \in Velocity
        BY WalkOps DEF Parts, Velocity
      <4> QED
        BY <3>3, <4>1, WalkingOps DEF Carried
    <3> QED
      BY <3>1, <3>2, <3>3 DEF MotionStance
  <2>5. CASE cur["motion"] \in {"walk", "kick"}
    <3>1. MotionWalk \/ MotionKick
      BY <1>3, <2>5 DEF MotionUpdate, MotionHold, MotionSit, MotionStance, MotionDive,
         MotionFalling, MotionStandup, Updates
    <3>2. WalkUpdate \/ walk' = walk
      BY <3>1 DEF MotionWalk, MotionKick, legs
    <3>3. Walking(walk) => Walking(walk')
      BY <3>2, WalkUpdateKeeps
    <3>4. OnFoot
      BY <2>5 DEF OnFoot
    <3> QED
      BY <1>1, <1>2, <3>3, <3>4 DEF Carried
  <2> QED
    BY <2>3, <2>4, <2>5
<1>4. CASE MotionExit
  <2>1. walk' = walk \/ walk' = Started(walk)
    BY <1>4 DEF MotionExit
  <2>2. OnFoot' => OnFoot
    BY <1>4, MotionExiting DEF MotionLeaves, OnFoot
  <2> QED
    BY <1>1, <1>2, <2>1, <2>2, WalkingOps DEF Carried, Parts, Velocity
<1>5. CASE MotionEntry
  <2>1. cur'["motion"] = nxt["motion"] /\ nxt'["motion"] = None
    BY <1>5, MotionEntering DEF MotionEnters
  <2>2. CASE nxt["motion"] = "walk"
    <3>1. walk' = [walk EXCEPT !.kick = FALSE]
      BY <1>5, <2>2 DEF MotionEntry, WalkAtEntry
    <3>2. FALSE \in BOOLEAN
      OBVIOUS
    <3>3. Walking(walk) => Walking(walk')
      BY <3>1, <3>2, KickCell DEF Walking, Parts
    <3>4. OnFoot
      BY <2>2 DEF OnFoot
    <3> QED
      BY <1>1, <1>2, <3>3, <3>4 DEF Carried
  <2>3. CASE nxt["motion"] = "kick"
    <3>1. ~ Steers
      BY <1>0, <2>3 DEF KickAsked, Steers, Free, Steering
    <3> QED
      BY <1>2, <3>1 DEF Carried
  <2>4. CASE nxt["motion"] \notin {"walk", "kick"}
    BY <2>1, <2>4 DEF Carried, OnFoot, None
  <2> QED
    BY <2>2, <2>3, <2>4
<1> QED
  BY <1>3, <1>4, <1>5 DEF Motion

LEMMA CarriedStep ==
  ASSUME Machinery, Parts, Obeys, KickAsked, Carried, [Next]_vars PROVE Carried'
<1>1. CASE WalkKickOver \/ UNCHANGED vars
  BY <1>1 DEF WalkKickOver, machines, legs, history, vars, robot, Carried, Steers, OnFoot
<1> QED
  BY <1>1, GameCarried, BodyUpdateCarried, BodyExitCarried, BodyEntryCarried, MotionCarried
     DEF Next, Body

\* The invariant behind NeverStranded: every stop that is asked for is taken back
\* before a body state that steers is entered, but by a bodyKick that gave up.
THEOREM CarriedAlways == Spec => []Carried
<1>1. Init => Carried
  BY DEF Init, Carried, Steers, OnFoot, Free, Steering, None
<1> QED
  BY <1>1, CarriedStep, MachineryAlways, PartsAlways, ObeysAlways, KickAskedAlways, PTL
     DEF Spec

\* A body state that steers a robot on its feet finds the walk active, unless a
\* bodyKick gave up, however fast the game changes.
THEOREM NeverStrandedAlways == Spec => []NeverStranded
<1>1. Machinery /\ Carried => NeverStranded
  <2> SUFFICES ASSUME Machinery, Carried, TickStart, cur.body \in Steering,
                      cur.motion = "walk", ~gaveUp
               PROVE  walk.active
    BY DEF NeverStranded
  <2>1. nxt["body"] = None
    BY DEF Machinery, Flow, TickStart, Steering
  <2> QED
    BY <2>1 DEF Carried, Steers, OnFoot, Free, Walking
<1> QED
  BY <1>1, MachineryAlways, CarriedAlways, PTL

-----------------------------------------------------------------------------
(* A kick out of a stand.                                                  *)

Still == vel = 0 /\ walk.cmd = 0 /\ walk.sent = 0

\* A walk whose stop is still to come: its last step will zero the velocity.
StopsYet(w) == w.active = TRUE /\ w.stop \in {0, 1}

\* bodyKick goes on, and none has given up.
InKick == cur["body"] = "bodyKick" /\ nxt["body"] = None /\ ~gaveUp

\* A kick is asked for, on its way or going on.
Kicking ==
  \/ cur["motion"] = "kick" /\ ~(turn = "motion" /\ step = "entry")
  \/ nxt["motion"] = "kick"
  \/ cur["motion"] = "walk" /\ "kick" \in Range(queue)

\* While bodyKick waits for the walk to stop, the stop is to come or has left
\* nothing to take back; from its kick event on the robot stands.
Stilled ==
  /\ InKick /\ phase = 0 /\ OnFoot => StopsYet(walk) \/ Still
  /\ InKick /\ phase \in {1, 2} /\ Kicking => walk.active = FALSE /\ vel = 0

LEMMA WalkUpdateStops ==
  ASSUME Parts, WalkUpdate
  PROVE  /\ StopsYet(walk) => StopsYet(walk') \/ Still'
         /\ Still => Still'
         /\ walk.active = FALSE /\ vel = 0 => walk'.active = FALSE /\ vel' = 0
<1> USE DEF Parts, StopsYet, Still
<1>1. CASE UNCHANGED legs
  BY <1>1 DEF legs
<1>2. CASE WalkStill
  <2>1. /\ Reset(walk).active = walk.active /\ Reset(walk).stop = walk.stop
        /\ Reset(walk).cmd = 0 /\ Reset(walk).sent = 0
    BY WalkOps DEF Velocity
  <2> QED
    BY <1>2, <2>1 DEF WalkStill
<1>3. CASE WalkLast
  <2>1. walk.active = TRUE /\ walk.stop \in {2, 3} /\ vel' = vel
    BY <1>3 DEF WalkLast, WalkRecord
  <2>2. walk' = [walk EXCEPT !.stop = 3] \/ walk' = [walk EXCEPT !.active = FALSE, !.stop = 0]
    BY <1>3 DEF WalkLast
  <2>3. walk'.cmd = walk.cmd /\ walk'.sent = walk.sent
    <3>1. FALSE \in BOOLEAN /\ 0 \in 0 .. 3
      OBVIOUS
    <3>2. /\ [walk EXCEPT !.active = FALSE, !.stop = 0].cmd = walk.cmd
          /\ [walk EXCEPT !.active = FALSE, !.stop = 0].sent = walk.sent
      BY <3>1, ActiveCell
    <3>3. [walk EXCEPT !.stop = 3].cmd = walk.cmd /\ [walk EXCEPT !.stop = 3].sent = walk.sent
      BY DEF WalkRecord
    <3> QED
      BY <2>2, <3>2, <3>3
  <2> QED
    BY <2>1, <2>3
<1>4. CASE WalkKickStep
  <2>0. PICK on \in {walk.kick /\ kicking, FALSE} : Send([walk EXCEPT !.kick = on])
    BY <1>4 DEF WalkKickStep
  <2> DEFINE w == [walk EXCEPT !.kick = on]
  <2>1. /\ w \in WalkRecord /\ w.active = walk.active /\ w.stop = walk.stop
        /\ w.cmd = walk.cmd /\ w.sent = walk.sent
    <3>1. on \in BOOLEAN
      BY <2>0
    <3> QED
      BY <3>1, KickCell
  <2>2. Send(w) /\ walk.active = TRUE
    BY <1>4, <2>0 DEF WalkKickStep, WalkRecord
  <2> HIDE DEF w
  <2> QED
    BY <2>1, <2>2, Sending
<1>5. CASE WalkStop
  <2>1. /\ walk' = LastStep(walk) /\ vel' = 0 /\ walk.active = TRUE
        /\ LastStep(walk).cmd = 0 /\ LastStep(walk).sent = 0
    BY <1>5, WalkOps DEF WalkStop, Velocity, WalkRecord
  <2> QED
    BY <2>1
<1>6. CASE WalkOn
  <2>1. walk.active = TRUE
    BY <1>6 DEF WalkOn, WalkRecord
  <2> QED
    BY <1>6, <2>1, Sending DEF WalkOn
<1> QED
  BY <1>1, <1>2, <1>3, <1>4, <1>5, <1>6 DEF WalkUpdate

LEMMA StoppingOps ==
  ASSUME NEW w \in WalkRecord
  PROVE  /\ StopsYet(Started(w))
         /\ (StopsYet(w) => StopsYet(Stopped(w)))
         /\ Started(w).cmd = w.cmd /\ Started(w).sent = w.sent
         /\ Stopped(w).cmd = w.cmd /\ Stopped(w).sent = w.sent
         /\ Stopped(w).active = w.active
  BY WalkOps DEF StopsYet, AtLeastOne, Velocity

LEMMA GameStilled ==
  ASSUME Machinery, Parts, Obeys, Stilled, Game PROVE Stilled'
<1> USE MachineNames DEF Machinery, Frame, Flow
<1>1. /\ phase' = phase /\ gaveUp' = gaveUp /\ vel' = vel /\ queue' = queue
  BY DEF Game, GameUpdate, GameExit, GameEntry, history
<1>2. CASE GameUpdate \/ GameExit
  <2>1. GameAsks \/ GameLeaves
    BY <1>2, GameUpdating, GameExiting
  <2>2. /\ (InKick' => InKick) /\ (OnFoot' => OnFoot) /\ (Kicking' => Kicking)
        /\ turn = "game"
    BY <1>1, <2>1 DEF GameAsks, GameLeaves, InKick, OnFoot, Kicking
  <2>3. InKick => cur["game"] # "gameInitial"
    BY DEF InKick, Obeys, Heading, Agrees, IdleGames
  <2>4. \/ walk' = walk \/ walk' = Stopped(walk)
        \/ walk' = Started(walk) /\ cur["game"] = "gameInitial"
    BY <1>2 DEF GameUpdate, GameExit
  <2> QED
    BY <1>1, <2>2, <2>3, <2>4, StoppingOps DEF Stilled, Parts, Still
<1>3. CASE GameEntry
  <2>1. nxt'["body"] \in {"bodyIdle", "bodyReady", "bodyStop", "bodyStart"}
    BY <1>3, GameEntering, ForcedNames DEF GameEnters
  <2> QED
    BY <2>1 DEF Stilled, InKick, None
<1> QED
  BY <1>2, <1>3 DEF Game

LEMMA BodyStilled ==
  ASSUME Machinery, Parts, KickAsked, Carried, Stilled, Body PROVE Stilled'
<1> USE MachineNames DEF Machinery, Frame, Flow
<1>1. CASE BodyUpdate
  <2>1. BodyAsks /\ cur' = cur /\ turn = "body" /\ step = "update" /\ nxt["body"] = None
    BY <1>1, BodyUpdating DEF BodyAsks
  <2>2. CASE BodyKick
    <3>1. cur["body"] = "bodyKick" /\ vel' = vel
      BY <2>2 DEF BodyKick, Updates
    <3>2. OnFoot' => OnFoot
      BY <2>1 DEF BodyAsks, OnFoot
    <3>3. "kick" \notin Range(queue) /\ nxt["motion"] # "kick" /\ nxt'["motion"] # "kick"
      BY <2>1 DEF KickAsked, BodyAsks
    <3>4. None \notin DOMAIN Table["body"][cur["body"]]
      BY BodyRows
    <3>5. \A e \in DOMAIN Table["body"][cur["body"]] : Table["body"][cur["body"]][e] # None
      BY BodyRows, BodyStatesAre DEF None
    <3>6. ASSUME NEW e \in {"done", "timeout", "reposition"}, Returns("body", e)
          PROVE  nxt'["body"] # None
      <4>1. e \in DOMAIN Table["body"]["bodyKick"]
        BY SMTT(30) DEF Table, BodyTable
      <4> QED
        BY <3>1, <3>5, <3>6, <4>1, Returning DEF Returns
    <3>7. CASE \E e \in {"done", "timeout", "reposition"} : Returns("body", e)
      BY <3>6, <3>7 DEF Stilled, InKick
    <3>8. CASE phase' = phase /\ queue' = queue /\ walk' = walk /\ gaveUp' = gaveUp
      <4>1. Kicking' => Kicking
        BY <2>1, <3>3, <3>8 DEF Kicking
      <4>2. InKick' => InKick
        BY <2>1, <3>8 DEF InKick
      <4> QED
        BY <3>1, <3>2, <3>8, <4>1, <4>2 DEF Stilled, Still
    <3>9. CASE /\ phase = 0 /\ ~walk.active /\ phase' = 1
               /\ walk' = walk /\ gaveUp' = gaveUp
      <4>1. Kicking' => OnFoot
        BY <2>1, <3>3, <3>9 DEF Kicking, OnFoot
      <4>2. InKick' => InKick
        BY <2>1, <3>9 DEF InKick
      <4>3. walk.active = FALSE
        BY <3>9 DEF Parts, WalkRecord
      <4> QED
        BY <3>1, <3>9, <4>1, <4>2, <4>3 DEF Stilled, Still, StopsYet
    <3>10. CASE phase = 1 /\ phase' = 2 /\ queue' = queue /\ walk' = walk /\ gaveUp' = gaveUp
      <4>1. Kicking' => Kicking
        BY <2>1, <3>3, <3>10 DEF Kicking
      <4>2. InKick' => InKick
        BY <2>1, <3>10 DEF InKick
      <4> QED
        BY <3>1, <3>10, <4>1, <4>2 DEF Stilled
    <3> QED
      BY <2>2, <3>7, <3>8, <3>9, <3>10 DEF BodyKick
  <2>3. CASE ~BodyKick
    <3>1. cur["body"] # "bodyKick"
      BY <1>1, <2>3 DEF BodyUpdate, BodyIdle, BodyStart, BodyStop, BodyReady, BodyReadyMove,
         BodySteer, BodyWalkKick, BodyAnticipate, BodyDive, Updates, Steering
    <3> QED
      BY <2>1, <3>1 DEF Stilled, InKick
  <2> QED
    BY <2>2, <2>3
<1>2. CASE BodyExit
  <2>1. nxt'["body"] # None
    BY <1>2, BodyExiting DEF BodyLeaves
  <2> QED
    BY <2>1 DEF Stilled, InKick
<1>3. CASE BodyEntry
  <2>1. /\ BodyEnters /\ cur'["body"] = nxt["body"] /\ nxt["body"] # None
        /\ step = "entry" /\ gaveUp' = gaveUp
        /\ (OnFoot' => OnFoot)
    BY <1>3, BodyEntering DEF BodyEnters, OnFoot, BodyEntry
  <2>2. CASE nxt["body"] = "bodyKick"
    <3>1. phase' = (IF walk.active THEN 0 ELSE 3) /\ walk' = Stopped(walk)
      BY <1>3, <2>2 DEF BodyEntry
    <3>2. Steers
      BY <2>1, <2>2 DEF Steers, None
    <3>3. OnFoot /\ ~gaveUp => StopsYet(walk)
      BY <3>2 DEF Carried, Walking, StopsYet
    <3> QED
      BY <2>1, <3>1, <3>3, StoppingOps DEF Stilled, InKick, Parts
  <2>3. CASE nxt["body"] # "bodyKick"
    BY <2>1, <2>3 DEF Stilled, InKick
  <2> QED
    BY <2>2, <2>3
<1> QED
  BY <1>1, <1>2, <1>3 DEF Body

LEMMA MotionStilled ==
  ASSUME Machinery, Parts, KickAsked, Stilled, Motion PROVE Stilled'
<1> USE MachineNames DEF Machinery, Frame, Flow
<1>0. turn = "motion" /\ nxt["body"] = None
  BY MotionUpdating, MotionExiting, MotionEntering
     DEF Motion, MotionAsks, MotionLeaves, MotionEnters
<1>1. phase' = phase /\ gaveUp' = gaveUp
  <2>1. ~ Body
    BY <1>0, BodyTurn
  <2> QED
    BY <2>1, PhaseOfOthers DEF Next
<1>2. InKick' => InKick
  BY <1>0, <1>1, MotionUpdating, MotionExiting, MotionEntering
     DEF Motion, MotionAsks, MotionLeaves, MotionEnters, InKick
<1>3. CASE MotionUpdate
  <2>1. PICK e \in {None, "done", "divedone"} : MotionAsks(e)
    BY <1>3, MotionUpdating
  <2>2. cur' = cur /\ nxt["motion"] = None /\ queue' = <<>> /\ step = "update"
    BY <2>1 DEF MotionAsks
  <2>3. "kick" \notin Range(queue')
    BY <2>2, EmptyRange
  <2>4. nxt'["motion"] = "kick" => cur["motion"] = "walk" /\ "kick" \in Range(queue)
    BY <2>1, MotionRows DEF MotionAsks, None
  <2>5. Kicking' => Kicking
    BY <1>0, <2>2, <2>3, <2>4 DEF Kicking
  <2>7. CASE cur["motion"] = "stance"
    <3>1. MotionStance
      BY <1>3, <2>7 DEF MotionUpdate, MotionHold, MotionSit, MotionWalk, MotionDive,
         MotionFalling, MotionStandup, MotionKick, Updates
    <3>2. ~ Kicking'
      BY <2>2, <2>3, <2>4, <2>7 DEF Kicking
    <3>3. CASE Moves(None)
      <4>1. MotionAsks(None)
        BY <1>0, <2>2, <3>1, <3>3, Moving DEF MotionStance, Updates
      <4>2. nxt'["motion"] # "walk"
        <5>1. "done" \notin Range(queue)
          BY DEF Queued, Posted, Range
        <5> QED
          BY <4>1, <5>1, MotionRows DEF MotionAsks, None
      <4> QED
        BY <2>2, <2>7, <3>2, <4>2 DEF Stilled, OnFoot
    <3>4. CASE walk' = Started(Reset(walk))
      <4>1. Reset(walk) \in WalkRecord
        BY WalkOps DEF Parts, Velocity
      <4> QED
        BY <3>2, <3>4, <4>1, StoppingOps DEF Stilled
    <3> QED
      BY <3>1, <3>3, <3>4 DEF MotionStance
  <2>8. CASE cur["motion"] # "stance"
    <3>1. WalkUpdate \/ (walk' = walk /\ vel' = vel)
      BY <1>3, <2>8 DEF MotionUpdate, MotionHold, MotionSit, MotionStance, MotionWalk, MotionDive,
         MotionFalling, MotionStandup, MotionKick, legs, Updates
    <3>2. /\ StopsYet(walk) \/ Still => StopsYet(walk') \/ Still'
          /\ walk.active = FALSE /\ vel = 0 => walk'.active = FALSE /\ vel' = 0
      BY <3>1, WalkUpdateStops DEF StopsYet, Still
    <3>3. OnFoot' => OnFoot
      <4>1. "done" \notin Range(queue)
        BY DEF Queued, Posted, Range
      <4>2. ASSUME nxt'["motion"] = "walk" PROVE cur["motion"] \in {"kick", "align"}
        BY <2>1, <2>8, <4>2, MotionRows DEF MotionAsks, None
      <4>3. cur["motion"] # "align"
        BY <1>3 DEF MotionUpdate, MotionHold, MotionSit, MotionStance, MotionWalk, MotionDive,
           MotionFalling, MotionStandup, MotionKick, Updates
      <4> QED
        BY <2>2, <4>2, <4>3 DEF OnFoot
    <3> QED
      BY <1>1, <1>2, <2>5, <3>2, <3>3 DEF Stilled
  <2> QED
    BY <2>7, <2>8
<1>4. CASE MotionExit
  <2>1. MotionLeaves /\ cur' = cur /\ nxt' = nxt /\ queue' = queue /\ vel' = vel
    BY <1>4, MotionExiting DEF MotionLeaves, MotionExit
  <2>2. walk' = IF cur["motion"] = "kick" THEN Started(walk) ELSE walk
    BY <1>4 DEF MotionExit
  <2>3. OnFoot' => OnFoot
    BY <2>1 DEF OnFoot
  <2>4. Kicking' => Kicking /\ cur["motion"] # "kick"
    BY <1>0, <2>1 DEF Kicking, KickAsked, MotionLeaves
  <2> QED
    BY <1>1, <1>2, <2>1, <2>2, <2>3, <2>4, StoppingOps DEF Stilled, Parts, Still
<1>5. CASE MotionEntry
  <2>1. /\ MotionEnters /\ queue' = queue /\ cur'["motion"] = nxt["motion"]
        /\ nxt["motion"] # None /\ nxt'["motion"] = None /\ turn' = "game"
    BY <1>0, <1>5, MotionEntering DEF MotionEnters, MotionEntry
  <2>2. CASE nxt["motion"] = "walk"
    <3>1. ~ Kicking'
      BY <2>1, <2>2 DEF Kicking, KickAsked, None
    <3>2. OnFoot
      BY <2>2 DEF OnFoot
    <3>3. walk' = [walk EXCEPT !.kick = FALSE] /\ vel' = vel
      BY <1>5, <2>2 DEF MotionEntry, WalkAtEntry
    <3>4. /\ walk'.active = walk.active /\ walk'.stop = walk.stop
          /\ walk'.cmd = walk.cmd /\ walk'.sent = walk.sent
      <4>1. FALSE \in BOOLEAN
        OBVIOUS
      <4> QED
        BY <3>3, <4>1, KickCell DEF Parts
    <3> QED
      BY <1>1, <1>2, <3>1, <3>2, <3>3, <3>4 DEF Stilled, Still, StopsYet
  <2>3. CASE nxt["motion"] = "kick"
    <3>1. Kicking /\ phase = 1
      BY <2>3 DEF Kicking, KickAsked
    <3>2. walk' = Stopped(walk) /\ vel' = vel
      BY <1>5, <2>3 DEF MotionEntry, WalkAtEntry
    <3> QED
      BY <1>1, <1>2, <3>1, <3>2, StoppingOps DEF Stilled, Parts
  <2>4. CASE nxt["motion"] \notin {"walk", "kick"}
    <3>1. ~ Kicking' /\ ~ OnFoot'
      BY <2>1, <2>4 DEF Kicking, OnFoot, None
    <3> QED
      BY <3>1 DEF Stilled
  <2> QED
    BY <2>2, <2>3, <2>4
<1> QED
  BY <1>3, <1>4, <1>5 DEF Motion

LEMMA StilledStep ==
  ASSUME Machinery, Parts, Obeys, KickAsked, Carried, Stilled, [Next]_vars PROVE Stilled'
<1>1. CASE WalkKickOver \/ UNCHANGED vars
  BY <1>1 DEF WalkKickOver, vars, robot, machines, legs, history, Stilled, InKick, OnFoot,
     Kicking, StopsYet, Still
<1> QED
  BY <1>1, GameStilled, BodyStilled, MotionStilled DEF Next

\* The invariant behind the next theorem: from the stop that bodyKick asks for
\* to the end of the kick nothing starts the walk or sends a velocity.
THEOREM StilledAlways == Spec => []Stilled
<1>1. Init => Stilled
  BY DEF Init, Stilled, InKick
<1> QED
  BY <1>1, StilledStep, MachineryAlways, PartsAlways, ObeysAlways, KickAskedAlways,
     CarriedAlways, PTL DEF Spec

\* A robot, goalie or player, whose game may change at any time, kicks out of a
\* stand unless a bodyKick has given up: RobotFsm_hasty checks it.
THEOREM KicksStandingStillAlways == Spec => []KicksStandingStill
<1>1. Machinery /\ Parts /\ Stilled => KicksStandingStill
  <2> SUFFICES ASSUME Machinery, Parts, Stilled, TickStart, cur["body"] = "bodyKick",
                      phase \in {1, 2}, cur["motion"] = "kick", ~gaveUp
               PROVE  ~walk.active /\ vel = 0
    BY DEF KicksStandingStill
  <2>1. InKick /\ Kicking
    BY DEF TickStart, Machinery, Flow, InKick, Kicking
  <2>2. walk.active = FALSE /\ vel = 0
    BY <2>1 DEF Stilled
  <2> QED
    BY <2>2
<1> QED
  BY <1>1, StilledAlways, MachineryAlways, PartsAlways, PTL

-----------------------------------------------------------------------------
(* The goalie's way out of divewait.                                       *)

\* Every step with what it does to the queue; Body is taken apart where it matters.
LEMMA StepKinds ==
  ASSUME Machinery, [Next]_vars
  PROVE  \/ Body
         \/ (GameAsks \/ GameLeaves \/ GameEnters) /\ queue' = queue
         \/ (\E e \in {None, "done", "divedone"} : MotionAsks(e)) /\ Range(queue') = {}
         \/ (MotionLeaves \/ MotionEnters) /\ queue' = queue
         \/ UNCHANGED machines
<1>1. CASE Game
  <2>1. queue' = queue
    BY <1>1 DEF Game, GameUpdate, GameExit, GameEntry
  <2> QED
    BY <1>1, <2>1, GameUpdating, GameExiting, GameEntering DEF Game
<1>2. CASE MotionUpdate
  BY <1>2, MotionUpdating, EmptyRange DEF MotionAsks
<1>3. CASE MotionExit \/ MotionEntry
  <2>1. queue' = queue
    BY <1>3 DEF MotionExit, MotionEntry
  <2> QED
    BY <1>3, <2>1, MotionExiting, MotionEntering
<1>4. CASE WalkKickOver \/ UNCHANGED vars
  BY <1>4 DEF WalkKickOver, vars, robot
<1> QED
  BY <1>1, <1>2, <1>3, <1>4 DEF Next, Motion

\* The body machine takes nothing out of the queue.
LEMMA BodyAdds ==
  ASSUME Machinery, Body PROVE Range(queue) \subseteq Range(queue')
<1>1. queue' = queue \/ \E e \in Posted : queue' = Post(queue, e)
  <2>1. CASE BodyUpdate
    BY <2>1 DEF BodyUpdate, BodyIdle, BodyStart, BodyStop, BodyReady, BodyReadyMove, BodySteer,
       BodyKick, BodyWalkKick, BodyAnticipate, BodyDive, Goes, Posted
  <2>2. CASE BodyExit
    BY <2>2 DEF BodyExit, Posted
  <2>3. CASE BodyEntry
    BY <2>3 DEF BodyEntry, Posts, Posted
  <2> QED
    BY <2>1, <2>2, <2>3 DEF Body
<1> QED
  BY <1>1, Posting DEF Machinery

\* The body machine's own transitions come from play to play; what the game
\* forces comes from anywhere.
FromPlay == nxt["body"] \in InPlay \ {"bodyStart"} => cur["body"] \in InPlay

LEMMA FromPlayStep ==
  ASSUME Machinery, FromPlay, [Next]_vars PROVE FromPlay'
<1> USE MachineNames DEF Machinery, Frame
<1>1. CASE GameAsks \/ GameLeaves
  BY <1>1 DEF GameAsks, GameLeaves, FromPlay
<1>2. CASE GameEnters
  <2>1. nxt'["body"] \in {"bodyIdle", "bodyReady", "bodyStop", "bodyStart"}
    BY <1>2, ForcedNames DEF GameEnters, Flow
  <2> QED
    BY <2>1 DEF FromPlay, InPlay, GoesReady
<1>3. CASE BodyAsks
  <2>1. CASE nxt'["body"] = None
    BY <2>1, StatesAreNames DEF FromPlay, InPlay
  <2>2. CASE \E e \in DOMAIN Table["body"][cur["body"]] :
               nxt'["body"] = Table["body"][cur["body"]][e]
    <3>1. cur["body"] \in GoesReady \cup InPlay
      BY <2>2, BodyClasses DEF InPlay, GoesReady
    <3>2. cur["body"] \in GoesReady => nxt'["body"] \in GoesReady
      BY <2>2, BodyClasses
    <3> QED
      BY <1>3, <3>1, <3>2 DEF FromPlay, InPlay, BodyAsks
  <2> QED
    BY <1>3, <2>1, <2>2 DEF BodyAsks
<1>4. CASE BodyLeaves
  BY <1>4 DEF BodyLeaves, FromPlay
<1>5. CASE BodyEnters
  BY <1>5, StatesAreNames DEF BodyEnters, FromPlay, InPlay
<1>6. CASE \E e \in {None, "done", "divedone"} : MotionAsks(e)
  BY <1>6 DEF MotionAsks, FromPlay
<1>7. CASE MotionLeaves \/ MotionEnters
  BY <1>7 DEF MotionLeaves, MotionEnters, FromPlay
<1>8. CASE UNCHANGED machines
  BY <1>8 DEF machines, FromPlay
<1> QED
  BY <1>1, <1>2, <1>3, <1>4, <1>5, <1>6, <1>7, <1>8, MachineSteps

\* A state in play that no game forces is entered from a state in play.
THEOREM FromPlayAlways == Spec => []FromPlay
<1>1. Init => FromPlay
  BY DEF Init, FromPlay, InPlay
<1> QED
  BY <1>1, FromPlayStep, MachineryAlways, PTL DEF Spec

\* An event is queued that takes the motion machine out of divewait.
LeavesDivewait == {"dive", "walk", "standup", "sit"} \cap Range(queue) # {}

\* The body machine waits with it, or the event that ends it is on its way.
DivewaitKept ==
  \/ turn = "game" /\ cur["body"] \in {"bodyAnticipate", "bodyStop"}
  \/ /\ turn = "body" /\ cur["body"] = "bodyAnticipate"
     /\ nxt["body"] \in {None, "bodyIdle", "bodyReady", "bodyStop"} \/ LeavesDivewait
  \/ turn = "body" /\ cur["body"] = "bodyStop" /\ (step = "entry" => LeavesDivewait)
  \/ turn = "motion" /\ (cur["body"] \in {"bodyAnticipate", "bodyStop"} \/ nxt["motion"] # None)
  \/ turn = "motion" /\ LeavesDivewait

Diving ==
  /\ "diveready" \in Range(queue) =>
       turn = "motion" /\ nxt["motion"] = None /\ cur["body"] = "bodyAnticipate"
  /\ nxt["motion"] = "divewait" =>
       /\ turn = "motion" /\ cur["body"] = "bodyAnticipate"
       /\ cur["motion"] # "divewait"
  /\ cur["motion"] = "divewait" => DivewaitKept

LEMMA GameDiving ==
  ASSUME Machinery, Obeys, Diving, queue' = queue, GameAsks \/ GameLeaves \/ GameEnters, Obeys'
  PROVE  Diving'
<1> USE MachineNames DEF Machinery, Frame, Flow
<1>1. "diveready" \notin Range(queue) /\ nxt'["motion"] # "divewait"
  BY DEF Diving, GameAsks, GameLeaves, GameEnters, None
<1>2. ASSUME cur'["motion"] = "divewait" PROVE DivewaitKept'
  <2>1. cur["body"] \in {"bodyAnticipate", "bodyStop"} /\ cur'["body"] = cur["body"]
    BY <1>2 DEF Diving, DivewaitKept, GameAsks, GameLeaves, GameEnters
  <2>2. turn = "game" /\ nxt["body"] = None
    BY <2>1 DEF GameAsks, GameLeaves, GameEnters
  <2>3. CASE GameLeaves
    <3>1. turn' = "game" /\ cur'["body"] \in {"bodyAnticipate", "bodyStop"}
      BY <2>1, <2>3 DEF GameLeaves
    <3> QED
      BY <3>1 DEF DivewaitKept
  <2>4. CASE GameAsks
    <3>1. /\ turn' \in {"game", "body"} /\ (turn' = "body" => step' = "update")
          /\ nxt'["body"] = None /\ cur'["body"] \in {"bodyAnticipate", "bodyStop"}
      BY <2>1, <2>2, <2>4 DEF GameAsks
    <3> QED
      BY <3>1 DEF DivewaitKept
  <2>5. CASE GameEnters
    <3>1. nxt'["body"] \in {"bodyIdle", "bodyReady", "bodyStop", "bodyStart"}
      BY <2>5, ForcedNames DEF GameEnters
    <3>2. cur["body"] = "bodyAnticipate" => nxt'["body"] # "bodyStart"
      BY <2>1, BodyStatesAre DEF Obeys, InPlay, GoesReady
    <3>3. turn' = "body" /\ step' = "update" /\ cur'["body"] \in {"bodyAnticipate", "bodyStop"}
      BY <2>1, <2>5 DEF GameEnters
    <3>4. cur'["body"] = "bodyAnticipate" => nxt'["body"] \in {"bodyIdle", "bodyReady", "bodyStop"}
      BY <2>1, <3>1, <3>2
    <3> QED
      BY <3>3, <3>4 DEF DivewaitKept
  <2> QED
    BY <2>3, <2>4, <2>5
<1> QED
  BY <1>1, <1>2 DEF Diving

LEMMA BodyDiving ==
  ASSUME Machinery, FromPlay, Diving, Body PROVE Diving'
<1> USE MachineNames DEF Machinery, Frame, Flow
<1>1. turn = "body" /\ "diveready" \notin Range(queue) /\ nxt["motion"] # "divewait"
  BY BodyTurn DEF Diving
<1>2. nxt'["motion"] # "divewait" /\ cur'["motion"] = cur["motion"]
  BY <1>1, BodyUpdating, BodyExiting, BodyEntering DEF Body, BodyAsks, BodyLeaves, BodyEnters
<1>3. ASSUME "diveready" \in Range(queue')
      PROVE  turn' = "motion" /\ nxt'["motion"] = None /\ cur'["body"] = "bodyAnticipate"
  <2>1. BodyEnters /\ cur'["body"] = "bodyAnticipate"
    BY <1>1, <1>3, NewEvents
  <2>2. cur["body"] # "bodyIdle"
    BY <2>1, BodyStatesAre DEF BodyEnters, FromPlay, InPlay, GoesReady
  <2> QED
    BY <2>1, <2>2 DEF BodyEnters
<1>4. ASSUME cur["motion"] = "divewait" PROVE DivewaitKept'
  <2>1. \/ cur["body"] = "bodyAnticipate"
        \/ cur["body"] = "bodyStop" /\ (step = "entry" => LeavesDivewait)
    BY <1>1, <1>4 DEF Diving, DivewaitKept
  <2>2. LeavesDivewait => LeavesDivewait'
    BY BodyAdds DEF LeavesDivewait
  <2>3. CASE BodyUpdate
    <3>1. BodyAsks /\ cur' = cur /\ nxt["body"] = None
      BY <2>3, BodyUpdating DEF BodyAsks
    <3>2. CASE cur["body"] = "bodyStop"
      <4>1. DOMAIN Table["body"][cur["body"]] = {}
        BY <3>2, BodyClasses
      <4> QED
        BY <3>1, <3>2, <4>1 DEF BodyAsks, DivewaitKept
    <3>3. CASE cur["body"] = "bodyAnticipate"
      <4>1. BodyAnticipate
        BY <2>3, <3>3 DEF BodyUpdate, BodyIdle, BodyStart, BodyStop, BodyReady, BodyReadyMove,
           BodySteer, BodyKick, BodyWalkKick, BodyDive, Updates, Steering
      <4>2. CASE Returns("body", None)
        <5>1. None \notin DOMAIN Table["body"][cur["body"]]
          BY BodyRows
        <5>2. nxt'["body"] = None
          BY <4>2, <5>1, Returning DEF Returns
        <5> QED
          BY <3>1, <3>3, <5>2 DEF BodyAsks, DivewaitKept
      <4>3. CASE queue' = Post(queue, "dive") \/ queue' = Post(queue, "walk")
        <5>1. LeavesDivewait'
          BY <4>3, Posting DEF LeavesDivewait, Posted
        <5> QED
          BY <3>1, <3>3, <5>1 DEF BodyAsks, DivewaitKept
      <4> QED
        BY <4>1, <4>2, <4>3 DEF BodyAnticipate
    <3> QED
      BY <2>1, <3>2, <3>3
  <2>4. CASE BodyExit
    <3>1. BodyLeaves /\ cur' = cur /\ nxt["body"] # None /\ nxt'["body"] = nxt["body"]
      BY <2>4, BodyExiting DEF BodyLeaves
    <3>2. cur["body"] = "bodyStop" => LeavesDivewait'
      BY <2>4, Posting DEF BodyExit, LeavesDivewait, Posted
    <3> QED
      BY <1>1, <1>4, <2>1, <2>2, <3>1, <3>2 DEF BodyLeaves, DivewaitKept, Diving
  <2>5. CASE BodyEntry
    <3>1. BodyEnters /\ cur'["body"] = nxt["body"] /\ nxt["body"] # None
      BY <2>5, BodyEntering DEF BodyEnters
    <3>2. nxt["body"] \in {"bodyIdle", "bodyReady"} => LeavesDivewait'
      BY <2>5, Posting DEF BodyEntry, Posts, Posted, LeavesDivewait, None
    <3> QED
      BY <1>1, <1>4, <2>1, <2>2, <3>1, <3>2 DEF BodyEnters, DivewaitKept, Diving
  <2> QED
    BY <2>3, <2>4, <2>5 DEF Body
<1> QED
  BY <1>1, <1>2, <1>3, <1>4 DEF Diving

LEMMA MotionDiving ==
  ASSUME Machinery, Diving,
         \/ (\E e \in {None, "done", "divedone"} : MotionAsks(e)) /\ Range(queue') = {}
         \/ (MotionLeaves \/ MotionEnters) /\ queue' = queue
  PROVE  Diving'
<1> USE MachineNames DEF Machinery, Frame, Flow
<1>1. CASE (\E e \in {None, "done", "divedone"} : MotionAsks(e)) /\ Range(queue') = {}
  <2>1. PICK e \in {None, "done", "divedone"} : MotionAsks(e)
    BY <1>1
  <2>2. ASSUME nxt'["motion"] = "divewait"
        PROVE  "diveready" \in Range(queue) /\ cur["motion"] # "divewait" /\ turn' = "motion"
    BY <2>1, <2>2, MotionRows DEF MotionAsks, None
  <2>3. ASSUME cur["motion"] = "divewait" PROVE DivewaitKept'
    <3>1. CASE nxt'["motion"] = None
      <4>1. /\ turn' = "game" /\ cur' = cur /\ nxt["motion"] = None /\ turn = "motion"
            /\ Range(queue) \cap DOMAIN Table["motion"]["divewait"] = {}
        BY <2>1, <2>3, <3>1, MotionRows, MotionStates DEF MotionAsks, None
      <4>2. {"dive", "walk", "standup", "sit"} \subseteq DOMAIN Table["motion"]["divewait"]
        BY DEF Table, MotionTable
      <4>3. ~ LeavesDivewait
        BY <4>1, <4>2 DEF LeavesDivewait
      <4> QED
        BY <2>3, <4>1, <4>3 DEF Diving, DivewaitKept
    <3>2. CASE nxt'["motion"] # None
      BY <2>1, <3>2 DEF MotionAsks, DivewaitKept
    <3> QED
      BY <3>1, <3>2
  <2> QED
    BY <1>1, <2>1, <2>2, <2>3 DEF MotionAsks, Diving
<1>2. CASE MotionLeaves /\ queue' = queue
  BY <1>2 DEF MotionLeaves, Diving, DivewaitKept
<1>3. CASE MotionEnters /\ queue' = queue
  <2>1. turn' = "game" /\ "diveready" \notin Range(queue)
    BY <1>3 DEF MotionEnters, Diving
  <2> QED
    BY <1>3, <2>1 DEF MotionEnters, Diving, DivewaitKept, None
<1> QED
  BY <1>1, <1>2, <1>3

LEMMA DivingStep ==
  ASSUME Machinery, Obeys, FromPlay, Diving, [Next]_vars PROVE Diving'
<1>1. CASE UNCHANGED machines
  BY <1>1 DEF machines, Diving, DivewaitKept, LeavesDivewait
<1> QED
  BY <1>1, StepKinds, ObeysStep, GameDiving, BodyDiving, MotionDiving

\* The goalie's motion machine is in divewait only while the body machine is
\* in bodyAnticipate or has stopped, or the event that ends it is queued.
THEOREM DivingAlways == Spec => []Diving
<1>1. Init => Diving
  BY DEF Init, Diving, Range, None
<1> QED
  BY <1>1, DivingStep, MachineryAlways, ObeysAlways, FromPlayAlways, PTL DEF Spec

-----------------------------------------------------------------------------
(* Sitting down and getting up, when the game is not Hasty.                *)

\* "sit" and the states it leads to belong to bodyIdle; whoever leaves bodyIdle
\* has the motion machine forced to stance.  A change of the game finds the
\* queue empty.
Resting ==
  /\ turn = "game" /\ step # "update" => Range(queue) = {}
  /\ "sit" \in Range(queue) \/ nxt["motion"] = "sit" =>
       cur["body"] = "bodyIdle" /\ nxt["body"] \in {None, "bodyIdle"}
  /\ cur["motion"] \in {"sit", "relax"} =>
       cur["body"] = "bodyIdle" \/ (turn = "motion" /\ nxt["motion"] = "stance")
  /\ nxt["motion"] = "relax" => cur["motion"] = "sit"

LEMMA GameResting ==
  ASSUME ~Hasty, Machinery, Resting, queue' = queue, GameAsks \/ GameLeaves \/ GameEnters
  PROVE  Resting'
<1> USE MachineNames DEF Machinery, Frame, Flow
<1>1. CASE GameAsks
  <2>1. step' # "update" => Range(queue) = {}
    BY <1>1, EmptyRange DEF GameAsks
  <2> QED
    BY <1>1, <2>1 DEF GameAsks, Resting
<1>2. CASE GameLeaves
  <2>1. Range(queue) = {} \/ step = "update"
    BY <1>2 DEF GameLeaves, Resting
  <2> QED
    BY <1>2, <2>1 DEF GameLeaves, Resting
<1>3. CASE GameEnters
  <2>1. Range(queue) = {} /\ nxt'["motion"] = None
    BY <1>3 DEF GameEnters, Resting
  <2> QED
    BY <1>3, <2>1 DEF GameEnters, Resting, None
<1> QED
  BY <1>1, <1>2, <1>3

LEMMA BodyResting ==
  ASSUME Machinery, Resting, Body PROVE Resting'
<1> USE MachineNames DEF Machinery, Frame, Flow
<1>1. turn = "body" /\ turn' # "game" /\ cur'["motion"] = cur["motion"]
  BY BodyUpdating, BodyExiting, BodyEntering DEF Body, BodyAsks, BodyLeaves, BodyEnters
<1>2. nxt'["motion"] \notin {"sit", "relax"}
  <2>1. nxt["motion"] \notin {"sit", "relax"}
    BY <1>1 DEF None
  <2> QED
    BY <2>1, BodyUpdating, BodyExiting, BodyEntering DEF Body, BodyAsks, BodyLeaves, BodyEnters
<1>3. ASSUME "sit" \in Range(queue')
      PROVE  cur'["body"] = "bodyIdle" /\ nxt'["body"] \in {None, "bodyIdle"}
  <2>1. CASE "sit" \notin Range(queue)
    BY <1>3, <2>1, NewEvents
  <2>2. CASE "sit" \in Range(queue)
    <3>1. cur["body"] = "bodyIdle" /\ nxt["body"] \in {None, "bodyIdle"}
      BY <2>2 DEF Resting
    <3>2. CASE BodyAsks
      <4>1. DOMAIN Table["body"]["bodyIdle"] = {}
        BY <3>1, BodyClasses
      <4> QED
        BY <3>1, <3>2, <4>1 DEF BodyAsks
    <3>3. CASE BodyLeaves \/ BodyEnters
      BY <3>1, <3>3 DEF BodyLeaves, BodyEnters
    <3> QED
      BY <3>2, <3>3, BodyUpdating, BodyExiting, BodyEntering DEF Body
  <2> QED
    BY <2>1, <2>2
<1>4. ASSUME cur["motion"] \in {"sit", "relax"}
      PROVE  cur'["body"] = "bodyIdle" \/ (turn' = "motion" /\ nxt'["motion"] = "stance")
  <2>1. cur["body"] = "bodyIdle"
    BY <1>1, <1>4 DEF Resting
  <2> QED
    BY <1>1, <2>1, BodyUpdating, BodyExiting, BodyEntering
       DEF Body, BodyAsks, BodyLeaves, BodyEnters
<1> QED
  BY <1>1, <1>2, <1>3, <1>4 DEF Resting

LEMMA MotionResting ==
  ASSUME Machinery, Resting,
         \/ (\E e \in {None, "done", "divedone"} : MotionAsks(e)) /\ Range(queue') = {}
         \/ (MotionLeaves \/ MotionEnters) /\ queue' = queue
  PROVE  Resting'
<1> USE MachineNames DEF Machinery, Frame, Flow
<1>1. CASE (\E e \in {None, "done", "divedone"} : MotionAsks(e)) /\ Range(queue') = {}
  <2>1. PICK e \in {None, "done", "divedone"} : MotionAsks(e)
    BY <1>1
  <2>2. ASSUME nxt'["motion"] = "sit" PROVE "sit" \in Range(queue)
    BY <2>1, <2>2, MotionRows DEF MotionAsks, None
  <2>3. ASSUME nxt'["motion"] = "relax" PROVE cur["motion"] = "sit"
    BY <2>1, <2>3, MotionRows DEF MotionAsks, None
  <2> QED
    BY <1>1, <2>1, <2>2, <2>3 DEF MotionAsks, Resting, None
<1>2. CASE MotionLeaves /\ queue' = queue
  BY <1>2 DEF MotionLeaves, Resting
<1>3. CASE MotionEnters /\ queue' = queue
  BY <1>3 DEF MotionEnters, Resting, None
<1> QED
  BY <1>1, <1>2, <1>3

LEMMA RestingStep ==
  ASSUME ~Hasty, Machinery, Resting, [Next]_vars PROVE Resting'
<1>1. CASE UNCHANGED machines
  BY <1>1 DEF machines, Resting
<1> QED
  BY <1>1, StepKinds, GameResting, BodyResting, MotionResting

LEMMA RestingInit == Init => Resting
  BY DEF Init, Resting, None, Range

\* Without haste a robot rests only while the body machine is idle.
THEOREM RestingAlways == ASSUME ~Hasty PROVE Spec => []Resting
<1>1. Resting /\ Machinery /\ [Next]_vars => Resting'
  BY RestingStep
<1> QED
  BY <1>1, RestingInit, MachineryAlways, PTL DEF Spec

\* No velocity is in force in the states that do not walk, but for a walk kick's,
\* and a robot that sits has none to hand over; bodyIdle leads to no walk kick.
Lying ==
  /\ cur["motion"] = "sit" => Still
  /\ cur["motion"] \in {"relax", "stance", "standstill", "falling", "standup"} => vel = 0 \/ walk.kick
  /\ nxt["motion"] = "standup" => cur["motion"] \in {"falling", "standup"}
  /\ cur["body"] = "bodyIdle" => nxt["body"] # "bodyWalkKick"

\* Starting, stopping and steering leave the request for a walk kick alone.
LEMMA KickKept ==
  ASSUME NEW w \in WalkRecord, NEW v \in Velocity
  PROVE  Started(w).kick = w.kick /\ Stopped(w).kick = w.kick /\ Toward(w, v).kick = w.kick
  BY DEF WalkRecord, Started, Stopped, Toward

LEMMA BodyLying ==
  ASSUME Machinery, Parts, Resting, Lying, Body PROVE Lying'
<1> USE MachineNames DEF Machinery, Frame, Flow
<1>1. turn = "body" /\ cur'["motion"] = cur["motion"] /\ nxt'["motion"] # "standup"
  <2>1. nxt["motion"] # "standup" \/ turn # "body"
    BY DEF None
  <2> QED
    BY <2>1, BodyUpdating, BodyExiting, BodyEntering DEF Body, BodyAsks, BodyLeaves, BodyEnters
<1>6. cur'["body"] = "bodyIdle" => nxt'["body"] # "bodyWalkKick"
  <2>1. CASE BodyAsks
    BY <2>1, BodyClasses DEF BodyAsks, None
  <2>2. CASE BodyLeaves
    BY <2>2 DEF BodyLeaves, Lying
  <2>3. CASE BodyEnters
    BY <2>3 DEF BodyEnters, None
  <2> QED
    BY <2>1, <2>2, <2>3, BodyUpdating, BodyExiting, BodyEntering DEF Body
<1>2. ~ (BodyEntry /\ nxt["body"] = "bodyWalkKick") => vel' = vel
  BY DEF Body, BodyUpdate, BodyIdle, BodyStart, BodyStop, BodyReady, BodyReadyMove, BodySteer,
     BodyKick, BodyWalkKick, BodyAnticipate, BodyDive, Goes, BodyExit, BodyEntry, legs
<1>4. walk.kick => walk'.kick
  <2>1. \/ walk' \in {walk, Started(walk), Stopped(walk), [walk EXCEPT !.kick = TRUE]}
        \/ \E v \in Velocity, w \in {walk, Started(walk)} :
             walk' \in {Toward(w, v), Started(Toward(w, v)), Stopped(Toward(w, v))}
    <3>1. 0 \in Velocity
      BY DEF Velocity
    <3>2. CASE BodyIdle \/ BodyStart \/ BodyStop \/ BodyReady
      BY <3>2 DEF BodyIdle, BodyStart, BodyStop, BodyReady, Goes, legs
    <3>3. CASE BodyReadyMove
      BY <3>1, <3>3 DEF BodyReadyMove, Goes
    <3>4. CASE BodySteer
      BY <3>4 DEF BodySteer, Goes
    <3>5. CASE BodyKick
      <4>1. walk' \in {walk, Toward(walk, 0), Started(walk), Started(Toward(walk, 0))}
        BY <3>5 DEF BodyKick
      <4> QED
        BY <3>1, <4>1
    <3>6. CASE BodyWalkKick \/ BodyAnticipate \/ BodyDive \/ BodyExit
      BY <3>6 DEF BodyWalkKick, BodyAnticipate, BodyDive, BodyExit, Goes
    <3>7. CASE BodyEntry
      <4>1. walk' \in {walk, Stopped(walk), Stopped(Toward(walk, 0)), [walk EXCEPT !.kick = TRUE]}
        BY <3>7 DEF BodyEntry, DoWalkKick
      <4> QED
        BY <3>1, <4>1
    <3> QED
      BY <3>2, <3>3, <3>4, <3>5, <3>6, <3>7 DEF Body, BodyUpdate
  <2>2. walk \in WalkRecord /\ Started(walk) \in WalkRecord
    BY WalkOps DEF Parts, Velocity
  <2>3. [walk EXCEPT !.kick = TRUE].kick
    BY <2>2 DEF WalkRecord
  <2>4. ASSUME NEW v \in Velocity, NEW w \in {walk, Started(walk)},
               walk' \in {Toward(w, v), Started(Toward(w, v)), Stopped(Toward(w, v))}
        PROVE  walk.kick => walk'.kick
    <3>1. w \in WalkRecord /\ Toward(w, v) \in WalkRecord
      BY <2>2, WalkOps
    <3>2. w.kick = walk.kick /\ Toward(w, v).kick = w.kick
      BY <2>2, <3>1, KickKept
    <3> QED
      BY <2>4, <3>1, <3>2, KickKept
  <2>5. Started(walk).kick = walk.kick /\ Stopped(walk).kick = walk.kick
    BY <2>2, KickKept DEF Velocity
  <2> QED
    BY <2>1, <2>3, <2>4, <2>5
<1>5. BodyEntry /\ nxt["body"] = "bodyWalkKick" => walk'.kick
  BY DEF BodyEntry, DoWalkKick, Parts, WalkRecord
<1>3. ASSUME cur["motion"] = "sit" PROVE Still'
  <2>1. cur["body"] = "bodyIdle" /\ Still
    BY <1>1, <1>3 DEF Resting, Lying
  <2>2. CASE BodyUpdate
    <3>1. BodyIdle
      BY <2>1, <2>2 DEF BodyUpdate, BodyStart, BodyStop, BodyReady, BodyReadyMove, BodySteer,
         BodyKick, BodyWalkKick, BodyAnticipate, BodyDive, Updates, Steering
    <3> QED
      BY <2>1, <3>1 DEF BodyIdle, legs, Still
  <2>3. CASE BodyExit
    BY <2>1, <2>3 DEF BodyExit, Still
  <2>4. CASE BodyEntry
    <3>0. vel' = vel
      BY <1>2, <2>1 DEF Lying
    <3>1. walk' \in {walk, Stopped(walk), Stopped(Toward(walk, 0)), [walk EXCEPT !.kick = TRUE]}
      BY <2>4 DEF BodyEntry, DoWalkKick
    <3>2. /\ Stopped(walk).cmd = walk.cmd /\ Stopped(walk).sent = walk.sent
          /\ Toward(walk, 0) \in WalkRecord
          /\ Toward(walk, 0).cmd = 0 /\ Toward(walk, 0).sent = walk.sent
      BY WalkOps DEF Parts, Velocity
    <3>3. Stopped(Toward(walk, 0)).cmd = 0 /\ Stopped(Toward(walk, 0)).sent = walk.sent
      BY <3>2, StoppingOps
    <3>4. [walk EXCEPT !.kick = TRUE].cmd = walk.cmd /\ [walk EXCEPT !.kick = TRUE].sent = walk.sent
      <4>1. TRUE \in BOOLEAN
        OBVIOUS
      <4> QED
        BY <4>1, KickCell DEF Parts
    <3> QED
      BY <2>1, <3>0, <3>1, <3>2, <3>3, <3>4 DEF Still
  <2> QED
    BY <2>2, <2>3, <2>4 DEF Body
<1> QED
  BY <1>1, <1>2, <1>3, <1>4, <1>5, <1>6 DEF Lying

LEMMA GameLying ==
  ASSUME Machinery, Parts, Lying, Game PROVE Lying'
<1>1. cur'["motion"] = cur["motion"] /\ nxt'["motion"] = nxt["motion"] /\ vel' = vel
  <2>1. vel' = vel
    BY DEF Game, GameUpdate, GameExit, GameEntry
  <2> QED
    BY <2>1, GameUpdating, GameExiting, GameEntering
       DEF Game, GameAsks, GameLeaves, GameEnters
<1>2. walk'.cmd = walk.cmd /\ walk'.sent = walk.sent /\ walk'.kick = walk.kick
  <2>1. walk' \in {walk, Started(walk), Stopped(walk)}
    BY DEF Game, GameUpdate, GameExit, GameEntry
  <2> QED
    BY <2>1, StoppingOps, KickKept DEF Parts, Velocity
<1>3. cur'["body"] = "bodyIdle" => nxt'["body"] # "bodyWalkKick"
  <2>1. CASE GameAsks \/ GameLeaves
    BY <2>1 DEF GameAsks, GameLeaves, Lying
  <2>2. CASE GameEnters
    <3>1. nxt["game"] \in States("game")
      BY <2>2, MachineNames DEF GameEnters, Machinery, Frame, Flow
    <3> QED
      BY <2>2, <3>1, ForcedNames DEF GameEnters
  <2> QED
    BY <2>1, <2>2, GameUpdating, GameExiting, GameEntering DEF Game
<1> QED
  BY <1>1, <1>2, <1>3 DEF Lying, Still

LEMMA MotionLying ==
  ASSUME Machinery, Parts, Resting, Lying, Motion PROVE Lying'
<1> USE MachineNames DEF Machinery, Frame, Flow
<1>0. cur'["body"] = "bodyIdle" => nxt'["body"] # "bodyWalkKick"
  <2>1. cur'["body"] = cur["body"] /\ nxt'["body"] = nxt["body"]
    BY MotionUpdating, MotionExiting, MotionEntering DEF Motion, MotionAsks, MotionLeaves, MotionEnters
  <2> QED
    BY <2>1 DEF Lying
<1>1. CASE MotionUpdate
  <2>1. PICK e \in {None, "done", "divedone"} : MotionAsks(e)
    BY <1>1, MotionUpdating
  <2>2. cur' = cur /\ (nxt'["motion"] = "standup" => cur["motion"] \in {"falling", "standup"})
    BY <2>1, MotionRows DEF MotionAsks, None
  <2>3. CASE cur["motion"] = "sit"
    <3>1. WalkUpdate \/ UNCHANGED legs
      BY <1>1, <2>3 DEF MotionUpdate, MotionHold, MotionSit, MotionStance, MotionWalk, MotionDive,
         MotionFalling, MotionStandup, MotionKick, Updates
    <3>2. Still'
      BY <2>3, <3>1, WalkUpdateStops DEF Lying, Still, legs
    <3> QED
      BY <1>0, <2>2, <2>3, <3>2 DEF Lying
  <2>4. CASE cur["motion"] = "stance"
    <3>1. (vel' = vel /\ walk' = walk) \/ vel' = 0
      BY <1>1, <2>4 DEF MotionUpdate, MotionHold, MotionSit, MotionStance, MotionWalk, MotionDive,
         MotionFalling, MotionStandup, MotionKick, Updates, legs
    <3> QED
      BY <1>0, <2>2, <2>4, <3>1 DEF Lying
  <2>5. CASE cur["motion"] \in {"relax", "standstill", "falling", "standup"}
    <3>1. vel' = vel /\ walk' = walk
      BY <1>1, <2>5 DEF MotionUpdate, MotionHold, MotionSit, MotionStance, MotionWalk, MotionDive,
         MotionFalling, MotionStandup, MotionKick, Updates, legs
    <3> QED
      BY <1>0, <2>2, <2>5, <3>1 DEF Lying
  <2> QED
    BY <1>0, <2>2, <2>3, <2>4, <2>5 DEF Lying
<1>2. CASE MotionExit
  <2>1. cur' = cur /\ nxt' = nxt /\ vel' = vel
    BY <1>2, MotionExiting DEF MotionLeaves, MotionExit
  <2>2. walk'.cmd = walk.cmd /\ walk'.sent = walk.sent /\ walk'.kick = walk.kick
    BY <1>2, StoppingOps, KickKept DEF MotionExit, Parts, Velocity
  <2> QED
    BY <2>1, <2>2 DEF Lying, Still
<1>3. CASE MotionEntry
  <2>1. /\ cur'["motion"] = nxt["motion"] /\ nxt'["motion"] = None
    BY <1>3, MotionEntering DEF MotionEnters
  <2>2. CASE nxt["motion"] = "sit"
    <3>1. walk' = Reset(Stopped(walk)) /\ vel' = 0
      BY <1>3, <2>2 DEF MotionEntry, WalkAtEntry
    <3>2. Stopped(walk) \in WalkRecord
      BY WalkOps DEF Parts, Velocity
    <3>3. walk'.cmd = 0 /\ walk'.sent = 0
      BY <3>1, <3>2, WalkOps DEF Velocity
    <3> QED
      BY <1>0, <2>1, <2>2, <3>1, <3>3 DEF Lying, Still, None
  <2>3. CASE nxt["motion"] # "sit"
    <3>1. nxt["motion"] \in {"relax", "stance", "standstill", "falling", "standup"}
            => vel' = 0 \/ walk'.kick
      BY <1>3 DEF MotionEntry, WalkAtEntry, Lying, Resting, Still
    <3> QED
      BY <1>0, <2>1, <2>3, <3>1 DEF Lying, None
  <2> QED
    BY <2>2, <2>3
<1> QED
  BY <1>1, <1>2, <1>3 DEF Motion

LEMMA LyingStep ==
  ASSUME Machinery, Parts, Resting, Lying, [Next]_vars PROVE Lying'
<1>1. CASE WalkKickOver \/ UNCHANGED vars
  BY <1>1 DEF WalkKickOver, vars, robot, machines, legs, Lying, Still
<1> QED
  BY <1>1, GameLying, BodyLying, MotionLying DEF Next

\* The invariant behind StillWhenDown: a robot that sits has no velocity to hand
\* over either, so none comes back into force while its walk ends.
THEOREM LyingAlways == ASSUME ~Hasty PROVE Spec => []Lying
<1>1. Init => Lying
  BY DEF Init, Lying, None
<1> QED
  BY <1>1, LyingStep, RestingAlways, MachineryAlways, PartsAlways, PTL DEF Spec

\* Nothing drives the gait engine of a robot that sits, rests or gets up, if the
\* game changes only when the last change has been heard: RobotFsm_match.
THEOREM StillWhenDownAlways == ASSUME ~Hasty PROVE Spec => []StillWhenDown
<1>1. Lying => StillWhenDown
  BY DEF Lying, StillWhenDown
<1> QED
  BY <1>1, LyingAlways, PTL

\* With the same proviso a robot in play is on its feet, and a goalie that
\* steers is not left in divewait (for which the proviso is not needed).
THEOREM OnItsFeetAlways == ASSUME ~Hasty PROVE Spec => []OnItsFeet
<1>1. Machinery /\ Obeys /\ Diving /\ Resting => OnItsFeet
  <2> SUFFICES ASSUME Machinery, Obeys, Diving, Resting, TickStart PROVE OnItsFeet
    BY DEF OnItsFeet
  <2>1. ASSUME cur["game"] = "gamePlaying" PROVE cur["motion"] \notin {"sit", "relax"}
    <3>1. cur["body"] \in InPlay
      BY <2>1 DEF Obeys, Agrees, TickStart, IdleGames
    <3> QED
      BY <3>1 DEF Resting, TickStart, InPlay
  <2>2. ASSUME cur["body"] \in Steering PROVE cur["motion"] # "divewait"
    BY <2>2 DEF Diving, DivewaitKept, TickStart, Steering
  <2> QED
    BY <2>1, <2>2 DEF OnItsFeet
<1> QED
  BY <1>1, MachineryAlways, ObeysAlways, DivingAlways, RestingAlways, PTL

-----------------------------------------------------------------------------
(* The kick of a player is never dropped, when the game is not Hasty.      *)

LEMMA RoleKept == ASSUME [Next]_vars PROVE role' = role
<1>1. CASE Game
  BY <1>1 DEF Game, GameUpdate, GameExit, GameEntry
<1>2. CASE Body
  BY <1>2 DEF Body, BodyUpdate, BodyIdle, BodyStart, BodyStop, BodyReady, BodyReadyMove,
     BodySteer, BodyKick, BodyWalkKick, BodyAnticipate, BodyDive, Goes, BodyExit, BodyEntry
<1>3. CASE Motion
  BY <1>3 DEF Motion, MotionUpdate, MotionHold, MotionSit, MotionStance, MotionWalk, MotionDive,
     MotionFalling, MotionStandup, MotionKick, MotionExit, MotionEntry
<1>4. CASE WalkKickOver \/ UNCHANGED vars
  BY <1>4 DEF WalkKickOver, vars
<1> QED
  BY <1>1, <1>2, <1>3, <1>4 DEF Next

GoalieStates == {"bodyPositionGoalie", "bodyAnticipate", "bodyChase", "bodyDive"}
PlayerMotions == {"relax", "sit", "stance", "walk", "standstill", "kick"}

\* The events that lead to the goalie's states.
LEMMA GoalieRows ==
  ASSUME NEW s \in States("body") \ GoalieStates, NEW e \in DOMAIN Table["body"][s],
         Table["body"][s][e] \in GoalieStates
  PROVE  e \in {"goalie", "ballgoalie", "fall"}
<1>1. Table["body"] = BodyTable
  BY DEF Table
<1>2. e \in DOMAIN BodyTable[s] /\ BodyTable[s][e] \in GoalieStates
  BY <1>1
<1> QED
  BY <1>1, <1>2, BodyStatesAre, SMTT(60) DEF BodyTable, GoalieStates, Never

LEMMA PlayerRows ==
  ASSUME NEW s \in PlayerMotions, NEW e \in DOMAIN Table["motion"][s],
         e \in (Posted \ {"dive", "diveready"}) \cup {None, "done", "divedone"}
  PROVE  Table["motion"][s][e] \in PlayerMotions \ {"standstill"}
  BY DEF Table, MotionTable, PlayerMotions, Posted, None

LEMMA PlayerMoves ==
  ASSUME Machinery, role = "player", BodyUpdate, cur["body"] \notin GoalieStates
  PROVE  nxt'["body"] \notin GoalieStates
<1> USE MachineNames DEF Machinery, Frame
<1>1. ASSUME NEW e, Returns("body", e), e \notin {"goalie", "ballgoalie", "fall"}
      PROVE  nxt'["body"] \notin GoalieStates
  <2>1. CASE nxt'["body"] = None
    BY <2>1 DEF GoalieStates, None
  <2>2. CASE e \in DOMAIN Table["body"][cur["body"]] /\ nxt'["body"] = Table["body"][cur["body"]][e]
    BY <1>1, <2>2, GoalieRows
  <2> QED
    BY <1>1, <2>1, <2>2, Returning DEF Returns
<1>2. CASE BodyIdle \/ BodyStart \/ BodyReady \/ BodyReadyMove \/ BodyWalkKick \/ BodyKick
  <2>1. \E e \in {None, "done", "timeout", "reposition"} : Returns("body", e)
    BY <1>2 DEF BodyIdle, BodyStart, BodyReady, BodyReadyMove, BodyWalkKick, BodyKick, Goes
  <2> QED
    BY <1>1, <2>1 DEF None
<1>3. CASE BodyStop
  <2>1. DOMAIN Table["body"][cur["body"]] = {}
    BY <1>3, BodyClasses DEF BodyStop, Updates
  <2>2. BodyAsks
    BY BodyUpdating
  <2> QED
    BY <2>1, <2>2 DEF BodyAsks, GoalieStates, None
<1>4. CASE BodySteer
  <2>0. PICK v \in Velocity : \E e \in SteerEvents(cur["body"], v) : Returns("body", e)
    BY <1>4 DEF BodySteer, Goes
  <2>1. PICK e \in SteerEvents(cur["body"], v) : Returns("body", e)
    BY <2>0
  <2>2. cur["body"] \in {"bodyPosition", "bodySearch", "bodyGotoCenter", "bodyApproach"}
    BY <1>4 DEF BodySteer, Updates, Steering, GoalieStates
  <2>3. e \notin {"goalie", "ballgoalie", "fall"}
    BY <2>1, <2>2 DEF SteerEvents, PositionEvents, SearchEvents, GotoCenterEvents,
       ApproachEvents, None
  <2> QED
    BY <1>1, <2>1, <2>3
<1>5. CASE BodyAnticipate \/ BodyDive
  BY <1>5 DEF BodyAnticipate, BodyDive, Updates, GoalieStates
<1> QED
  BY <1>2, <1>3, <1>4, <1>5 DEF BodyUpdate

\* The machines stay out of the goalie's states.
InField ==
  /\ cur["body"] \notin GoalieStates /\ nxt["body"] \notin GoalieStates
  /\ {"dive", "diveready"} \cap Range(queue) = {}
  /\ cur["motion"] \in PlayerMotions /\ nxt["motion"] \in PlayerMotions \cup {None}

Fielding == role = "player" => InField

LEMMA FieldingStep ==
  ASSUME Machinery, Fielding, [Next]_vars PROVE Fielding'
<1> SUFFICES ASSUME role = "player", InField
             PROVE  InField'
  BY RoleKept DEF Fielding
<1> USE MachineNames DEF Machinery, Frame, Flow, InField
<1>1. CASE Body
  <2>1. cur'["body"] \notin GoalieStates /\ nxt'["body"] \notin GoalieStates
    <3>1. CASE BodyUpdate
      BY <3>1, PlayerMoves, BodyUpdating DEF BodyAsks
    <3>2. CASE BodyExit \/ BodyEntry
      BY <3>2, BodyExiting, BodyEntering DEF BodyLeaves, BodyEnters, None, GoalieStates
    <3> QED
      BY <1>1, <3>1, <3>2 DEF Body
  <2>2. {"dive", "diveready"} \cap Range(queue') = {}
    <3>1. ASSUME NEW x \in {"dive", "diveready"}, x \in Range(queue') PROVE FALSE
      <4>1. x \notin Range(queue)
        BY <3>1
      <4>2. \/ BodyEnters /\ cur'["body"] = "bodyAnticipate"
            \/ BodyAsks /\ cur["body"] = "bodyAnticipate"
        BY <1>1, <3>1, <4>1, NewEvents
      <4> QED
        BY <2>1, <4>2 DEF GoalieStates
    <3> QED
      BY <3>1
  <2>3. /\ cur'["motion"] = cur["motion"]
        /\ nxt'["motion"] \in {nxt["motion"], "stance", "standstill"}
    BY <1>1, BodyUpdating, BodyExiting, BodyEntering DEF Body, BodyAsks, BodyLeaves, BodyEnters
  <2> QED
    BY <2>1, <2>2, <2>3 DEF PlayerMotions
<1>2. CASE (GameAsks \/ GameLeaves \/ GameEnters) /\ queue' = queue
  <2>1. nxt'["body"] \in {nxt["body"], "bodyIdle", "bodyReady", "bodyStop", "bodyStart"}
    BY <1>2, ForcedNames DEF GameAsks, GameLeaves, GameEnters
  <2> QED
    BY <1>2, <2>1 DEF GameAsks, GameLeaves, GameEnters, GoalieStates
<1>3. CASE (\E e \in {None, "done", "divedone"} : MotionAsks(e)) /\ Range(queue') = {}
  <2>1. PICK e \in {None, "done", "divedone"} : MotionAsks(e)
    BY <1>3
  <2>2. Range(queue) \subseteq Posted \ {"dive", "diveready"}
    BY DEF Queued, Range
  <2>3. nxt'["motion"] \in PlayerMotions \cup {None}
    BY <2>1, <2>2, PlayerRows DEF MotionAsks
  <2> QED
    BY <1>3, <2>1, <2>3 DEF MotionAsks
<1>4. CASE (MotionLeaves \/ MotionEnters) /\ queue' = queue
  BY <1>4 DEF MotionLeaves, MotionEnters
<1>5. CASE UNCHANGED machines
  BY <1>5 DEF machines
<1> QED
  BY <1>1, <1>2, <1>3, <1>4, <1>5, StepKinds

\* A player never gets to the goalie's states, nor its motions to a dive.
THEOREM FieldingAlways == Spec => []Fielding
<1>1. Init => Fielding
  BY DEF Init, Fielding, InField, GoalieStates, PlayerMotions, None, Range
<1> QED
  BY <1>1, FieldingStep, MachineryAlways, PTL DEF Spec

\* A player that stands still or rests is brought to walk when play begins.
OnCall ==
  /\ turn = "body" /\ step = "entry" /\ cur["body"] = "bodyStop" => "walk" \in Range(queue)
  /\ cur["motion"] = "standstill" =>
       \/ cur["body"] = "bodyStop"
       \/ turn = "motion" /\ ("walk" \in Range(queue) \/ nxt["motion"] # None)
  /\ nxt["motion"] = "standstill" => cur["body"] = "bodyStop"

LEMMA OnCallStep ==
  ASSUME Machinery, OnCall, [Next]_vars PROVE OnCall'
<1> USE MachineNames DEF Machinery, Frame, Flow
<1>1. CASE Body
  <2>1. turn = "body" /\ cur'["motion"] = cur["motion"]
    BY <1>1, BodyUpdating, BodyExiting, BodyEntering DEF Body, BodyAsks, BodyLeaves, BodyEnters
  <2>2. CASE BodyUpdate
    <3>1. BodyAsks
      BY <2>2, BodyUpdating
    <3> QED
      BY <2>1, <3>1 DEF BodyAsks, OnCall
  <2>3. CASE BodyExit
    <3>1. BodyLeaves
      BY <2>3, BodyExiting
    <3>2. cur["body"] = "bodyStop" => "walk" \in Range(queue')
      BY <2>3, Posting DEF BodyExit, Posted
    <3> QED
      BY <2>1, <3>1, <3>2 DEF BodyLeaves, OnCall
  <2>4. CASE BodyEntry
    <3>1. BodyEnters
      BY <2>4, BodyEntering
    <3>2. Range(queue) \subseteq Range(queue')
      BY <1>1, BodyAdds
    <3>3. nxt'["motion"] # "standstill"
      BY <3>1 DEF BodyEnters, None
    <3>4. cur["motion"] = "standstill" => "walk" \in Range(queue')
      BY <2>1, <3>1, <3>2 DEF BodyEnters, OnCall
    <3> QED
      BY <2>1, <3>1, <3>3, <3>4 DEF BodyEnters, OnCall
  <2> QED
    BY <1>1, <2>2, <2>3, <2>4 DEF Body
<1>2. CASE (GameAsks \/ GameLeaves \/ GameEnters) /\ queue' = queue
  BY <1>2 DEF GameAsks, GameLeaves, GameEnters, OnCall
<1>3. CASE (\E e \in {None, "done", "divedone"} : MotionAsks(e)) /\ Range(queue') = {}
  <2>1. PICK e \in {None, "done", "divedone"} : MotionAsks(e)
    BY <1>3
  <2>2. nxt'["motion"] # "standstill"
    <3>1. "standstill" \notin Range(queue)
      BY DEF Queued, Posted, Range
    <3> QED
      BY <2>1, <3>1, MotionRows DEF MotionAsks, None
  <2>3. ASSUME cur["motion"] = "standstill", "walk" \in Range(queue)
        PROVE  nxt'["motion"] # None /\ turn' = "motion"
    <3>1. "walk" \in DOMAIN Table["motion"]["standstill"]
      BY DEF Table, MotionTable
    <3> QED
      BY <2>1, <2>3, <3>1, MotionRows, StatesAreNames DEF MotionAsks
  <2> QED
    BY <1>3, <2>1, <2>2, <2>3 DEF MotionAsks, OnCall
<1>4. CASE MotionLeaves /\ queue' = queue
  BY <1>4 DEF MotionLeaves, OnCall
<1>5. CASE MotionEnters /\ queue' = queue
  BY <1>5 DEF MotionEnters, OnCall, None
<1>6. CASE UNCHANGED machines
  BY <1>6 DEF machines, OnCall
<1> QED
  BY <1>1, <1>2, <1>3, <1>4, <1>5, <1>6, StepKinds

\* Whoever leaves bodyStop has "walk" queued behind it, and standstill hears it.
THEOREM OnCallAlways == Spec => []OnCall
<1>1. Init => OnCall
  BY DEF Init, OnCall, None
<1> QED
  BY <1>1, OnCallStep, MachineryAlways, PTL DEF Spec

\* Once bodyStart has had its turn a player in play walks, kicks or is about to.
Afoot ==
  role = "player" /\ cur["body"] \in InPlay =>
    \/ turn = "motion" /\ cur["body"] = "bodyStart"
    \/ /\ cur["motion"] \in {"walk", "stance", "kick"}
       /\ nxt["motion"] \in {None, "walk", "kick"}

LEMMA MotionAfoot ==
  ASSUME Machinery, Resting, Fielding, OnCall, Afoot,
         role = "player", role' = "player", cur'["body"] \in InPlay,
         \/ \E e \in {None, "done", "divedone"} : MotionAsks(e)
         \/ MotionLeaves \/ MotionEnters
  PROVE  Afoot'
<1> USE MachineNames DEF Machinery, Frame, Flow
<1>1. /\ turn = "motion" /\ nxt["body"] = None /\ cur'["body"] = cur["body"]
      /\ cur["body"] \notin {"bodyIdle", "bodyStop"}
  BY DEF MotionAsks, MotionLeaves, MotionEnters, InPlay
<1>2. InField /\ "sit" \notin Range(queue) /\ nxt["motion"] \notin {"sit", "standstill"}
  BY <1>1 DEF Fielding, Resting, OnCall
<1>3. cur["motion"] \in {"sit", "relax"} => nxt["motion"] = "stance"
  BY <1>1 DEF Resting
<1>4. nxt["motion"] # "relax"
  BY <1>3 DEF Resting
<1>5. CASE \E e \in {None, "done", "divedone"} : MotionAsks(e)
  <2>1. PICK e \in {None, "done", "divedone"} : MotionAsks(e)
    BY <1>5
  <2>2. nxt["motion"] = None /\ cur' = cur
    BY <2>1 DEF MotionAsks
  <2>3. cur["motion"] \in {"walk", "stance", "kick", "standstill"}
    BY <1>2, <1>3, <2>2 DEF InField, PlayerMotions, None
  <2>4. CASE cur["motion"] = "standstill"
    <3>1. "walk" \in Range(queue) /\ cur["body"] = "bodyStart"
      BY <1>1, <2>2, <2>4 DEF OnCall, Afoot
    <3>2. "walk" \in DOMAIN Table["motion"]["standstill"]
      BY DEF Table, MotionTable
    <3>3. turn' = "motion"
      BY <2>1, <2>4, <3>1, <3>2 DEF MotionAsks
    <3> QED
      BY <2>2, <3>1, <3>3 DEF Afoot
  <2>5. CASE cur["motion"] # "standstill"
    <3>1. Range(queue) \subseteq {"standup", "walk", "kick"}
      BY <1>2 DEF Queued, Range, Posted, InField
    <3>2. DOMAIN Table["motion"][cur["motion"]] \cap {"standup", "walk", "kick", None, "done", "divedone"}
            = IF cur["motion"] = "walk" THEN {"kick"} ELSE {"done"}
      BY <2>3, <2>5 DEF Table, MotionTable, None
    <3>3. /\ Table["motion"]["walk"]["kick"] = "kick"
          /\ Table["motion"]["stance"]["done"] = "walk"
          /\ Table["motion"]["kick"]["done"] = "walk"
      BY DEF Table, MotionTable
    <3>4. nxt'["motion"] \in {None, "walk", "kick"}
      BY <2>1, <2>3, <2>5, <3>1, <3>2, <3>3 DEF MotionAsks
    <3> QED
      BY <2>2, <2>3, <2>5, <3>4 DEF Afoot
  <2> QED
    BY <2>4, <2>5
<1>6. CASE MotionLeaves
  BY <1>6 DEF MotionLeaves, Afoot
<1>7. CASE MotionEnters
  <2>1. cur'["motion"] = nxt["motion"] /\ nxt'["motion"] = None /\ nxt["motion"] # None
    BY <1>7 DEF MotionEnters
  <2>2. nxt["motion"] \in {"walk", "stance", "kick"}
    BY <1>2, <1>4, <2>1 DEF InField, PlayerMotions
  <2> QED
    BY <2>1, <2>2 DEF Afoot
<1> QED
  BY <1>5, <1>6, <1>7

LEMMA AfootStep ==
  ASSUME Machinery, Resting, FromPlay, Fielding, OnCall, Afoot, [Next]_vars PROVE Afoot'
<1> SUFFICES ASSUME role = "player", role' = "player", cur'["body"] \in InPlay PROVE Afoot'
  BY RoleKept DEF Afoot
<1> USE MachineNames DEF Machinery, Frame, Flow
<1>1. CASE Body
  <2>1. turn = "body" /\ cur'["motion"] = cur["motion"]
    BY <1>1, BodyUpdating, BodyExiting, BodyEntering DEF Body, BodyAsks, BodyLeaves, BodyEnters
  <2>2. CASE BodyAsks \/ BodyLeaves
    <3>1. cur' = cur /\ cur["body"] \notin {"bodyIdle", "bodyStop"}
      BY <2>2 DEF BodyAsks, BodyLeaves, InPlay
    <3>2. nxt'["motion"] = nxt["motion"]
      BY <2>2, <3>1 DEF BodyAsks, BodyLeaves
    <3> QED
      BY <2>1, <3>1, <3>2 DEF Afoot
  <2>3. CASE BodyEnters
    <3>1. CASE nxt["body"] = "bodyStart"
      BY <2>3, <3>1 DEF BodyEnters, Afoot
    <3>2. CASE nxt["body"] # "bodyStart"
      <4>1. cur["body"] \in InPlay
        BY <2>3, <3>2 DEF BodyEnters, FromPlay
      <4> QED
        BY <2>1, <2>3, <4>1 DEF BodyEnters, Afoot
    <3> QED
      BY <3>1, <3>2
  <2> QED
    BY <1>1, <2>2, <2>3, BodyUpdating, BodyExiting, BodyEntering DEF Body
<1>2. CASE GameAsks \/ GameLeaves \/ GameEnters
  BY <1>2 DEF GameAsks, GameLeaves, GameEnters, Afoot
<1>3. CASE UNCHANGED machines
  BY <1>3 DEF machines, Afoot
<1> QED
  BY <1>1, <1>2, <1>3, MotionAfoot, StepKinds

\* A player in play is in a motion from which a kick event is heard, but for the
\* motion machine's turn in the tick bodyStart is entered.
THEOREM AfootAlways == ASSUME ~Hasty PROVE Spec => []Afoot
<1>1. Init => Afoot
  BY DEF Init, Afoot, InPlay
<1> QED
  BY <1>1, AfootStep, RestingAlways, MachineryAlways, FromPlayAlways, FieldingAlways,
     OnCallAlways, PTL DEF Spec

\* bodyKick waits where its event will be heard, and after the event the kick is
\* on its way, going on or over.
Taken ==
  role = "player" /\ cur["body"] = "bodyKick" /\ nxt["body"] = None =>
    /\ phase = 0 => walk.active = TRUE \/ cur["motion"] \in {"walk", "kick"}
    /\ phase \in {1, 2} => Kicking \/ kicked

LEMMA GameTaken ==
  ASSUME Machinery, Parts, Taken, Game, role' = role PROVE Taken'
<1> USE MachineNames DEF Machinery, Frame, Flow
<1>1. /\ phase' = phase /\ kicked' = kicked /\ queue' = queue
  BY DEF Game, GameUpdate, GameExit, GameEntry, history
<1>2. CASE GameUpdate \/ GameExit
  <2>1. GameAsks \/ GameLeaves
    BY <1>2, GameUpdating, GameExiting
  <2>2. /\ cur' = cur /\ nxt'["body"] = nxt["body"] /\ (Kicking => Kicking')
    BY <1>1, <2>1 DEF GameAsks, GameLeaves, Kicking
  <2>3. walk.active = TRUE => walk'.active = TRUE
    <3>1. walk' \in {walk, Started(walk), Stopped(walk)}
      BY <1>2 DEF GameUpdate, GameExit
    <3> QED
      BY <3>1, StoppingOps DEF Parts, StopsYet
  <2> QED
    BY <1>1, <2>2, <2>3 DEF Taken
<1>3. CASE GameEntry
  <2>1. nxt'["body"] \in {"bodyIdle", "bodyReady", "bodyStop", "bodyStart"}
    BY <1>3, GameEntering, ForcedNames DEF GameEnters
  <2> QED
    BY <2>1 DEF Taken, None
<1> QED
  BY <1>2, <1>3 DEF Game

LEMMA BodyTaken ==
  ASSUME Machinery, Parts, KickAsked, Taken, Body, role' = role PROVE Taken'
<1> USE MachineNames DEF Machinery, Frame, Flow
<1>1. CASE BodyUpdate
  <2>1. BodyAsks /\ cur' = cur /\ turn = "body" /\ step = "update" /\ nxt["body"] = None
    BY <1>1, BodyUpdating DEF BodyAsks
  <2>2. CASE cur["body"] = "bodyKick" /\ nxt'["body"] = None
    <3>1. BodyKick
      BY <1>1, <2>2 DEF BodyUpdate, BodyIdle, BodyStart, BodyStop, BodyReady, BodyReadyMove,
         BodySteer, BodyWalkKick, BodyAnticipate, BodyDive, Updates, Steering
    <3>2. ASSUME NEW e \in {"done", "timeout", "reposition"}, Returns("body", e) PROVE FALSE
      <4>1. e \in DOMAIN Table["body"]["bodyKick"]
        BY SMTT(30) DEF Table, BodyTable
      <4>2. \A x \in DOMAIN Table["body"][cur["body"]] : Table["body"][cur["body"]][x] # None
        BY BodyRows, BodyStatesAre DEF None
      <4> QED
        BY <2>2, <3>2, <4>1, <4>2, Returning DEF Returns
    <3>3. kicked' = kicked /\ walk' = walk
      BY <3>1, <3>2 DEF BodyKick
    <3>4. \/ phase' = phase /\ queue' = queue
          \/ phase = 0 /\ ~walk.active /\ phase' = 1 /\ queue' = Post(queue, "kick")
          \/ phase = 1 /\ phase' = 2 /\ queue' = queue
      BY <3>1, <3>2 DEF BodyKick
    <3>5. step' = "update" /\ Range(queue) \subseteq Range(queue') /\ nxt["motion"] # "kick"
      <4>1. \A x \in DOMAIN Table["body"][cur["body"]] : Table["body"][cur["body"]][x] # None
        BY BodyRows, BodyStatesAre DEF None
      <4>2. step' = "update"
        BY <2>1, <2>2, <4>1 DEF BodyAsks
      <4>3. Range(queue) \subseteq Range(queue')
        BY BodyAdds
      <4> QED
        BY <2>1, <4>2, <4>3 DEF KickAsked
    <3>6. Kicking => Kicking'
      BY <2>1, <3>5 DEF Kicking
    <3>7. CASE phase' = phase \/ phase = 1
      BY <2>1, <3>3, <3>4, <3>6, <3>7 DEF Taken
    <3>8. CASE phase = 0 /\ ~walk.active /\ phase' = 1 /\ queue' = Post(queue, "kick")
      <4>1. ASSUME role = "player" PROVE cur["motion"] \in {"walk", "kick"}
        BY <2>1, <2>2, <3>8, <4>1 DEF Taken
      <4>2. "kick" \in Range(queue')
        BY <3>8, Posting DEF Posted
      <4>3. role = "player" => Kicking'
        BY <2>1, <3>5, <4>1, <4>2 DEF Kicking
      <4> QED
        BY <3>8, <4>3 DEF Taken
    <3> QED
      BY <3>4, <3>7, <3>8
  <2>3. CASE ~ (cur["body"] = "bodyKick" /\ nxt'["body"] = None)
    BY <2>1, <2>3 DEF Taken
  <2> QED
    BY <2>2, <2>3
<1>2. CASE BodyExit
  <2>1. nxt'["body"] # None
    BY <1>2, BodyExiting DEF BodyLeaves
  <2> QED
    BY <2>1 DEF Taken
<1>3. CASE BodyEntry
  <2>1. cur'["body"] = nxt["body"]
    BY <1>3, BodyEntering DEF BodyEnters
  <2>2. CASE nxt["body"] = "bodyKick"
    <3>1. phase' = (IF walk.active THEN 0 ELSE 3) /\ walk' = Stopped(walk)
      BY <1>3, <2>2 DEF BodyEntry
    <3>2. phase' = 0 => walk'.active = TRUE
      BY <3>1, StoppingOps DEF Parts, WalkRecord
    <3> QED
      BY <3>1, <3>2 DEF Taken
  <2>3. CASE nxt["body"] # "bodyKick"
    BY <2>1, <2>3 DEF Taken
  <2> QED
    BY <2>2, <2>3
<1> QED
  BY <1>1, <1>2, <1>3 DEF Body

LEMMA MotionTaken ==
  ASSUME Machinery, Parts, Resting, Fielding, KickAsked, Afoot, Taken, Motion, role' = role
  PROVE  Taken'
<1> USE MachineNames DEF Machinery, Frame, Flow
<1>1. /\ turn = "motion" /\ nxt["body"] = None /\ nxt'["body"] = None
      /\ cur'["body"] = cur["body"]
  BY MotionUpdating, MotionExiting, MotionEntering
     DEF Motion, MotionAsks, MotionLeaves, MotionEnters
<1> SUFFICES ASSUME role = "player", cur["body"] = "bodyKick"
             PROVE  /\ phase' = 0 => walk'.active = TRUE \/ cur'["motion"] \in {"walk", "kick"}
                    /\ phase' \in {1, 2} => Kicking' \/ kicked'
  BY <1>1 DEF Taken
<1>2. phase' = phase
  <2>1. ~ Body
    BY <1>1, BodyTurn
  <2> QED
    BY <2>1, PhaseOfOthers DEF Next
<1>3. /\ cur["motion"] \in {"walk", "stance", "kick"} /\ nxt["motion"] \in {None, "walk", "kick"}
      /\ phase = 0 => walk.active = TRUE \/ cur["motion"] \in {"walk", "kick"}
      /\ phase \in {1, 2} => Kicking \/ kicked
  BY <1>1, BodyStatesAre DEF Afoot, Taken, InPlay, GoesReady
<1>4. CASE MotionUpdate
  <2>1. PICK e \in {None, "done", "divedone"} : MotionAsks(e)
    BY <1>4, MotionUpdating
  <2>2. /\ cur' = cur /\ step = "update" /\ step' \in {"update", "exit"}
        /\ nxt["motion"] = None
    BY <2>1 DEF MotionAsks
  <2>3. kicked' = kicked
    BY <1>4 DEF MotionUpdate, MotionHold, MotionSit, MotionStance, MotionWalk, MotionDive,
       MotionFalling, MotionStandup, MotionKick, history
  <2>4. ASSUME cur["motion"] = "stance", walk.active = TRUE PROVE walk'.active = TRUE
    <3>1. walk' = walk \/ walk' = Started(Reset(walk))
      BY <1>4, <2>4 DEF MotionUpdate, MotionHold, MotionSit, MotionStance, MotionWalk,
         MotionDive, MotionFalling, MotionStandup, MotionKick, Updates, legs
    <3>2. Reset(walk) \in WalkRecord
      BY WalkOps DEF Parts, Velocity
    <3> QED
      BY <2>4, <3>1, <3>2, StoppingOps DEF StopsYet
  <2>5. ASSUME Kicking PROVE Kicking'
    <3>1. CASE cur["motion"] = "kick"
      BY <2>2, <3>1 DEF Kicking
    <3>2. CASE cur["motion"] = "walk" /\ "kick" \in Range(queue)
      <4>1. Range(queue) \subseteq {"standup", "walk", "kick"}
        BY DEF Queued, Range, Posted, Resting, Fielding, InField
      <4>2. /\ DOMAIN Table["motion"]["walk"]
                 \cap {"standup", "walk", "kick", None, "done", "divedone"} = {"kick"}
            /\ Table["motion"]["walk"]["kick"] = "kick"
        BY DEF Table, MotionTable, None
      <4>3. nxt'["motion"] = "kick"
        BY <2>1, <3>2, <4>1, <4>2 DEF MotionAsks
      <4> QED
        BY <4>3 DEF Kicking
    <3> QED
      BY <2>2, <2>5, <3>1, <3>2 DEF Kicking, None
  <2> QED
    BY <1>2, <1>3, <2>2, <2>3, <2>4, <2>5
<1>5. CASE MotionExit
  <2>1. MotionLeaves /\ cur' = cur /\ nxt' = nxt /\ queue' = queue /\ nxt["motion"] # None
    BY <1>5, MotionExiting DEF MotionLeaves, MotionExit
  <2>2. kicked' = (kicked \/ cur["motion"] = "kick")
    BY <1>5 DEF MotionExit
  <2>3. walk.active = TRUE => walk'.active = TRUE
    BY <1>5, StoppingOps DEF MotionExit, Parts, StopsYet
  <2>4. Kicking => cur["motion"] = "kick" \/ Kicking'
    BY <2>1 DEF Kicking, KickAsked
  <2> QED
    BY <1>2, <1>3, <2>1, <2>2, <2>3, <2>4
<1>6. CASE MotionEntry
  <2>1. /\ cur'["motion"] = nxt["motion"] /\ nxt["motion"] \in {"walk", "kick"}
        /\ turn' = "game" /\ step = "entry"
    BY <1>3, <1>6, MotionEntering DEF MotionEnters
  <2>2. kicked' = kicked
    BY <1>6 DEF MotionEntry, history
  <2>3. Kicking => Kicking'
    BY <1>1, <2>1 DEF Kicking, KickAsked, None
  <2> QED
    BY <1>2, <1>3, <2>1, <2>2, <2>3
<1> QED
  BY <1>4, <1>5, <1>6 DEF Motion

LEMMA TakenStep ==
  ASSUME Machinery, Parts, Resting, Fielding, KickAsked, Afoot, Taken, [Next]_vars
  PROVE  Taken'
<1>1. CASE WalkKickOver \/ UNCHANGED vars
  BY <1>1 DEF WalkKickOver, vars, robot, machines, legs, history, Taken, Kicking
<1> QED
  BY <1>1, RoleKept, GameTaken, BodyTaken, MotionTaken DEF Next

\* The invariant behind KickTaken: bodyKick posts its event to a walk, or to a
\* kick that is still going on.
THEOREM TakenAlways == ASSUME ~Hasty PROVE Spec => []Taken
<1>1. Init => Taken
  BY DEF Init, Taken
<1> QED
  BY <1>1, TakenStep, MachineryAlways, PartsAlways, RestingAlways, FieldingAlways,
     KickAskedAlways, AfootAlways, PTL DEF Spec

\* A player's kick event is never dropped: at the start of a tick bodyKick, once
\* past its event, has a motion machine that is kicking or has kicked.
THEOREM KickTakenAlways == ASSUME ~Hasty PROVE Spec => []KickTaken
<1>1. Machinery /\ KickAsked /\ Taken => KickTaken
  <2> SUFFICES ASSUME Machinery, KickAsked, Taken, TickStart, role = "player",
                      cur["body"] = "bodyKick", phase \in {1, 2}
               PROVE  cur["motion"] = "kick" \/ kicked
    BY DEF KickTaken
  <2>1. nxt["body"] = None
    BY DEF TickStart, Machinery, Flow
  <2>2. Kicking \/ kicked
    BY <2>1 DEF Taken
  <2> QED
    BY <2>2 DEF Kicking, KickAsked, TickStart
<1> QED
  BY <1>1, MachineryAlways, KickAskedAlways, TakenAlways, PTL
-----------------------------------------------------------------------------
(* Rest that lasts while the game stays as it is.                          *)

\* bodyStop posts nothing and is entered with an empty queue; nothing but "sit"
\* waits for a robot that sits or rests, unless it is about to be stood up.
Hushed ==
  /\ nxt["body"] = "bodyStop" => cur["body"] # "bodyStop"
  /\ nxt["body"] = "bodyStop" \/ (cur["body"] = "bodyStop" /\ nxt["body"] = None) =>
       Range(queue) = {}
  /\ nxt["motion"] \in {"sit", "relax"} => Range(queue) = {}
  /\ cur["motion"] \in {"sit", "relax"} =>
       Range(queue) \subseteq {"sit"} \/ nxt["motion"] = "stance"

LEMMA OthersHushed ==
  ASSUME Machinery, Obeys, Resting, Hushed, [Next]_vars, ~ Body PROVE Hushed'
<1> USE MachineNames DEF Machinery, Frame, Flow
<1>1. CASE GameAsks /\ queue' = queue
  BY <1>1 DEF GameAsks, Hushed
<1>2. CASE GameLeaves /\ queue' = queue
  BY <1>2 DEF GameLeaves, Hushed
<1>3. CASE GameEnters /\ queue' = queue
  <2>1. Range(queue) = {} /\ nxt["motion"] = None
    BY <1>3 DEF GameEnters, Resting
  <2>2. ASSUME nxt'["body"] = "bodyStop" PROVE cur["body"] # "bodyStop"
    <3>1. nxt["game"] \in States("game") /\ nxt["game"] # cur["game"]
      BY <1>3 DEF GameEnters
    <3>2. nxt["game"] = "gameSet"
      BY <1>3, <2>2, <3>1, GameStatesAre DEF GameEnters, BodyOf
    <3>3. cur["game"] # "gameSet" /\ Agrees(cur["game"], cur["body"])
      BY <1>3, <3>1, <3>2 DEF GameEnters, Obeys
    <3> QED
      BY <3>3 DEF Agrees, IdleGames, InPlay, GoesReady
  <2> QED
    BY <1>3, <2>1, <2>2 DEF GameEnters, Hushed, None
<1>4. CASE (\E e \in {None, "done", "divedone"} : MotionAsks(e)) /\ Range(queue') = {}
  BY <1>4 DEF MotionAsks, Hushed
<1>5. CASE MotionLeaves /\ queue' = queue
  BY <1>5 DEF MotionLeaves, Hushed
<1>6. CASE MotionEnters /\ queue' = queue
  BY <1>6 DEF MotionEnters, Hushed, None
<1>7. CASE UNCHANGED machines
  BY <1>7 DEF machines, Hushed
<1> QED
  BY <1>1, <1>2, <1>3, <1>4, <1>5, <1>6, <1>7, StepKinds

LEMMA BodyHushed ==
  ASSUME Machinery, Resting, Hushed, Body PROVE Hushed'
<1> USE MachineNames DEF Machinery, Frame, Flow
<1>1. turn = "body" /\ cur'["motion"] = cur["motion"] /\ nxt'["motion"] \notin {"sit", "relax"}
  <2>1. turn = "body" => nxt["motion"] \notin {"sit", "relax"}
    BY DEF None
  <2> QED
    BY <2>1, BodyUpdating, BodyExiting, BodyEntering DEF Body, BodyAsks, BodyLeaves, BodyEnters
<1>2. ASSUME nxt'["body"] = "bodyStop" PROVE cur'["body"] # "bodyStop"
  <2>1. CASE BodyAsks
    <3>1. PICK e \in DOMAIN Table["body"][cur["body"]] :
            nxt'["body"] = Table["body"][cur["body"]][e]
      BY <1>2, <2>1 DEF BodyAsks, None
    <3> QED
      BY <2>1, <3>1, BodyClasses DEF BodyAsks, InPlay, GoesReady
  <2>2. CASE BodyLeaves \/ BodyEnters
    BY <1>2, <2>2 DEF BodyLeaves, BodyEnters, Hushed, None
  <2> QED
    BY <2>1, <2>2, BodyUpdating, BodyExiting, BodyEntering DEF Body
<1>3. ASSUME nxt'["body"] = "bodyStop" \/ (cur'["body"] = "bodyStop" /\ nxt'["body"] = None)
      PROVE  Range(queue') = {}
  <2>1. CASE BodyUpdate
    <3>1. BodyAsks
      BY <2>1, BodyUpdating
    <3>2. nxt'["body"] # "bodyStop"
      <4> SUFFICES ASSUME nxt'["body"] = "bodyStop" PROVE FALSE
        OBVIOUS
      <4>1. PICK e \in DOMAIN Table["body"][cur["body"]] :
              nxt'["body"] = Table["body"][cur["body"]][e]
        BY <3>1 DEF BodyAsks, None
      <4> QED
        BY <4>1, BodyClasses DEF InPlay, GoesReady
    <3>3. cur["body"] = "bodyStop" /\ nxt["body"] = None
      BY <1>3, <3>1, <3>2 DEF BodyAsks
    <3>4. BodyStop
      BY <2>1, <3>3 DEF BodyUpdate, BodyIdle, BodyStart, BodyReady, BodyReadyMove, BodySteer,
         BodyKick, BodyWalkKick, BodyAnticipate, BodyDive, Updates, Steering
    <3> QED
      BY <3>3, <3>4 DEF BodyStop, Hushed
  <2>2. CASE BodyExit
    <3>1. BodyLeaves /\ nxt["body"] = "bodyStop" /\ cur["body"] # "bodyStop"
      BY <1>3, <2>2, BodyExiting DEF BodyLeaves, Hushed
    <3> QED
      BY <2>2, <3>1 DEF BodyExit, Hushed
  <2>3. CASE BodyEntry
    <3>1. nxt["body"] = "bodyStop"
      BY <1>3, <2>3, BodyEntering DEF BodyEnters, None
    <3> QED
      BY <2>3, <3>1 DEF BodyEntry, Posts, Hushed
  <2> QED
    BY <2>1, <2>2, <2>3 DEF Body
<1>4. ASSUME cur["motion"] \in {"sit", "relax"}, nxt'["motion"] # "stance"
      PROVE  Range(queue') \subseteq {"sit"}
  <2>1. cur["body"] = "bodyIdle" /\ nxt["motion"] # "stance"
    BY <1>1, <1>4, BodyUpdating, BodyExiting, BodyEntering
       DEF Body, BodyAsks, BodyLeaves, BodyEnters, Resting
  <2>2. ASSUME NEW x \in Range(queue'), x \notin Range(queue) PROVE x = "sit"
    <3>1. CASE BodyUpdate
      BY <2>1, <2>2, <3>1, NewEvents, BodyUpdating DEF Body, BodyAsks, BodyLeaves, BodyEnters, GoesReady
    <3>2. CASE BodyExit
      BY <2>1, <2>2, <3>2 DEF BodyExit
    <3>3. CASE BodyEntry
      BY <1>1, <2>1, <3>3, BodyEntering DEF BodyEnters
    <3> QED
      BY <3>1, <3>2, <3>3 DEF Body
  <2> QED
    BY <1>4, <2>1, <2>2 DEF Hushed
<1> QED
  BY <1>1, <1>2, <1>3, <1>4 DEF Hushed

\* With the same proviso, the invariant behind the two theorems below.
THEOREM HushedAlways == ASSUME ~Hasty PROVE Spec => []Hushed
<1>1. Init => Hushed
  BY DEF Init, Hushed, None, Range
<1>2. Machinery /\ Obeys /\ Resting /\ Hushed /\ [Next]_vars => Hushed'
  BY OthersHushed, BodyHushed
<1> QED
  BY <1>1, <1>2, MachineryAlways, ObeysAlways, RestingAlways, PTL DEF Spec

\* Sits or rests, and nobody is about to stand it up.
Rests ==
  cur["motion"] \in {"sit", "relax"} /\ nxt["body"] = None /\ nxt["motion"] \in {None, "relax"}

LEMMA RestsStep ==
  ASSUME Machinery, Resting, Hushed, Rests, [Next]_vars, cur'["game"] = cur["game"]
  PROVE  Rests'
<1> USE MachineNames DEF Machinery, Frame, Flow
<1>1. cur["body"] = "bodyIdle" /\ DOMAIN Table["body"]["bodyIdle"] = {}
  BY BodyClasses, BodyStatesAre DEF Rests, Resting, None
<1>2. Range(queue) \subseteq {"sit"}
  BY DEF Rests, Hushed, None
<1>3. CASE GameAsks \/ GameLeaves
  BY <1>3 DEF GameAsks, GameLeaves, Rests
<1>4. CASE GameEnters
  BY <1>4 DEF GameEnters
<1>5. CASE BodyAsks
  BY <1>1, <1>5 DEF BodyAsks, Rests
<1>6. CASE BodyLeaves \/ BodyEnters
  BY <1>6 DEF BodyLeaves, BodyEnters, Rests
<1>7. ASSUME NEW e \in {None, "done", "divedone"}, MotionAsks(e) PROVE Rests'
  <2>1. cur' = cur /\ nxt'["body"] = nxt["body"]
    BY <1>7 DEF MotionAsks
  <2>2. nxt'["motion"] \in {None, "relax"}
    <3> SUFFICES ASSUME nxt'["motion"] # None PROVE nxt'["motion"] = "relax"
      OBVIOUS
    <3>1. PICK x \in (Range(queue) \cup {e}) \cap DOMAIN Table["motion"][cur["motion"]] :
            nxt'["motion"] = Table["motion"][cur["motion"]][x]
      BY <1>7 DEF MotionAsks
    <3>2. x \in {"sit", None, "done", "divedone"}
      BY <1>2, <3>1
    <3> QED
      BY <3>1, <3>2 DEF Table, MotionTable, Rests, None
  <2> QED
    BY <2>1, <2>2 DEF Rests
<1>8. CASE MotionLeaves
  BY <1>8 DEF MotionLeaves, Rests
<1>9. CASE MotionEnters
  BY <1>9 DEF MotionEnters, Rests, None
<1>10. CASE UNCHANGED machines
  BY <1>10 DEF machines, Rests
<1> QED
  BY <1>3, <1>4, <1>5, <1>6, <1>7, <1>8, <1>9, <1>10, MachineSteps

\* The safety half of SitsDown: once the robot has sat down it stays so, tick
\* after tick, as long as the game does not change.
THEOREM RestsForGood ==
  ASSUME ~Hasty
  PROVE  Spec => [][Rests /\ cur'["game"] = cur["game"] => Rests']_vars
<1>1. Machinery /\ Resting /\ Hushed /\ [Next]_vars
        => [Rests /\ cur'["game"] = cur["game"] => Rests']_vars
  BY RestsStep
<1> QED
  BY <1>1, MachineryAlways, RestingAlways, HushedAlways, PTL DEF Spec

\* Stands still where gameSet has sent it, the walk over.
Stands ==
  /\ cur["body"] = "bodyStop" /\ nxt["body"] = None /\ walk.active = FALSE
  /\ cur["motion"] = "standstill" /\ nxt["motion"] \in {None, "standstill"}

LEMMA StandsStep ==
  ASSUME Machinery, Parts, Obeys, Hushed, Stands, [Next]_vars, cur'["game"] = cur["game"]
  PROVE  Stands'
<1> USE MachineNames DEF Machinery, Frame, Flow
<1>1. /\ Range(queue) = {}
      /\ DOMAIN Table["motion"]["standstill"] = {"stance", "walk", "sit", "diveready"}
  BY DEF Stands, Hushed, Table, MotionTable
<1>2. CASE Game
  <2>1. GameAsks \/ GameLeaves
    BY <1>2, GameUpdating, GameExiting, GameEntering DEF Game, GameEnters
  <2>2. ~ GameEntry /\ turn = "game"
    BY <2>1 DEF GameAsks, GameLeaves, GameEntry, Entered
  <2>3. cur["game"] = "gameSet"
    BY <2>2, GameStatesAre DEF Obeys, Agrees, Stands, InPlay, GoesReady
  <2>4. walk' \in {walk, Stopped(walk)}
    BY <1>2, <2>2, <2>3 DEF Game, GameUpdate, GameExit
  <2>5. walk'.active = FALSE
    BY <2>4, StoppingOps DEF Stands, Parts
  <2> QED
    BY <2>1, <2>5 DEF GameAsks, GameLeaves, Stands
<1>3. CASE Body
  <2>1. turn = "body" /\ step = "update"
    BY <1>3, BodyTurn, BodyUpdating, BodyExiting, BodyEntering
       DEF Body, BodyAsks, BodyLeaves, BodyEnters, Stands
  <2>2. BodyStop
    BY <1>3, <2>1 DEF Body, BodyUpdate, BodyIdle, BodyStart, BodyReady, BodyReadyMove, BodySteer,
       BodyKick, BodyWalkKick, BodyAnticipate, BodyDive, BodyExit, BodyEntry, Exits, Entered,
       Updates, Steering, Stands
  <2>3. BodyAsks /\ DOMAIN Table["body"][cur["body"]] = {}
    BY <2>2, BodyUpdating, BodyClasses DEF BodyUpdate, Stands
  <2>4. walk' = walk
    BY <2>2 DEF BodyStop, legs
  <2> QED
    BY <2>3, <2>4 DEF BodyAsks, Stands
<1>4. CASE MotionUpdate
  <2>1. PICK e \in {None, "done", "divedone"} : MotionAsks(e)
    BY <1>4, MotionUpdating
  <2>2. nxt'["motion"] = None
    BY <1>1, <2>1 DEF MotionAsks, Stands, None
  <2>3. walk' = walk
    BY <1>4 DEF MotionUpdate, MotionHold, MotionSit, MotionStance, MotionWalk, MotionDive,
       MotionFalling, MotionStandup, MotionKick, Updates, legs, Stands
  <2> QED
    BY <2>1, <2>2, <2>3 DEF MotionAsks, Stands
<1>5. CASE MotionExit
  BY <1>5, MotionExiting DEF MotionExit, MotionLeaves, Stands
<1>6. CASE MotionEntry
  <2>1. nxt["motion"] = "standstill" /\ MotionEnters
    BY <1>6, MotionEntering DEF MotionEnters, Stands
  <2>2. walk' = [walk EXCEPT !.active = FALSE]
    BY <1>6, <2>1 DEF MotionEntry, WalkAtEntry
  <2>3. walk'.active = FALSE
    BY <2>2, InactiveCell DEF Parts
  <2> QED
    BY <2>1, <2>3 DEF MotionEnters, Stands
<1>7. CASE WalkKickOver \/ UNCHANGED vars
  BY <1>7 DEF WalkKickOver, vars, robot, machines, legs, Stands
<1> QED
  BY <1>2, <1>3, <1>4, <1>5, <1>6, <1>7 DEF Next, Motion

\* The safety half of StandsAtSet: a robot that has come to stand in set, its walk
\* over, stands there until the game changes; nothing queued sets it going again.
THEOREM StandsForGood ==
  ASSUME ~Hasty
  PROVE  Spec => [][Stands /\ cur'["game"] = cur["game"] => Stands']_vars
<1>1. Machinery /\ Parts /\ Obeys /\ Hushed /\ [Next]_vars
        => [Stands /\ cur'["game"] = cur["game"] => Stands']_vars
  BY StandsStep
<1> QED
  BY <1>1, MachineryAlways, PartsAlways, ObeysAlways, HushedAlways, PTL DEF Spec
=============================================================================
