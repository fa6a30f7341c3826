------------------------------- MODULE RobotFsm -------------------------------
(***************************************************************************)
(* The player's main loop.  Every tick updates the game machine, the body  *)
(* machine and the motion machine in this order, in one thread:            *)
(*                                                                         *)
(*   game    forces body states (set_state), starts and stops the walk     *)
(*   body    posts events to the motion machine, forces motion states,     *)
(*           starts and stops the walk, commands its velocity              *)
(*   motion  runs the walk and the other motions, commands the gait engine *)
(*                                                                         *)
(* One update of a machine (fsm.update) is up to three steps: the state's  *)
(* update, and on a change of state its exit and the next one's entry.  A  *)
(* state forced from outside skips the update and leaves the event queue   *)
(* as it is.  The head machine, which nothing else reads, is left out, and *)
(* so is the fall check, which Motion.update has commented out.            *)
(*                                                                         *)
(* Times (timeouts, waits) and what the robot sees are left open: wherever *)
(* the code compares them, either outcome may come.                        *)
(***************************************************************************)
EXTENDS RobotTables, Functions

CONSTANTS Roles,  \* of "goalie" (team role 0) and "player", those to look at
          Hasty   \* the game may change while events of the last change are queued

ASSUME RoleAssumption == Roles \subseteq {"goalie", "player"}
ASSUME HastyAssumption == Hasty \in BOOLEAN

VARIABLES
  role,     \* the robot's; TeamBasic never makes a player a goalie or a goalie a player
  cur,      \* currentState of each machine
  nxt,      \* nextState of each machine, or None
  queue,    \* the motion machine's events; nobody posts to the other two
  turn,     \* the machine being updated
  step,     \* "update", "exit" or "entry" of its state
  phase,    \* progress inside the body state (phase, started, kickoff, kickable)
  started,  \* the kick motion has handed its command over
  walk,     \* the walk module: active, stopRequest (3: 2, with the last step over),
            \* velCommand2, velCurrent2, walkKickRequest
  vel,      \* the velocity in force in the gait engine: 0 stands for zero
  kicking,  \* the walk kick cells (command or pending) are not all 0
  torque,   \* joint torque
  risen,    \* a stance has set the camera's bodyHeight; walk.update() waits for it
  kicked,   \* history: a kick motion ended since bodyKick was entered
  gaveUp    \* history: a bodyKick has timed out since bodyStart

machines == <<cur, nxt, queue, turn, step>>
legs     == <<walk, vel, kicking>>
history  == <<kicked, gaveUp>>
robot    == <<machines, phase, started, legs, torque, risen, history>>
vars     == <<role, robot>>

GameStates == {"initial", "ready", "set", "playing", "finished"}
Velocity == {0, 1}      \* zero, or some other velocity
IdleGames == {"gameInitial", "gamePenalized", "gameFinished"}

\* The states that walk the robot about.  bodyOrbit, bodyDribble and the two
\* obstacle states are never entered: with playMode 3 bodyPosition does not
\* return their events.
Steering == {"bodyPosition", "bodySearch", "bodyGotoCenter", "bodyApproach",
             "bodyPositionGoalie", "bodyChase"}

\* After the entry() of all machines: GameFSM.entry comes last and forces the
\* body machine, whose own entry has posted "sit".
Init ==
  /\ role \in Roles
  /\ cur = [game |-> "gameInitial", body |-> "bodyIdle", motion |-> "relax"]
  /\ nxt = [game |-> None, body |-> "bodyIdle", motion |-> None]
  /\ queue = <<"sit">>
  /\ turn = "game" /\ step = "update"
  /\ phase = 0 /\ started = FALSE
  /\ walk = [active |-> TRUE, stop |-> 2, cmd |-> 0, sent |-> 0, kick |-> FALSE]
  /\ vel = 0 /\ kicking = FALSE /\ torque = TRUE /\ risen \in BOOLEAN
  /\ kicked = FALSE /\ gaveUp = FALSE

-----------------------------------------------------------------------------
(* The walk module (BasicWalk), as the other modules call it.              *)

AtLeastOne(n) == IF n = 0 THEN 1 ELSE n

\* Mutant of Started: a pending stop request survives.
StartedPending(w) == [w EXCEPT !.active = TRUE]
Started(w) == [w EXCEPT !.active = TRUE, !.stop = 0]      \* walk.start()
\* Mutants of Stopped: without the last step; requests counted.
StoppedAtOnce(w) == [w EXCEPT !.active = FALSE, !.stop = AtLeastOne(@)]
StoppedMore(w) == [w EXCEPT !.stop = @ + 1]
Stopped(w) == [w EXCEPT !.stop = AtLeastOne(@)]           \* walk.stop()
Toward(w, v) == [w EXCEPT !.cmd = v]                      \* walk.set_velocity(v)
\* Mutant of Reset: the commanded velocity is kept.
ResetSent(w) == [w EXCEPT !.sent = 0]
Reset(w) == [w EXCEPT !.cmd = 0, !.sent = 0]              \* walk.stance_reset()

\* A velocity is handed to the gait engine when it differs from the last one
\* handed over; two velocities other than zero may or may not differ.
Send(w) ==
  \/ /\ w.cmd # w.sent \/ w.cmd # 0
     /\ walk' = [w EXCEPT !.sent = w.cmd] /\ vel' = w.cmd
  \/ /\ w.cmd = w.sent
     /\ walk' = w /\ vel' = vel

\* Not active: once no special gait is left, a velocity still in force is
\* taken back.
WalkStill ==
  /\ ~walk.active
  /\ \/ UNCHANGED <<walk, vel>>
     \/ walk.sent # 0 /\ walk' = Reset(walk) /\ vel' = 0
  /\ UNCHANGED kicking

\* The last step is over: inactive as soon as the sensors, which lag behind
\* the engine, show velocity 0.  Until then nothing more is sent.
WalkLast ==
  /\ walk.active /\ walk.stop \in {2, 3}
  /\ walk' \in {[walk EXCEPT !.stop = 3], [walk EXCEPT !.active = FALSE, !.stop = 0]}
  /\ UNCHANGED <<vel, kicking>>

\* A new step while a walk kick is on: the stop request has to wait.  The request
\* for the kick is dropped when the engine shows it over, or after its last step.
WalkKickStep ==
  /\ walk.active /\ walk.stop \in {0, 1}
  /\ walk.kick \/ kicking
  /\ \E on \in {walk.kick /\ kicking, FALSE} : Send([walk EXCEPT !.kick = on])
  /\ UNCHANGED kicking

\* Mutant of LastStep: the velocity is not zeroed.
LastStepMoving(w) == [w EXCEPT !.stop = 2]
\* A new step with a stop request is the last one.
LastStep(w) == [Reset(w) EXCEPT !.stop = 2]

WalkStop ==
  /\ walk.active /\ walk.stop = 1
  /\ ~walk.kick /\ ~kicking
  /\ walk' = LastStep(walk) /\ vel' = 0
  /\ UNCHANGED kicking

\* Between two steps, or a new step with no request: velocities are passed on,
\* after the last step has begun too.
WalkOn == walk.active /\ walk.stop # 3 /\ Send(walk) /\ UNCHANGED kicking

WalkUpdate ==
  \/ ~risen /\ UNCHANGED legs
  \/ risen /\ (WalkStill \/ WalkLast \/ WalkKickStep \/ WalkStop \/ WalkOn)

-----------------------------------------------------------------------------
(* The engine (fsm.update).                                                *)

\* add_event.  Only the first of equal events can be chosen: the queue keeps it.
Post(q, e) == IF e \in Range(q) THEN q ELSE Append(q, e)

After == [game |-> "body", body |-> "motion", motion |-> "game"]

\* Mutant of Updates: the state is asked although another one is forced.
UpdatesAnyway(m, S) == turn = m /\ step = "update" /\ cur[m] \in S
\* m's state is asked for an update: it is m's turn and nothing is forced.
Updates(m, S) == turn = m /\ step = "update" /\ nxt[m] = None /\ cur[m] \in S

Exits(m) == turn = m /\ (step = "exit" \/ (step = "update" /\ nxt[m] # None))

\* The end of an update with this queue; n is nxt as the state's update left it.
Conclude(m, n, q) ==
  LET target == Chosen(Table[m][cur[m]], q)
  IN /\ nxt' = [n EXCEPT ![m] = target]
     /\ IF target = None THEN step' = "update" /\ turn' = After[m]
                         ELSE step' = "exit" /\ turn' = turn
     /\ UNCHANGED cur

\* A body or game state returns event e (or None); queue is the motion's.
Returns(m, e) == Conclude(m, nxt, <<e>>)

\* After exit: the entry is the next step.
Exited(n) == nxt' = n /\ step' = "entry" /\ UNCHANGED <<cur, turn>>

Entered(m, n) ==
  /\ turn = m /\ step = "entry"
  /\ cur' = [cur EXCEPT ![m] = nxt[m]]
  /\ nxt' = [n EXCEPT ![m] = None]
  /\ step' = "update" /\ turn' = After[m]

-----------------------------------------------------------------------------
(* The game machine (GameFSM).                                             *)

\* The event update() returns in game state s, when the game controller says
\* told and has or has not penalised this robot.
GameEvent(s, told, penalty) ==
  CASE s = "gamePenalized" -> IF penalty THEN None ELSE told
    [] s \in {"gameInitial", "gameFinished"} -> told
    [] told \notin DOMAIN GameTable[s] /\ penalty -> "penalized"
    [] OTHER -> told

\* Mutant of GameUpdate: gameSet does not go on stopping the walk.
GameUpdateLax ==
  /\ Updates("game", States("game"))
  /\ \E told \in GameStates, penalty \in BOOLEAN :
       LET e == GameEvent(cur.game, told, penalty)
       IN /\ Hasty \/ queue = <<>> \/ e \notin DOMAIN GameTable[cur.game]
          /\ Returns("game", e)
  /\ UNCHANGED <<role, queue, phase, started, legs, torque, risen, history>>

\* gameSet goes on stopping the walk.
GameUpdate ==
  /\ Updates("game", States("game"))
  /\ walk' = IF cur.game = "gameSet" THEN Stopped(walk) ELSE walk
  /\ \E told \in GameStates, penalty \in BOOLEAN :
       LET e == GameEvent(cur.game, told, penalty)
       IN /\ Hasty \/ queue = <<>> \/ e \notin DOMAIN GameTable[cur.game]
          /\ Returns("game", e)
  /\ UNCHANGED <<role, queue, phase, started, vel, kicking, torque, risen, history>>

GameExit ==
  /\ Exits("game")
  /\ walk' = IF cur.game = "gameInitial" THEN Started(walk) ELSE walk
  /\ Exited(nxt)
  /\ UNCHANGED <<role, queue, phase, started, vel, kicking, torque, risen, history>>

BodyOf == [gameInitial |-> "bodyIdle", gameReady |-> "bodyReady", gameSet |-> "bodyStop",
           gamePlaying |-> "bodyStart", gamePenalized |-> "bodyIdle",
           gameFinished |-> "bodyIdle"]

GameEntry ==
  /\ Entered("game", [nxt EXCEPT !.body = BodyOf[nxt.game]])
  /\ walk' = CASE nxt.game = "gameInitial" -> Stopped(walk)
               [] nxt.game = "gameReady" -> Started(walk)
               [] OTHER -> walk
  /\ UNCHANGED <<role, queue, phase, started, vel, kicking, torque, risen, history>>

Game == GameUpdate \/ GameExit \/ GameEntry

-----------------------------------------------------------------------------
(* The body machine (BodyFSM2).                                            *)

\* An update that returns e and leaves the walk as w.
Goes(w, e) ==
  /\ walk' = w /\ Returns("body", e)
  /\ UNCHANGED <<role, queue, started, vel, kicking, torque, risen, history>>

\* Mutant of BodyIdle: "sit" is posted on entry only.
BodyIdleOnce ==
  /\ Updates("body", {"bodyIdle"})
  /\ Returns("body", None)
  /\ UNCHANGED <<role, queue, phase, started, legs, torque, risen, history>>

BodyIdle ==
  /\ Updates("body", {"bodyIdle"})
  /\ queue' = Post(queue, "sit")
  /\ Returns("body", None)
  /\ UNCHANGED <<role, phase, started, legs, torque, risen, history>>

\* phase 1: it is their kickoff, the walk is stopped until something happens.
BodyStart ==
  /\ Updates("body", {"bodyStart"})
  /\ \/ role = "goalie" /\ Goes(walk, "goalie")
     \/ role = "player" /\ phase = 0 /\ Goes(walk, "done")
     \/ /\ role = "player" /\ phase = 1
        /\ \E e \in {None, "done"} : Goes(Stopped(walk), e)
  /\ UNCHANGED phase

\* phase 1: the motion machine has been sent to standstill.
BodyStop ==
  /\ Updates("body", {"bodyStop"})
  /\ IF phase = 0 /\ ~walk.active
     THEN phase' = 1 /\ Conclude("body", [nxt EXCEPT !.motion = "standstill"], <<None>>)
     ELSE phase' = phase /\ Returns("body", None)
  /\ UNCHANGED <<role, queue, started, legs, torque, risen, history>>

BodyReady ==
  /\ Updates("body", {"bodyReady"})
  /\ Goes(walk, "done")
  /\ UNCHANGED phase

\* phase 0 waits, 1 walks home, 3 has arrived.  Obstacles nearby add to the
\* commanded velocity in every phase but the first.
BodyReadyMove ==
  /\ Updates("body", {"bodyReadyMove"})
  /\ \/ phase = 0 /\ phase' = 0 /\ Goes(Toward(walk, 0), None)
     \/ \E v \in Velocity, arrived \in BOOLEAN :
          LET w == Toward(IF phase = 0 THEN Started(walk) ELSE walk, v)
          IN IF phase = 3 \/ arrived THEN phase' = 3 /\ Goes(Stopped(w), None)
                                     ELSE phase' = 1 /\ Goes(w, None)

PositionEvents == IF role = "goalie" THEN {"goalie"} ELSE {None, "ballLost", "timeout", "done"}
SearchEvents == {None} \cup IF role = "goalie" THEN {"ballgoalie", "timeoutgoalie"}
                                               ELSE {"ball", "timeout"}
GotoCenterEvents == {None, "ballFound", "done", "timeout"}
ApproachEvents == {None, "timeout", "ballFar", "kick", "walkkick"}
                    \cup IF role = "goalie" THEN {} ELSE {"ballLost"}
ChaseEvents == {None, "ballLost", "timeout", "ballClose", "button"}
                 \cup IF role = "goalie" THEN {"ballFar"} ELSE {}
PositionGoalieEvents(v) == IF v = 0 THEN {"done"} ELSE {None}

\* What a steering state may return while it commands velocity v.
SteerEvents(s, v) ==
  CASE s = "bodyPosition" -> PositionEvents
    [] s = "bodySearch" -> SearchEvents
    [] s = "bodyGotoCenter" -> GotoCenterEvents
    [] s = "bodyApproach" -> ApproachEvents
    [] s = "bodyChase" -> ChaseEvents
    [] s = "bodyPositionGoalie" -> PositionGoalieEvents(v)

\* A goalie in bodyPosition returns before it commands a velocity.
BodySteer ==
  /\ Updates("body", Steering)
  /\ \E v \in Velocity : \E e \in SteerEvents(cur.body, v) :
       Goes(IF e = "goalie" THEN walk ELSE Toward(walk, v), e)
  /\ UNCHANGED phase

\* phase 0 waits for the walk to stop, 1 and 2 for the kick; 3: the walk was
\* not active on entry.
BodyKick ==
  /\ Updates("body", {"bodyKick"})
  /\ UNCHANGED <<role, started, vel, kicking, torque, risen, kicked>>
  /\ \/ \* the escape
        /\ phase = 3
        /\ walk' = Toward(walk, 0) /\ Returns("body", "done")
        /\ UNCHANGED <<phase, queue, gaveUp>>
     \/ \* 10 s are over
        /\ phase # 3
        /\ gaveUp' = TRUE
        /\ Returns("body", "timeout")
        /\ UNCHANGED <<phase, queue, walk>>
     \/ \* still waiting
        /\ phase # 3
        /\ phase = 2 => cur.motion = "kick"
        /\ Returns("body", None)
        /\ UNCHANGED <<phase, queue, walk, gaveUp>>
     \/ /\ phase = 0 /\ ~walk.active
        /\ phase' = 1 /\ queue' = Post(queue, "kick")
        /\ Returns("body", None) /\ UNCHANGED <<walk, gaveUp>>
     \/ /\ phase = 0 /\ ~walk.active
        /\ walk' = Started(walk) /\ Returns("body", "reposition")
        /\ UNCHANGED <<phase, queue, gaveUp>>
     \/ /\ phase = 1
        /\ phase' = 2
        /\ Returns("body", None) /\ UNCHANGED <<queue, walk, gaveUp>>
     \/ /\ phase = 2 /\ cur.motion # "kick"
        /\ walk' = Started(Toward(walk, 0)) /\ Returns("body", "done")
        /\ UNCHANGED <<phase, queue, gaveUp>>

BodyWalkKick ==
  /\ Updates("body", {"bodyWalkKick"})
  /\ \E e \in {None, "done"} : Goes(walk, e)
  /\ UNCHANGED phase

\* Mutant of BodyAnticipate: a goalie that runs out does not say "walk".
BodyAnticipateSilent ==
  /\ Updates("body", {"bodyAnticipate"})
  /\ walk' = Stopped(walk)
  /\ \/ Returns("body", "dive") /\ queue' = Post(queue, "dive")
     \/ Returns("body", "ballClose") /\ UNCHANGED queue
  /\ UNCHANGED <<role, phase, started, vel, kicking, torque, risen, history>>

BodyAnticipate ==
  /\ Updates("body", {"bodyAnticipate"})
  /\ walk' = Stopped(walk)
  /\ \/ Returns("body", None) /\ UNCHANGED queue
     \/ Returns("body", "dive") /\ queue' = Post(queue, "dive")
     \/ Returns("body", "ballClose") /\ queue' = Post(queue, "walk")
  /\ UNCHANGED <<role, phase, started, vel, kicking, torque, risen, history>>

BodyDive ==
  /\ Updates("body", {"bodyDive"})
  /\ \E e \in {None, "timeout"} : Goes(walk, e)
  /\ UNCHANGED phase

BodyExit ==
  /\ Exits("body")
  /\ LET s == cur.body
     IN /\ walk' = IF s \in {"bodyStart", "bodyAnticipate"} THEN Started(walk) ELSE walk
        /\ queue' = IF s = "bodyStop" THEN Post(queue, "walk") ELSE queue
        /\ Exited(IF s = "bodyIdle" THEN [nxt EXCEPT !.motion = "stance"] ELSE nxt)
        /\ gaveUp' = (gaveUp /\ s # "bodyStart")
  /\ UNCHANGED <<role, phase, started, vel, kicking, torque, risen, kicked>>

\* What entering s posts to the motion machine.
Posts(s) == CASE s = "bodyIdle" -> "sit"
              [] s \in {"bodyReady", "bodyReadyMove"} -> "standup"
              [] s = "bodyAnticipate" -> "diveready"
              [] OTHER -> None

\* doWalkKick does nothing while the last walk kick is asked for.  It writes the
\* cells, and a velocity with gaitValid 0: the engine may take it or leave it.
DoWalkKick ==
  /\ walk' = [walk EXCEPT !.kick = TRUE]
  /\ kicking' = (kicking \/ ~walk.kick)
  /\ IF walk.kick THEN vel' = vel ELSE vel' \in {vel, 1}

BodyEntry ==
  /\ Entered("body", nxt)
  /\ queue' = IF Posts(nxt.body) = None THEN queue ELSE Post(queue, Posts(nxt.body))
  /\ CASE nxt.body = "bodyWalkKick" -> DoWalkKick /\ phase' = 0
       [] nxt.body = "bodyStart" ->
            /\ \/ phase' = 0 /\ walk' = walk
               \/ phase' = 1 /\ walk' = Stopped(walk)
            /\ UNCHANGED <<vel, kicking>>
       [] nxt.body = "bodyKick" ->
            /\ phase' = IF walk.active THEN 0 ELSE 3
            /\ walk' = Stopped(walk) /\ UNCHANGED <<vel, kicking>>
       [] nxt.body = "bodyStop" ->
            phase' = 0 /\ walk' = Stopped(Toward(walk, 0)) /\ UNCHANGED <<vel, kicking>>
       [] nxt.body = "bodyAnticipate" ->
            phase' = 0 /\ walk' = Stopped(walk) /\ UNCHANGED <<vel, kicking>>
       [] OTHER -> phase' = 0 /\ UNCHANGED <<walk, vel, kicking>>
  /\ kicked' = (kicked /\ nxt.body # "bodyKick")
  /\ UNCHANGED <<role, started, torque, risen, gaveUp>>

BodyUpdate ==
  \/ BodyIdle \/ BodyStart \/ BodyStop \/ BodyReady \/ BodyReadyMove
  \/ BodySteer \/ BodyKick \/ BodyWalkKick \/ BodyAnticipate \/ BodyDive

Body == BodyUpdate \/ BodyExit \/ BodyEntry

-----------------------------------------------------------------------------
(* The motion machine (Motion).                                            *)

\* The end of an update that returns e: it is queued behind the posted events.
Moves(e) == queue' = <<>> /\ Conclude("motion", nxt, Append(queue, e))

\* relax, standstill and divewait hold the joints; divewait waits for the walk
\* to end but has its walk.update() commented out.
MotionHold ==
  /\ Updates("motion", {"relax", "standstill", "divewait"})
  /\ Moves(None)
  /\ UNCHANGED <<role, phase, started, legs, torque, risen, history>>

MotionSit ==
  /\ Updates("motion", {"sit"})
  /\ \/ walk.active /\ WalkUpdate /\ Moves(None)
     \/ ~walk.active /\ UNCHANGED legs /\ \E e \in {None, "done"} : Moves(e)
  /\ UNCHANGED <<role, phase, started, torque, risen, history>>

MotionStance ==
  /\ Updates("motion", {"stance"})
  /\ \/ Moves(None) /\ UNCHANGED <<legs, risen>>
     \/ /\ Moves("done") /\ risen' = TRUE
        /\ walk' = Started(Reset(walk)) /\ vel' = 0 /\ UNCHANGED kicking
  /\ UNCHANGED <<role, phase, started, torque, history>>

MotionWalk ==
  /\ Updates("motion", {"walk"})
  /\ WalkUpdate /\ Moves(None)
  /\ UNCHANGED <<role, phase, started, torque, risen, history>>

\* diveCenter ends standing, the other two on the ground.
MotionDive ==
  /\ Updates("motion", {"dive"})
  /\ \E e \in {None, "done", "divedone"} : Moves(e)
  /\ UNCHANGED <<role, phase, started, legs, torque, risen, history>>

\* Torque is off for falling_timeout, then on, then the gait reset is awaited.
MotionFalling ==
  /\ Updates("motion", {"falling"})
  /\ \/ Moves(None) /\ UNCHANGED torque
     \/ ~torque /\ torque' = TRUE /\ Moves(None)
     \/ torque /\ Moves("done") /\ UNCHANGED torque
  /\ UNCHANGED <<role, phase, started, legs, risen, history>>

\* 'fail' needs the fall check, which entry has switched off.
MotionStandup ==
  /\ Updates("motion", {"standup"})
  /\ \E e \in {None, "done"} : Moves(e)
  /\ UNCHANGED <<role, phase, started, legs, torque, risen, history>>

\* The walk is brought to its end first; the command is written once, and the
\* kick is over when the DCM shows it done (DcmLink: ImplementsGaitCommand).
MotionKick ==
  /\ Updates("motion", {"kick"})
  /\ \/ ~started /\ walk.active /\ WalkUpdate /\ Moves(None) /\ UNCHANGED started
     \/ ~started /\ ~walk.active /\ started' = TRUE /\ Moves(None) /\ UNCHANGED legs
     \/ started /\ UNCHANGED <<legs, started>> /\ \E e \in {None, "done"} : Moves(e)
  /\ UNCHANGED <<role, phase, torque, risen, history>>

MotionExit ==
  /\ Exits("motion")
  /\ walk' = IF cur.motion = "kick" THEN Started(walk) ELSE walk
  /\ kicked' = (kicked \/ cur.motion = "kick")
  /\ Exited(nxt)
  /\ UNCHANGED <<role, queue, phase, started, vel, kicking, torque, risen, gaveUp>>

\* What entering s does to the walk module and to the velocity in force.
WalkAtEntry(s) ==
  CASE s = "sit" -> Reset(Stopped(walk))
    [] s = "stance" -> [Reset(walk) EXCEPT !.active = FALSE]
    [] s = "walk" -> [walk EXCEPT !.kick = FALSE]
    [] s \in {"standstill", "dive"} -> [walk EXCEPT !.active = FALSE]
    [] s = "falling" -> Reset(walk)
    [] s \in {"divewait", "kick"} -> Stopped(walk)
    [] OTHER -> walk

MotionEntry ==
  /\ Entered("motion", nxt)
  /\ walk' = WalkAtEntry(nxt.motion)
  /\ vel' = IF nxt.motion \in {"sit", "stance", "standstill", "falling"} THEN 0 ELSE vel
  /\ torque' = (torque /\ nxt.motion # "falling")
  /\ started' = FALSE
  /\ UNCHANGED <<role, queue, phase, kicking, risen, history>>

MotionUpdate ==
  \/ MotionHold \/ MotionSit \/ MotionStance \/ MotionWalk
  \/ MotionDive \/ MotionFalling \/ MotionStandup \/ MotionKick

Motion == MotionUpdate \/ MotionExit \/ MotionEntry

\* The walk kick ends in the gait engine and the DCM clears its pending cell.
WalkKickOver ==
  /\ kicking /\ kicking' = FALSE
  /\ UNCHANGED <<role, machines, phase, started, walk, vel, torque, risen, history>>

Next == Game \/ Body \/ Motion \/ WalkKickOver

Spec == Init /\ [][Next]_vars
-----------------------------------------------------------------------------
(* Fairness.  The loop never blocks, so the machines get their turns.  A   *)
(* motion that can come to its end again and again does: its timers run    *)
(* out and the engine, told to stand, stands, and the sensors show it.     *)

Advances ==
  \/ nxt'["motion"] # None
  \/ started' # started \/ torque' # torque
  \/ walk'.kick # walk.kick
  \/ walk'.stop \in {2, 3} /\ walk.stop # walk'.stop
  \/ walk'.active # walk.active /\ vel = 0
  \/ ~walk.active /\ walk.sent # walk'.sent

\* These body states have timeouts of their own.
TimesOut ==
  BodyUpdate /\ cur.body \in {"bodyStart", "bodyKick", "bodyWalkKick"} /\ nxt'["body"] # None

FairSpec ==
  /\ Spec
  /\ WF_robot(Game) /\ WF_robot(Body) /\ WF_robot(Motion)
  /\ SF_robot(MotionUpdate /\ Advances) /\ SF_robot(TimesOut) /\ WF_robot(WalkKickOver)
-----------------------------------------------------------------------------
(* Properties.                                                             *)

\* Type invariant; the queue holds no event twice.
TypeOK ==
  /\ \A m \in Machines : /\ cur[m] \in States(m)
                         /\ nxt[m] \in States(m) \cup {None}
  /\ \A i, j \in DOMAIN queue : queue[i] = queue[j] => i = j
  /\ step = "exit" => nxt[turn] # None
  /\ turn \in Machines /\ step \in {"update", "exit", "entry"}
  /\ phase \in 0 .. 3 /\ started \in BOOLEAN
  /\ walk \in [active : BOOLEAN, stop : 0 .. 3, cmd : Velocity, sent : Velocity,
               kick : BOOLEAN]
  /\ vel \in Velocity /\ kicking \in BOOLEAN /\ torque \in BOOLEAN
  /\ role \in Roles /\ risen \in BOOLEAN /\ kicked \in BOOLEAN /\ gaveUp \in BOOLEAN

TickStart == turn = "game" /\ step = "update"

\* Whatever the body machine was doing, one tick after a change of the game
\* it does what the game wants: a forced state is never lost, neither to the
\* body's own transitions nor to those of the same tick.
BodyAgrees ==
  TickStart =>
    CASE cur.game \in IdleGames -> cur.body = "bodyIdle"
      [] cur.game = "gameReady" -> cur.body \in {"bodyReady", "bodyReadyMove"}
      [] cur.game = "gameSet" -> cur.body = "bodyStop"
      [] OTHER -> cur.body \notin {"bodyIdle", "bodyReady", "bodyReadyMove", "bodyStop"}

\* A player's kick event is never dropped: when bodyKick has posted it, the
\* motion machine is kicking or has kicked, so bodyKick does not take a motion
\* that never began for one that is over.
KickTaken ==
  TickStart /\ role = "player" /\ cur.body = "bodyKick" /\ phase \in {1, 2} => cur.motion = "kick" \/ kicked

\* A robot kicks out of a stand: the walk is over and no velocity is in force,
\* unless an earlier bodyKick has given up and left a stop request behind.
KicksStandingStill ==
  TickStart /\ cur.body = "bodyKick" /\ phase \in {1, 2} /\ cur.motion = "kick" =>
    gaveUp \/ (~walk.active /\ vel = 0)

\* Nothing drives the gait engine of a robot that sits, rests or gets up, unless
\* the body machine has asked for a walk kick that the walk has yet to make.
StillWhenDown ==
  cur.motion \in {"relax", "stance", "standstill", "standup"} => vel = 0 \/ walk.kick

\* A body state that steers finds the walk active, whichever of the many
\* walk.stop() and walk.start() calls came last, unless a bodyKick gave up.
NeverStranded ==
  TickStart /\ cur.body \in Steering /\ cur.motion = "walk" /\ ~walk.active => gaveUp

\* A robot in play is on its feet (false when the game is Hasty), and a goalie
\* that steers is not left in divewait, whose update is blind to it.
OnItsFeet ==
  TickStart => /\ cur.game = "gamePlaying" => cur.motion \notin {"sit", "relax"}
               /\ cur.body \in Steering => cur.motion # "divewait"

\* The end the kick waits for: the walk was started again behind its back.
KickWaits == cur.motion = "kick" /\ ~started /\ walk.active

\* Once the game stays idle the robot sits down for good, wherever it was: it
\* gets up from a dive, lets a kick end, ends its walk.  The one exception is a
\* kick waiting for the end of a walk that nobody stops.
SitsDown ==
  \A g \in IdleGames :
    <>[](cur.game = g) => <>[](cur.motion \in {"sit", "relax"}) \/ <>[]KickWaits

\* The last step is over and a velocity is in force: nothing takes it back.
Runaway == walk.active /\ walk.stop = 3 /\ vel # 0

\* A goalie waits in divewait for the end of a walk it has stopped updating.
HangsInDivewait == cur.motion = "divewait" /\ walk.active

\* Once the game stays in set the robot stands, unless it has run away or hangs
\* in divewait: the only two ways the stop of gameSet fails.
StandsAtSet ==
  <>[](cur.game = "gameSet") =>
    <>[](cur.motion = "standstill") \/ <>[]Runaway \/ <>[]HangsInDivewait

\* gameSet.lua:21, "stop walking and wait for game to start".  Refuted: Runaway
\* and HangsInDivewait happen.
StopsAtSet == <>[](cur.game = "gameSet") => <>[]~walk.active

-----------------------------------------------------------------------------
(* What comments in the code say and the code refutes (README, section 5). *)

\* bodyStart.lua:12, "5 sec max wait before moving": a robot in play does not
\* rest.  Refuted (Hasty): stance acts on a "sit" left from before.
GetsUpToPlay ==
  <>[](cur.game = "gamePlaying") => ~<>[](cur.motion = "relax")

\* dive.lua:58, "The robot should stand still before dive anyway".  Refuted: a
\* goalie's last velocity stays in force through divewait.
DivesFromStill == cur.motion = "dive" => vel = 0

\* falling.lua:19, "relax all the joints while falling", and only then.
\* Refuted: a state forced on falling leaves the torque off.
TorqueOffOnlyFalling == ~torque => cur.motion = "falling"
=============================================================================
