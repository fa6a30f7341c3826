----------------------------- MODULE GameControl -----------------------------
(***************************************************************************)
(* How the robot learns the state of the game.                             *)
(*                                                                         *)
(*   game controller --UDP--> receiver --> OPGameControl.update --> gcm    *)
(*                                                                         *)
(* The cognition process calls update() for every image.  receive() drains *)
(* the socket and keeps the newest packet with the right header; update()  *)
(* follows it while it is less than 10 s old and otherwise, after a while, *)
(* lets a button advance the state.  The player process reads the state    *)
(* and the penalty in the shared segment gcm; both processes set the state *)
(* to 0 (initial) there when they load gcm.                                *)
(*                                                                         *)
(* Kickoff, half, scores and times take the same path and are left out.    *)
(***************************************************************************)
EXTENDS Naturals, Sequences, SequencesExt

CONSTANTS
  Packets,      \* what our controller may announce: the state, and our penalty
  Other, Junk,  \* a packet of another game; a datagram without the header
  Strays,       \* which of these two come in on the port
  NoPacket,     \* nothing received, or nothing held back
  Levels,       \* what the chest button may read
  Limit,        \* the 10 s, in ticks of the clock
  Room,         \* bound: datagrams in the socket
  MaxRestarts   \* bound: restarts of the two processes

GameState == 0 .. 4     \* initial, ready, set, playing, finished
Playing == 3

ASSUME PacketAssumption == Packets \subseteq [state : GameState, pen : BOOLEAN]
ASSUME StrayAssumption ==
  /\ Strays \subseteq {Other, Junk} /\ Other # Junk
  /\ {Other, Junk, NoPacket} \cap Packets = {} /\ NoPacket \notin {Other, Junk}
ASSUME LevelAssumption == Levels \subseteq {0, 1}
ASSUME BoundAssumption ==
  Limit \in Nat \ {0} /\ Room \in Nat \ {0} /\ MaxRestarts \in Nat

VARIABLES
  ctl,        \* what the controller announces
  late,       \* a packet the network holds back
  sock,       \* datagrams in the socket, oldest first
  pkt,        \* gameControlData: the newest packet with the header
  rcvd,       \* time since recvTime, up to Limit
  upd,        \* time since lastUpdate, up to Limit + 1
  gameState,  \* gameState
  pen,        \* teamPenalty[playerID] > 0
  pressed,    \* buttonPressed
  gcm,        \* shared: game.state, game.penalty
  paused,     \* shared: game.paused
  button,     \* the chest button
  mode,       \* what the last update() did; "start" before the first one
  heard,      \* history: time since update() took a packet of ours
  fooled,     \* history: since then the port received a datagram without header
  seen,       \* history: the button at the last update()
  restarts    \* history: restarts so far

network  == <<ctl, late, sock>>
receiver == <<pkt, rcvd>>
control  == <<upd, gameState, pen, pressed>>
shm      == <<gcm, paused>>
history  == <<mode, heard, fooled, seen>>      \* of the updates
vars     == <<network, receiver, control, shm, button, history, restarts>>

Init ==
  /\ ctl \in Packets /\ late = NoPacket /\ sock = <<>>
  /\ pkt = NoPacket /\ rcvd = 0
  /\ upd = 0 /\ gameState = 0 /\ pen = FALSE /\ pressed = 0
  /\ gcm = [state |-> 0, pen |-> FALSE] /\ paused \in BOOLEAN
  /\ button = 0
  /\ mode = "start" /\ heard = 0 /\ fooled = FALSE /\ seen = 0
  /\ restarts = 0

Min2(a, b) == IF a < b THEN a ELSE b

-----------------------------------------------------------------------------
(* The receiver and update().                                              *)

\* Where in the socket the datagrams with the header are.
WithHeader == {i \in DOMAIN sock : sock[i] # Junk}

\* receive(): every datagram is read, the last with the header is kept.
Newest == IF WithHeader = {} THEN pkt ELSE sock[Max(WithHeader)]

\* recvTime is set for every datagram, with or without the header.
Age == IF sock = <<>> THEN rcvd ELSE 0

\* Mutant of Followed: a packet is good for ever.
FollowedForever(p, age) == p \in Packets

\* update() follows p: it is younger than 10 s and lists our team.
Followed(p, age) == p \in Packets /\ age < Limit

\* No update from a packet for more than 10 s: the buttons count.
Quiet(age) == age > Limit

\* Mutant of UpdateShm: what is thought to be there already is not written.
UpdateShmOnChange(s, p) ==
  gcm' = IF s = gameState /\ p = pen THEN gcm ELSE [state |-> s, pen |-> p]
UpdateShm(s, p) == gcm' = [state |-> s, pen |-> p]

\* A packet of ours is followed.
Follow ==
  /\ Followed(Newest, Age)
  /\ upd' = 0
  /\ gameState' = Newest.state /\ pen' = Newest.pen
  /\ UpdateShm(Newest.state, Newest.pen)
  /\ mode' = IF WithHeader # {} THEN "fresh" ELSE "kept"
  /\ UNCHANGED pressed

\* The button was down and is up again.
Released == paused = FALSE /\ button = 0 /\ pressed = 1

\* Mutant of Advanced: playing is not the last state.
AdvancedPast == IF Released THEN gameState + 1 ELSE gameState
Advanced == IF Released /\ gameState < Playing THEN gameState + 1 ELSE gameState

\* In playing the button toggles the penalty.
Buttons ==
  /\ ~Followed(Newest, Age) /\ Quiet(upd)
  /\ gameState' = Advanced
  /\ pen' = IF Released /\ gameState = Playing THEN ~pen ELSE pen
  /\ UpdateShm(gameState', pen')
  /\ pressed' = IF paused THEN pressed ELSE button
  /\ mode' = "buttons"
  /\ UNCHANGED upd

\* Neither: nothing is changed.  The shared segment is written the first time
\* only, when count comes up to updateCount.
Silent ==
  /\ ~Followed(Newest, Age) /\ ~Quiet(upd)
  /\ mode' = "silent"
  /\ IF mode = "start" THEN UpdateShm(gameState, pen) ELSE UNCHANGED gcm
  /\ UNCHANGED control

\* The packet taken from the socket is ours: a packet of another game behind it
\* in the same socket would have hidden it.
TakesOurs == WithHeader # {} /\ Newest \in Packets

Update ==
  /\ pkt' = Newest /\ rcvd' = Age /\ sock' = <<>>
  /\ Follow \/ Buttons \/ Silent
  /\ heard' = IF TakesOurs THEN 0 ELSE heard
  /\ fooled' = IF TakesOurs THEN FALSE ELSE fooled \/ \E i \in DOMAIN sock : sock[i] = Junk
  /\ seen' = button
  /\ UNCHANGED <<ctl, late, paused, button, restarts>>

-----------------------------------------------------------------------------
(* Clock, button, processes, network.                                      *)

Tick ==
  /\ rcvd' = Min2(rcvd + 1, Limit)
  /\ upd' = Min2(upd + 1, Limit + 1)
  /\ heard' = Min2(heard + 1, 2 * Limit + 1)
  /\ UNCHANGED <<network, pkt, gameState, pen, pressed, shm, button, mode, fooled, seen,
                 restarts>>

Press(l) ==
  /\ l # button /\ button' = l
  /\ UNCHANGED <<network, receiver, control, shm, history, restarts>>

\* The player process starts: gcm is loaded, the main loop is not yet reached.
PlayerRestart ==
  /\ restarts < MaxRestarts /\ restarts' = restarts + 1
  /\ gcm' = [gcm EXCEPT !.state = 0] /\ paused' = TRUE
  /\ UNCHANGED <<network, receiver, control, button, history>>

\* Its first update in playing mode.
Unpause ==
  /\ paused /\ paused' = FALSE
  /\ UNCHANGED <<network, receiver, control, gcm, button, history, restarts>>

\* The cognition process starts again; its socket is new, the segment is not.
CognitionRestart ==
  /\ restarts < MaxRestarts /\ restarts' = restarts + 1
  /\ sock' = <<>> /\ pkt' = NoPacket /\ rcvd' = 0
  /\ upd' = 0 /\ gameState' = 0 /\ pen' = FALSE /\ pressed' = 0
  /\ gcm' = [gcm EXCEPT !.state = 0]
  /\ mode' = "start" /\ heard' = 0 /\ fooled' = FALSE /\ seen' = 0
  /\ UNCHANGED <<ctl, late, paused, button>>

Announce(p) ==
  /\ p # ctl /\ ctl' = p
  /\ UNCHANGED <<late, sock, receiver, control, shm, button, history, restarts>>

Arrives(d) == Len(sock) < Room /\ sock' = Append(sock, d)

\* The controller sends what it announces; a packet that is lost is one that
\* is never sent.
SendPacket ==
  /\ Arrives(ctl)
  /\ UNCHANGED <<ctl, late, receiver, control, shm, button, history, restarts>>

\* The network holds a packet back and lets it go behind newer ones.
HoldBack ==
  /\ late = NoPacket /\ late' = ctl
  /\ UNCHANGED <<ctl, sock, receiver, control, shm, button, history, restarts>>

LetGo ==
  /\ late # NoPacket /\ Arrives(late) /\ late' = NoPacket
  /\ UNCHANGED <<ctl, receiver, control, shm, button, history, restarts>>

Stray(d) ==
  /\ Arrives(d)
  /\ UNCHANGED <<ctl, late, receiver, control, shm, button, history, restarts>>

Environment ==
  \/ Tick \/ SendPacket \/ HoldBack \/ LetGo
  \/ \E p \in Packets : Announce(p)
  \/ \E d \in Strays : Stray(d)
  \/ \E l \in Levels : Press(l)

Next == Update \/ PlayerRestart \/ Unpause \/ CognitionRestart \/ Environment

Spec == Init /\ [][Next]_vars

\* The cognition loop runs on; the controller and the network owe nothing.
FairSpec == Spec /\ WF_vars(Update)
-----------------------------------------------------------------------------
(* Properties.                                                             *)

TypeOK ==
  /\ ctl \in Packets /\ late \in Packets \cup {NoPacket}
  /\ sock \in BoundedSeq(Packets \cup {Other, Junk}, Room)
  /\ pkt \in Packets \cup {Other, NoPacket}
  /\ rcvd \in 0 .. Limit /\ upd \in 0 .. Limit + 1
  /\ gameState \in GameState /\ pen \in BOOLEAN /\ pressed \in Levels \cup {0}
  /\ gcm \in [state : GameState, pen : BOOLEAN] /\ paused \in BOOLEAN
  /\ button \in Levels \cup {0} /\ seen \in Levels \cup {0}
  /\ mode \in {"start", "fresh", "kept", "buttons", "silent"}
  /\ heard \in 0 .. 2 * Limit + 1 /\ fooled \in BOOLEAN
  /\ restarts \in 0 .. MaxRestarts

\* The buttons have no say before the controller has been silent for 10 s,
\* whatever was lost, late or sent by others, and across restarts.
ButtonsWait == mode' = "buttons" => heard > Limit

\* A packet is followed for less than 10 s after it came - unless datagrams
\* without the header, which set recvTime as well, have kept it alive.
KeptFresh == mode' = "kept" => heard < Limit \/ fooled'

\* After 20 s of silence the buttons do have a say.  (Not after 10: lastUpdate
\* is set anew as long as the last packet is followed.)
ButtonsInTheEnd == heard > 2 * Limit => mode' \in {"buttons", "fresh"} \/ fooled'

\* Every update judges the silence of the controller rightly, although no time
\* stamp it looks at is that of the last packet: all three hold of it.
SilenceJudged == [][Update => ButtonsWait /\ KeptFresh /\ ButtonsInTheEnd]_vars

\* Once the controller settles on an announcement and is heard again and again,
\* with no silence long enough for the buttons, the player reads just that:
\* packets of other games, late packets and restarts leave no trace.
FollowsController ==
  \A p \in Packets :
    /\ <>[](ctl = p)
    /\ []<>(mode = "fresh")
    /\ <>[](mode # "buttons")
    => <>[](gcm = p)

\* OPGameControl.lua:195: "advance state when button is released".  Refuted:
\* buttonPressed is kept while packets come, and counts as a release when they
\* stop, though the button has long been up.
AdvancesOnRelease ==
  [][Update /\ mode' = "buttons" /\ gameState' # gameState => seen = 1]_vars
=============================================================================
