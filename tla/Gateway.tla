-------------------------------- MODULE Gateway --------------------------------
(***************************************************************************)
(* The Dynamixel gateway: a microcontroller between a host and a bus of    *)
(* servos.                                                                 *)
(*                                                                         *)
(*   host library  --requests-->  firmware  --queries, goals-->  servos    *)
(*                 <--replies---            <--answers--------             *)
(*                                                                         *)
(* The firmware keeps a control table the host reads and writes, asks the  *)
(* servos in turn for their positions and sends the goals on; in manual    *)
(* mode it passes the host's packets on to the bus instead.  Its main loop *)
(* is three steps, between which timer and receivers interrupt.  Packets    *)
(* are whole: one that a parser drops (checksum, or it breaks off and a    *)
(* timeout resets the parser) is lost as a whole.                          *)
(*                                                                         *)
(* The bus timer may fire at any time: asking a question does not reset it.*)
(***************************************************************************)
EXTENDS Naturals, Sequences, FiniteSets

CONSTANTS
  Servos,      \* ids of the servos
  SkipId,      \* 255: an unused place of the map
  None,
  N,           \* MAX_NUM_SERVOS
  IdMaps,      \* what the host may write to idMap
  Modes,       \* what the host may write to mode: "manual", "read", "both", "write"
  PassedOn,    \* the servos that the host addresses directly
  MaxCalls,    \* bound: calls of the host library
  MaxHeard     \* bound: answers in the receive buffer of the bus

Places == 0 .. N - 1

ASSUME SizeAssumption == N \in Nat \ {0} /\ MaxCalls \in Nat /\ MaxHeard \in Nat \ {0} /\ None \notin Nat
ASSUME IdAssumption == /\ SkipId \notin Servos /\ None \notin Servos
                       /\ IdMaps \subseteq [Places -> Servos \cup {SkipId}]
                       /\ IdMaps # {} /\ PassedOn \subseteq Servos
ASSUME ModeAssumption == Modes \subseteq {"manual", "read", "both", "write"}

VARIABLES
  mode, state, currServo, idMap,  \* control table
  currPos,   \* control table: the answer each place was last filled from, [id, what]
  remapped,  \* history: places given another servo since they were last filled
  busTimeout,
  pc,        \* main loop: "host", "bus", "send"
  hostRx,    \* packets the firmware has yet to read: [no, op, arg]
  busRx,     \* answers it has yet to read: [id, what, ok]
  toHost,    \* replies on their way to the host: [no, ok]
  asked,     \* questions the servos have yet to answer: [id, what]
  current,   \* places whose servo has been sent what goalPos now says
  calls,     \* number of calls so far
  call,      \* number of the call that waits for its reply, or None
  past       \* history: "wrong" (a call has taken the reply to another for its own),
             \* "behind" (a reply was left over for a later call), "crossed" (manual
             \* mode was left with an answer outstanding)

table == <<mode, state, currServo, idMap, currPos, remapped>>
links == <<hostRx, busRx, toHost, asked, current>>
host  == <<calls, call>>
vars  == <<table, busTimeout, pc, links, host, past>>

Reading == {"read", "both"}     \* FEEDBACK_READ_MASK
Syncing == {"both", "write"}    \* SYNC_WRITE_MASK

\* InitControlTable, whose DEFAULT_MODE reads; or the host has already chosen
\* a map and manual mode.
Init ==
  /\ mode \in {"read", "manual"} /\ state = "idle" /\ currServo = 0
  /\ idMap \in IdMaps /\ remapped = {}
  /\ currPos = [k \in Places |-> [id |-> None, what |-> "none"]]
  /\ busTimeout = FALSE /\ pc = "host"
  /\ hostRx = <<>> /\ busRx = <<>> /\ toHost = <<>> /\ asked = {}
  /\ current = {}
  /\ calls = 0 /\ call = None /\ past = {}

-----------------------------------------------------------------------------
(* The host library.                                                       *)

Request(op, arg) == [no |-> calls + 1, op |-> op, arg |-> arg]

Send(op, arg) ==
  /\ call = None /\ calls < MaxCalls
  /\ calls' = calls + 1
  /\ hostRx' = Append(hostRx, Request(op, arg))
  /\ UNCHANGED <<table, busTimeout, pc, busRx, toHost, asked, current, past>>

\* GetJointAngles and the other reads, SetMode, SetIDs, SetJointAngles: a
\* request to the gateway, whose reply is waited for.
Call ==
  /\ \/ Send("read", None)
     \/ \E a \in Modes : Send("mode", a)
     \/ \E a \in IdMaps : Send("ids", a)
     \/ Send("goal", None)
  /\ call' = calls + 1

\* SyncWrite: a packet for the bus; no reply is waited for.
SyncWriteRaw ==
  /\ \E id \in PassedOn \cup {None} : Send("bus", id)
  /\ UNCHANGED call

\* ReceivePacket: the first reply there is is taken for the answer.
Receive ==
  /\ call # None /\ toHost # <<>>
  /\ past' = past \cup {h \in {"wrong"} : Head(toHost).ok /\ Head(toHost).no # call}
  /\ toHost' = Tail(toHost) /\ call' = None
  /\ UNCHANGED <<table, busTimeout, pc, hostRx, busRx, asked, current, calls>>

\* It gives up: no byte within the timeout.
GiveUp ==
  /\ call # None /\ toHost = <<>>
  /\ call' = None /\ past' = past \cup {"behind"}
  /\ UNCHANGED <<table, busTimeout, pc, links, calls>>

-----------------------------------------------------------------------------
(* The main loop of the firmware.                                          *)

\* A passed-through packet has not been answered, or its answer not been read.
Outstanding == "other" \in {q.what : q \in asked} \cup {busRx[x].what : x \in DOMAIN busRx}

\* Mutant of Reply: the case of a read falls through to that of a write.
ReplyTwice(p, ok) == toHost' = toHost \o <<[no |-> p.no, ok |-> ok], [no |-> p.no, ok |-> ok]>>

Reply(p, ok) == toHost' = Append(toHost, [no |-> p.no, ok |-> ok])

\* A whole packet from the host: the table is read or written, and a reply
\* sent; a packet for the bus is passed on or refused.  A new map leaves the
\* positions where they are, those of the servos the old one named.
ProcessHostPacket(p) ==
  IF p.op = "bus"
  THEN /\ IF mode = "manual"
          THEN /\ asked' = IF p.arg = None THEN asked
                           ELSE asked \cup {[id |-> p.arg, what |-> "other"]}
               /\ UNCHANGED <<toHost, past>>
          ELSE /\ Reply(p, FALSE)
               /\ past' = past \cup {"behind"}
               /\ UNCHANGED asked
       /\ UNCHANGED <<mode, idMap, remapped, current>>
  ELSE /\ Reply(p, TRUE)
       /\ mode' = IF p.op = "mode" THEN p.arg ELSE mode
       /\ idMap' = IF p.op = "ids" THEN p.arg ELSE idMap
       /\ remapped' = remapped \cup {k \in Places : idMap'[k] # idMap[k]}
       /\ current' = IF p.op \in {"goal", "ids"} THEN {} ELSE current
       /\ past' = past \cup {h \in {"crossed"} : mode = "manual" /\ mode' # "manual" /\ Outstanding}
       /\ UNCHANGED asked

\* uart0: every byte clears busTimeout.
HostStep ==
  /\ pc = "host" /\ pc' = "bus"
  /\ IF hostRx = <<>>
     THEN UNCHANGED <<busTimeout, mode, idMap, remapped, hostRx, toHost, asked, current, past>>
     ELSE /\ busTimeout' = FALSE
          /\ hostRx' = Tail(hostRx)
          /\ ProcessHostPacket(Head(hostRx))
  /\ UNCHANGED <<state, currServo, currPos, busRx, host>>

\* Mutant of RightAnswer: whose answer it is is not checked.
AnyAnswer(a) == a.ok

\* The answer comes from the servo that was asked, without an error.
RightAnswer(a) == a.id = idMap[currServo] /\ a.ok

\* rs485: an answer in manual mode resets the round; an answer that is waited
\* for is recorded; a wrong one starts the loop anew, past the timeouts.
BusStep ==
  /\ pc = "bus"
  /\ IF busRx = <<>>
     THEN pc' = "send" /\ UNCHANGED <<busTimeout, state, currServo, currPos, remapped, busRx>>
     ELSE LET a == Head(busRx) IN
          /\ busTimeout' = FALSE /\ busRx' = Tail(busRx)
          /\ \/ /\ mode = "manual"
                /\ state' = "idle" /\ currServo' = 0 /\ pc' = "send"
                /\ UNCHANGED <<currPos, remapped>>
             \/ /\ mode # "manual" /\ state = "waiting" /\ RightAnswer(a)
                /\ currPos' = [currPos EXCEPT ![currServo] = [id |-> a.id, what |-> a.what]]
                /\ remapped' = remapped \ {currServo}
                /\ state' = "idle" /\ pc' = "send"
                /\ UNCHANGED currServo
             \/ /\ mode # "manual" /\ state = "waiting" /\ ~ RightAnswer(a)
                /\ pc' = "host"
                /\ UNCHANGED <<state, currServo, currPos, remapped>>
             \/ /\ mode # "manual" /\ state # "waiting"
                /\ pc' = "send"
                /\ UNCHANGED <<state, currServo, currPos, remapped>>
  /\ UNCHANGED <<mode, idMap, hostRx, toHost, asked, current, host, past>>

\* The places SyncWrite reaches: it stays on the first unused id it meets.
Reached == {k \in Places : \A j \in 0 .. k : idMap[j] # SkipId}

\* Mutant of Turn: the turn of the goals is left out.
TurnOfServos == (currServo + 1) % N

\* Whose turn is next; the last turn, N, is that of the goals.
Turn == IF currServo + 1 >= N + 1 THEN 0 ELSE currServo + 1

\* Mutant of Idle: only the wait for an answer times out.
IdleUnlessPausing == state = "idle" \/ (busTimeout /\ state = "waiting")

\* A timeout ends the wait for an answer and the pause after the goals.
Idle == state = "idle" \/ busTimeout

\* Mutant of StateAfter: in a mode that reads, every turn waits for an answer.
StateAfterReading(turn) ==
  IF mode \in Reading THEN "waiting"
  ELSE IF turn = N /\ mode \in Syncing THEN "pause" ELSE "idle"

StateAfter(turn) ==
  IF turn = N THEN IF mode \in Syncing THEN "pause" ELSE "idle"
  ELSE IF mode \in Reading THEN "waiting" ELSE "idle"

\* The timeout; then the next servo is asked, an unused place like the others
\* (the code compares the place, not the id, with SKIP_ID), or the goals are
\* sent to all.
SendStep ==
  /\ pc = "send" /\ pc' = "host" /\ busTimeout' = FALSE
  /\ IF mode = "manual" \/ ~ Idle
     THEN /\ state' = IF Idle THEN "idle" ELSE state
          /\ UNCHANGED <<currServo, asked, current>>
     ELSE /\ currServo' = Turn /\ state' = StateAfter(Turn)
          /\ current' = IF Turn = N /\ mode \in Syncing THEN current \cup Reached ELSE current
          /\ asked' = IF Turn # N /\ mode \in Reading
                      THEN asked \cup [id : {idMap[Turn]} \cap Servos, what : {"position"}]
                      ELSE asked
  /\ UNCHANGED <<mode, idMap, currPos, remapped, hostRx, busRx, toHost, host, past>>

Main == HostStep \/ BusStep \/ SendStep

-----------------------------------------------------------------------------
(* Timer, servos, and what goes wrong on the lines.                        *)

\* BusTimeout, on an overflow of timer 1.
BusOverflow ==
  /\ ~ busTimeout /\ busTimeout' = TRUE
  /\ UNCHANGED <<table, pc, links, host, past>>

\* A servo answers, at once or late, with an error or without.
Answer(q, ok) ==
  /\ Len(busRx) < MaxHeard
  /\ asked' = asked \ {q}
  /\ busRx' = Append(busRx, [id |-> q.id, what |-> q.what, ok |-> ok])
  /\ UNCHANGED <<table, busTimeout, pc, hostRx, toHost, current, host, past>>

\* A question or its answer is lost.
LoseAnswer(q) ==
  /\ asked' = asked \ {q}
  /\ UNCHANGED <<table, busTimeout, pc, hostRx, busRx, toHost, current, host, past>>

\* A request is lost.
LoseRequest ==
  /\ hostRx # <<>> /\ hostRx' = Tail(hostRx)
  /\ UNCHANGED <<table, busTimeout, pc, busRx, toHost, asked, current, host, past>>

Bus == \E q \in asked : LoseAnswer(q) \/ \E ok \in BOOLEAN : Answer(q, ok)

Next == Call \/ SyncWriteRaw \/ Receive \/ GiveUp \/ Main \/ BusOverflow \/ Bus \/ LoseRequest

Spec == Init /\ [][Next]_vars

\* The loop runs, the timer overflows every 4.1 ms, and a call waits no longer
\* than its timeout.
FairSpec == Spec /\ WF_vars(Main) /\ WF_vars(BusOverflow) /\ WF_vars(Receive \/ GiveUp)

-----------------------------------------------------------------------------
(* Properties.                                                             *)

Messages == {"position", "other"}

TableType ==
  /\ mode \in Modes \cup {"read", "manual"} /\ state \in {"idle", "waiting", "pause"}
  /\ currServo \in 0 .. N /\ (state = "waiting" => currServo \in Places)
  /\ idMap \in IdMaps /\ remapped \subseteq Places
  /\ currPos \in [Places -> [id : Servos \cup {None}, what : Messages \cup {"none"}]]

BusType ==
  /\ asked \subseteq [id : Servos, what : Messages]
  /\ busRx \in Seq([id : Servos, what : Messages, ok : BOOLEAN])
  /\ current \subseteq Places

HostType ==
  /\ toHost \in Seq([no : 1 .. MaxCalls, ok : BOOLEAN])
  /\ calls \in 0 .. MaxCalls /\ call \in (1 .. MaxCalls) \cup {None}
  /\ past \subseteq {"wrong", "behind", "crossed"}

\* The types.  The place of the goals, N, waits for no answer: no answer is
\* stored past the end of the table.
TypeOK == /\ TableType /\ BusType /\ HostType
          /\ busTimeout \in BOOLEAN /\ pc \in {"host", "bus", "send"}

\* Place k holds an answer.
Filled(k) == currPos[k].what # "none"

\* What the table gives for a place was reported by the servo that the map names
\* there, unless the host has given the place another servo since it was filled;
\* however late answers come, and however often the host changes the mode or the map.
\* And it is a position: only an answer to a packet that was passed on can be
\* taken for one, and only when manual mode was left before it came.
PositionsAreReal ==
  \A k \in Places : Filled(k) =>
    /\ currPos[k].id = idMap[k] \/ k \in remapped
    /\ currPos[k].what = "position" \/ "crossed" \in past

\* Not so: the position in the table is that of the servo that the map names.  A
\* new map leaves the old servos' positions under the new ids (main.c:403).
PositionsFollowMap == \A k \in Places : Filled(k) => currPos[k].id = idMap[k]

\* A call that succeeds has got its own reply.  Nothing but their order ties
\* replies to calls, so this ends with the first call that gave up and with
\* the first packet for the bus that was refused.
OwnReply == "wrong" \in past => "behind" \in past

\* When the host has chosen a mode that reads, the round goes on for ever and
\* reaches every servo of the map, whatever is lost and whichever servo is dead.
EveryServoPolled ==
  <>[](mode \in Reading) =>
    \A k \in Places : []<>(idMap[k] = SkipId \/ (state = "waiting" /\ currServo = k))

\* Not so: "set any unused ids to 255, so that they are not queried"
\* (ControlTable.h:19).  The place is compared with SKIP_ID, not the id (main.c:578).
UnusedNotQueried ==
  [][state # "waiting" /\ state' = "waiting" => idMap'[currServo'] # SkipId]_vars

\* When it has chosen a mode that writes, the last goals reach every servo up
\* to the first unused place of the map.
GoalsSent ==
  <>[](mode \in Syncing) => <>[](Reached \subseteq current)
=============================================================================
