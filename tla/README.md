# UIKidCM: a verification development

TLA+ models of the control software of a RoboCup humanoid (`src/`): the processes
that run on the robot, the protocols between them, and the state machines that
decide what the robot does.  Every definition is translated from the source; the
file and the lines of each are in `PROJECT.json` under `map`.

## 1. The system

Three operating-system processes share memory segments; a fourth party, the DSP
board, hangs on a serial line, and a fifth, the game controller, on the network.
On robots with a servo bus, microcontrollers stand where the DSP is: the CM boards
and the Dynamixel gateway.

```
 game controller --UDP--> OPGameControl ---gcm---> player process  (run_main_op.lua)
                                                   GameFSM > BodyFSM > HeadFSM > Motion, every 5 ms
 other robots <--UDP--> Comm / Team ----wcm------> |   ^
 camera --> cognition process (run_dlcognition) ---+   |  dcmState, dcmParameter, dcmSensor
            vision, World, Team, GameControl           v  (shared memory, no locks)
                                              DCM process (run_dldcm.lua, OPCommManager, luaDspCode)
                                                   |  one StateSwap packet per cycle, RS232
                                                   v
                                              DSP board: gait engine, head, IMU, odometry

 on other robots:
 host library (DynamixelGateway.cc) --UART--> gateway (Atmel/main.c) --rs485.c--> servos
```

### Components

| component | state it keeps | operations | what is hard | what makes it correct |
|---|---|---|---|---|
| **Player <-> DCM command path** (`OPBody`/`dcm.lua`, `OPCommManager.lua`, motion states `falling`, `standup`, `BasicKick`, `BasicWalk`) | command cells, pending cells, `gaitID` in shared memory; `in`, `out` of the DSP thread | write a command, poll; `pass_state`, `stateCtrl`, `paraCtrl`, `receive_data` | two processes, no locks, a request and its parameter in separate cells, timeouts | a command is begun at most once, with its own parameter; "over" is reported only when it is; nobody polls forever |
| **DSP link** (`luaDspCode.cpp`) | static `packetBuffer`, `uiNumReceived`, `out` | frame, parse, check, copy; timeout after 200 ms | lost and altered bytes, parser state that outlives a cycle, replies that answer an earlier request | a whole reply is delivered unchanged; the parser finds its way back after noise |
| **State machine engine** (`fsm.lua`) | current, previous and next state, queued events | `add_event`, `set_state`, `update` | events dropped when a state is forced; transitions forced from inside entry and exit | an event is acted on in the state it was meant for |
| **GameFSM / BodyFSM / HeadFSM / Motion** | one machine each; `walk.active`, stop requests, kick and sit state | one `update` each per tick, in that order; forced states between them | cross-machine `set_state`, order inside a tick, events raised for a state that is gone | a robot that must not move comes to rest; a kick that was begun ends; head and body follow the game |
| **Game control** (`OPGameControl.lua`, `luaOPGameControlReceiver.cc`) | latest packet, game state, penalties, kickoff, buttons | `receive`, `update`; loading `gcm` | other games and junk on the port, late packets, one time stamp for all of them, two processes that write one segment | the game state followed is the controller's; buttons only when it is silent |
| **Team** (`TeamBasic.lua`, `Comm`) | teammates' last messages and their age, own role | send and receive state, `update` the role | lost and late messages, robots that decide at once, crashes and penalties | one attacker, one defender, in the end |
| **Message receive queue** (`luaComm.cpp`) | `recvQueue` bounded by `maxQueueSize` | `receive`, `size`, `send` | bounded queue, drop the oldest | order kept, newest kept |
| **Serialisation and debug broadcast** (`serialization.lua`, `Broadcast.lua`) | the partly received image | split into packets, reassemble | lost and reordered parts | what is shown is what was sent |
| **Shared memory** (`luashm.cpp`, `util.lua`, `*cm.lua`) | segments by name | create (remove, then create), open, set, get | a creator that restarts leaves readers on the old segment; vectors are copied element by element without a lock | reader and writer map the same segment; a vector in use is not older or more mixed than the writer made it |
| **World model** (`World.lua`, `PoseFilter.lua`, filters) | particles, ball filter, times | predict, correct, resample | floating point | outside a model checker's reach |
| **Connected regions** (`ConnectRegions.cpp`) | labels, equivalence table | scan, merge, flatten, measure, sort | unions that build on one another, boundary tests | the regions returned are the connected sets of pixels |
| **Vision and DL detection** | image, detections | detection pipeline | numeric | outside a model checker's reach |
| **Camera** (`camera.cc`) | V4L2 buffers | grab, query | ring of driver buffers | no buffer lost |
| **Kinematics, Velocity, Walk trajectory** | poses | numeric | numeric | outside a model checker's reach |
| **Servo bus port** (`CBUF.h`, `rs485.c`) | two ring buffers, UART registers, direction of the bus | `putchar`, `putstrn`, `getchar`; three interrupt handlers | handlers between any two accesses of the main loop | no byte lost, repeated or cut off while there is room; the bus is given back |
| **Dynamixel gateway** (`DynamixelGateway/Atmel/main.c`, `Host/DynamixelGateway.cc`) | control table, place in the round, bus timeout | the host's calls; ask a servo, record the answer, send the goals, pass packets on | late and lost answers, modes that change in the middle of a round, replies without a number | a position is the servo's own; a call gets its own reply; the round never stops |
| **Other firmware, host driver** (`CM730`, `HPCommManager.lua`) | - | polling loops | - | - |

Vendored code (Lua itself, Webots controllers, the GameController binaries), MATLAB
tools and tests are not part of the development.

The OPCommManager that talks to the DSP never fills `sensor.button`, so the chest
button of that robot reads 0; the button logic is live with `HPCommManager.lua` and
`OPCommManager_darwin.lua`, which do, and `GameControl` lets it read 0 and 1.

## 2. Modules

| module | models | abstraction it makes |
|---|---|---|
| `GaitCommand` | the promise of the command path: begun at most once per request, a waiting player is told in the end | abstract specification |
| `DcmLink` | player, DCM process, line and DSP | one step per access to a shared cell; the DSP as the code relies on it |
| `DcmLink_proofs` | theorems about `DcmLink` | - |
| `DspParser` | `CompressPacket`, `PacketReconstrct`, `PacketInterprete` and the read loop | short payloads; the static buffer is a sequence |
| `MCDspParser` | payloads and noise for TLC | - |
| `DspParser_proofs` | theorems about `DspParser` and the codec | - |
| `RobotTables` | the transition tables of the game, body and motion machines | names only |
| `RobotFsm` | `fsm.update` and the three machines with the walk module between them | times and sight are left open |
| `RobotFsm_proofs` | theorems about `RobotFsm` and its tables | - |
| `GameControl` | receiver, `OPGameControl.update`, the shared game state, restarts | a packet is the state and our penalty |
| `MCGameControl` | two announcements for TLC | - |
| `TeamRoles` | `TeamBasic.update` on every robot, the radio between them | ETA and distance are small numbers |
| `Cognition_proofs` | theorems about `GameControl` and `TeamRoles` | - |
| `Shm` | the DCM's segments: removed, created, opened, mapped; one vector copied element by element; either process killed and restarted | a command's number is its value |
| `Shm_proofs` | theorems about `Shm` | - |
| `CircularBuffer` | `CBUF.h` | an index is a number below `IndexRange` |
| `Rs485Port` | `rs485.c`: main loop, three interrupt handlers, transmitter | packets are short; baud rate and delays left out |
| `MCRs485Port` | two packets for TLC | - |
| `Rs485Port_proofs` | theorems about `Rs485Port` and `CircularBuffer` | - |
| `Gateway` | firmware main loop and host library of the Dynamixel gateway | packets are whole; of the table, mode, map, round and positions |
| `MCGateway` | two maps for TLC | - |
| `Gateway_proofs` | theorems about `Gateway` | - |
| `ConnectRegions` | `ConnectRegions.cpp`, `RegionProps.cpp` | the image is read as it is scanned |
| `MCConnectRegions` | image sizes for TLC | - |
| `ConnectRegions_proofs` | theorems about `ConnectRegions` | - |

How they meet in the code: `GameControl` writes the game state that `RobotFsm` reads
(there any game state may be told at any tick); `RobotFsm` commands kicks and
stand-ups through the cells of `DcmLink` (there any request may come at any
time, here only the walk kick's cells appear); `DcmLink` calls `DspParser` for
each reply (there a reply arrives, is late or is lost; the parser shows what a
fault on the line can do to it); the cells of `DcmLink` live in the segments of `Shm` (there
the same DCM runs throughout; here it may be restarted at any time); the bus of
`Gateway` is a `Rs485Port` (there a packet arrives whole or not at all, here the bytes are
followed).  Each module leaves open what the other one decides, so
none of them assumes what another has to show.

### DcmLink

`update()` of the DCM process is `pass_state`, `stateCtrl` (two loops), `paraCtrl`,
the DSP thread, `receive_data`; the variable `pc` is the place in it and `todo` the cells
a loop has yet to touch (the Lua tables give no order).  The player's actions
are the writes and polls of a motion state: `SetGaitID`, `Issue`, `ReadCommand`,
`ReadPending`; `Abandon` is a motion state forced away by another machine.
`DspTake` and `DspFinish` are the external DSP; `LoseRequest` and `LoseReply` the
line.  `tcflush` drops the replies that have come, a reply that comes after it
answers an older request, and nothing in a packet tells.

### DspParser

`buf` is `packetBuffer[0 .. uiNumReceived-1]`; `Collect` has one case per branch of
`PacketReconstrct`.  A cycle begins with `StartCycle` (`tcflush`, the request goes
out, the reply is on the wire), takes bytes with `ReceiveByte` and ends with
`EndCycle`, complete or by timeout; nothing resets `buf` in between.

### RobotFsm

`turn` and `step` walk through one tick: each machine's `update`, and on a change
`exit` and `entry`.  `DoWalkKick` is all of `doWalkKick`: it asks for the walk kick and sets a velocity of 0.04, both
with `gaitValid` 0, under which the engine may take that velocity or leave it.  `Post` is `add_event`; an event that is queued already is not queued
twice, which changes nothing, since `update` stops at the first event that has
a transition.  `walk.stop = 3` is stopRequest 2 with the last step over, the
point at which `BasicWalk.update` returns before it sends a velocity.  Sensors lag:
`vel` may be 0 for a while before the walk notices.  Timeouts and everything a
robot sees are free choices of the state's update.  `role` is the robot's and never changes: a
run looks at players, goalies or both.

### GameControl

`rcvd` is the time since `recvTime`, which any datagram sets; `upd` the time
since `lastUpdate`.  An `Update` drains the socket and follows the packet,
listens to the buttons, or does neither.  Loading `gcm` (`PlayerRestart`,
`CognitionRestart`) sets the shared state to 0 under the other process.

### TeamRoles

A tick is one `TeamUpdate` of every running robot, in any order: broadcast, read what
came in, choose (the names begin with Team where `GameControl`, proved about in the same
module, has them too).  `view[r][s]` is r's `states[s]` with its age, `air[s][r]` the
message on its way.  `Counts`, `Eta`, `Ddefend`, `Attacker` and `Defender` are the
loops of `update()`, ties included: `min` takes the first of the smallest, the
defender's loop with `<=` the last.  Own state is exact, a message rounded.

### Shm

`named[s]` is what the name of segment s stands for: the number of the DCM start that
created it.  `Prepare` is `shm_init` in its steps, `shm.destroy`, `shm.new` and the keys
of one segment after the other; `Open` and `Bind` are the player's `dcm.lua`, whose
accessors exist only for the keys that were there when it was loaded.  A removed
segment keeps its memory: `mapped` goes on pointing at the old one, and what
the player writes there reaches nobody.  `Copy` is `paraCtrl` and `Write`
`set_para_velocity`, both one element at a time; `Pass` hands the copy to the DSP.
Between the keys and the first copy comes `TestData`, the zeros of `test_data`, element by element: a player that
has bound by then may have a command overwritten, all of it or in part.  The history `heard` says whether the
command under way was begun in a cycle (`Running`), after all that; `torn`, that the vector in the segment
may be mixed, by a player's end or by those zeros.

### CircularBuffer and Rs485Port

A push and a pop of the main loop are two steps each, because an interrupt may come
between the access to the entry and the step of the index.  Which of the two
comes first the language does not say; a build has chosen for either, and `entryFirst`, one of `Builds`, is its choice:
what is checked and proved is so for every build.  `early` notes the bytes that the handler of an index-first build
takes before they are stored.  A handler is one step, and
the main loop goes on only when none is pending.  `udr` and `shift` are the UART's
registers; `Load` and `ShiftOut` are the hardware.  The UDRE handler of a byte
is taken to run before the byte ahead of it has left the shift register (10 us at
1 Mbaud; the handlers are a few instructions and one delay of 3 us).

### Gateway

`HostStep`, `BusStep` and `SendStep` are the three parts of the main loop; `BusOverflow`
is the timer's callback, and may come at any time, since a question sent does not reset
the timer (`main.c:540` clears it only with the timeout itself, `:497` with a byte
received).  The bus holds questions (`asked`) and answers (`busRx`), each with the
servo it belongs to, which is what the properties compare; the firmware sees the id only.
`Receive` takes the first reply there is, as `ReceivePacket` does.  An entry of `currPos` is what was stored there with
the servo it came from; a write of the map leaves it (`main.c:403`), and `remapped` notes the places whose servo is
another one since.

### ConnectRegions

`Scan` is one pixel, coloured or not, at `col` and `row` (i and j of the two loops):
TLC goes through every image of the given
shapes.  An image that `label_array` cannot hold (`Refused`; `NMax` is 256 in the code) is turned down before that.
`Neighbour` and `Looked` are the four tests, `Merged` the loop over the
labels found; `Return` sorts, regions of equal area in any order.  `TraverseLinks` and `RemoveGaps` work in place, in ascending order, and are
written so: an entry below the current one has its final value.

## 3. Runs

| run | checks | states |
|---|---|---|
| `link_one` | one command asked for up to three times, losses, timeouts, late replies: `AtMostOnce`, `DoneIsTrue`, `RightGait`, refinement of `GaitCommand` (`ImplementsGaitCommand`), which includes that a player who waits is told | 507,987 |
| `link_race` | refutes `CompletedWasExecuted` | - |
| `parser_fault` | one byte lost or altered anywhere: `WholeReplyDelivered`, `RecoversUnlessWedged` | 10,293 |
| `fsm_hasty` | a player or a goalie whose game changes at any tick: `BodyAgrees`, `NeverStranded`, `KicksStandingStill` | 902,118 |
| `fsm_match` | a player or a goalie whose game changes when the last change is through: `KickTaken`, `StillWhenDown`, `OnItsFeet`, `SitsDown`, `StandsAtSet` | 652,446 |
| `game_follow` | strays, late packets, restarts: `SilenceJudged` (the buttons wait for 10 s of silence, a packet is followed only while fresh, and the buttons get their say after 20 s), `FollowsController` | 854,280 |
| `team_roles` | three field players, one thing that goes wrong: `RolesSettle`, in the end the robots agree (`Agreed`) on one that attacks and, if two are available, one that defends | 541,917 |
| `shm` | both processes killed and restarted at any point, zeros stored at the start: `OneStart`, `NoOldElement`, `MixedOnlyByOverlap`, `LastCommandPassed` | 286,276 |
| `uart_stream` | entries or indices first, two packets out, four bytes in, interrupts anywhere: `BytesInOrder` (`SentInOrder` and `HeardInOrder`), `NoByteForgotten`, `DrivenWhileSending`, `BusReleased` | 944,124 |
| `gateway` | calls, raw packets, maps that give a place another servo, losses, late answers, timeouts: `PositionsAreReal`, `OwnReply`, `EveryServoPolled`, `GoalsSent` | 825,316 |
| `regions` | every image of 5x3 and 3x3, and one too wide: `RootsAreRegions`, `RegionsReturned` | 147,387 |
| `regions_wide` | refutes `EightConnected` | - |

Every passing run's module has its type invariant checked in one of them.  Deadlock
is checked wherever the system goes on for ever; it is not in `shm` and `uart_stream`,
whose bounds leave both processes dead or the port idle, and in `regions`, an
algorithm that ends.

### Bounds, and why they are enough

- `DcmLink`: three requests let an old request, its reply and a new request
  meet; two late replies let a reply be late by more than one cycle.  Commands share
  little but the packet, and what the runs check on one command the theorems show for any number of them.
- `DspParser`: payloads are two or three bytes long where the DSP's is longer; the
  parser looks only at the length byte and at the header bytes, and the payloads
  have 255 and 254 in every place that matters (at the end, doubled, as a
  header).  One fault per behaviour: a second one is another first fault once
  the parser has recovered, and if it has not it is wedged for good.
  `NoiseBytes` are the lengths no frame has (0, 1) and one too long.
- `RobotFsm` has no bounds: all its data is finite.  `Hasty` widens when the game may
  change, and is checked for safety only.
- `GameControl`: `Limit = 1` tick for 10 s still tells "younger", "10 s" and
  "over" apart (ages 0, 1, 2), and silences of once and twice that; two datagrams in
  the socket let another game's packet, or junk, come behind ours in one update.  One
  restart: a restart resets everything it touches, so the next begins from a
  state the first could have found.
- `TeamRoles`: three field players are all that the loops reach.  One change (a
  move, a loss of any subset of one broadcast, a penalty, a crash, after which the robot
  may or may not come back) at any moment of a settling that starts from
  arbitrary ETAs; two ETAs, one of which is not representable in a message
  (`Unit = 2`), so that rounding happens in both directions.
- `Shm`: two segments are a first and a last one, of one start or of two; two elements
  can be mixed; two starts of each process are one restart, and two commands an old
  one and a new one.  A player may come at any moment, also while zeros are stored.  The theorems have no bounds.
- `Rs485Port`: four entries with four index values, the proportion of the CM boards
  (256 and 256), and two packets of three bytes overfill them when the second is
  written before the first has gone; the indices wrap.  Four bytes heard overfill
  the other buffer.  Of the four builds the run takes the two that order push and pop alike.  The theorems hold for all
  four, every size, and for the gateway's 128 entries
  with 256 index values.
- `Gateway`: two servos, two maps (the second gives the first place another servo and leaves the
  other unused), three modes and two calls: a mode or a map changes while a question of the round or a raw packet is unanswered.
  `MaxHeard = 1` answer waits at a time; the questions that wait are not bounded.
  A third call would find what two can leave behind.
- `ConnectRegions`: 5x3 is the smallest wide image in which two columns lie right of column n-1 and
  labels are merged in chains; 3x3 is square; 6x2 is refused when `NMax` is 5.

### Fairness

- `DcmLink`: both processes loop for ever; a polling state is updated every tick;
  the DSP ends every gait.  The line owes nothing: a waiting player is told even when every
  packet is lost, because a timeout reads as "nothing pending".
- `DspParser`: the cycle goes on; the select returns after 200 ms.
- `RobotFsm`: the loop goes on (weak fairness of each machine's step).  Strong
  fairness of a motion that can advance and of three body timeouts: their
  clocks run in every tick and are not reset while the state lasts.  A walk
  kick's cells are cleared in the end, which is what `DcmLink` shows.
- `GameControl`: the cognition loop runs.  Controller and network owe nothing;
  `FollowsController` has what it needs of them as its premise.
- `Shm`: a process that is alive runs.  Whether one is killed or started is nobody's duty.
- `Rs485Port`: the processor runs and serves its interrupts, the baud clock ticks, the
  main loop asks for bytes again and again.  No packet has to be written.
- `Gateway`: the main loop runs; timer 1 overflows every 4.1 ms; a call ends by its reply or its
  timeout.  Servos and lines owe nothing.
- `TeamRoles`: ticks begin and end, again and again, which is what cognition loops of
  the same rate do.  It is stated on states instead of actions (in every behaviour
  of `TeamSpec` weak fairness of `TeamTick` and of each `TeamUpdate` implies it).

## 4. Proofs

`DcmLink_proofs` proves, for every set of commands and gait
IDs and every bound, from the named assumptions of `DcmLink` alone:

- `TypeCorrect`: `Spec => []TypeOK`.
- `AtMostOnceHolds`: `Spec => []AtMostOnce`.  `AtMostOnce` is not inductive: it
  says nothing about the requests on their way.  `OnceInv` adds them up: a request
  is in one place at a time - the command cell, from `PassState` on the command
  bit, from `DspSend` on the packet - and what was begun plus what is in each of
  these places never exceeds what was asked for.  `Fresh` and `Held` say exactly
  where in its cycle the DCM has to be for a set cell or bit to count.
- `RefinesGaitCommand`: every step of `DcmLink` is a step of `GaitCommand` or a
  stutter (its safety part, `GCSafeSpec`).  A `DspTake` begins a whole batch;
  `OnceInv` gives that every member of it is owed.
- `RightGaitHolds`: `Spec => []RightGait`.  `GaitInv` follows the ID one step
  behind its command: until it has been read, the command cell and then the
  pending cell keep the player waiting (`IdFollows`), and a waiting player
  writes no ID (`IdKept`); request numbers never run ahead (`Numbers`).
- `DoneIsTrueHolds`: `Spec => []DoneIsTrue`.  A watched request (written in time,
  every cycle since answered by its own reply) is `Unread`, `Carried`, `OnLine`
  or `Taken`; in the first three a cell is up that keeps the player polling; in
  the last, while the command runs, the pending cell, the status word and every
  fresh reply on the line say so.

`Rs485Port_proofs`, for every build, size, index type, set of packets and bound:

- `TypeCorrect`, and `NeverCutOff` (`Spec => []DrivenWhileSending`).  The invariant adds to the property when the bus may be
  released: with a byte in the shift register or the data register the bus is driven, and a pending
  transmit-complete interrupt with an empty register is what releases it.
- `OrderKept` (`Spec => []BytesInOrder`) and `NothingForgotten` (`Spec => []NoByteForgotten`).  The invariant is `Carries`: the entries
  between the two indices are the bytes put in and not yet taken out, in order; between the halves of a push or a pop this
  holds of the buffer as it was or will be (`TxView`, `RxView`).  With the entry first, the byte of a push in progress
  lies one place further, where no other entry of a buffer with room lies (`SlotsApart`).  With the index first it is counted before it is
  there: only the handler, and only in that gap, can take it (`early`), and that one byte is wrong; none
  before or after it is, and no other goes missing.  With the entry first `early` is empty (`EarlyInv`).
- `DrivenForAByte`: while the bus is driven some byte is in the registers or will be sent, or the
  interrupt that releases the bus is pending (`OnItsWay`), as long as no buffer was overfilled.

`Shm_proofs`, for every number of segments, restarts and commands and every width:

- `TypeCorrect`; `OneStartAlways` (`Spec => []OneStart`): while the DCM a player found goes on, no
  name changes, and every segment mapped since is of that start (`ShareInv`).
- `NoOldElementAlways` (`Spec => []NoOldElement`): a command that is `heard` meets no zeros any more, so from the first cycle
  on elements only grow; an element already copied is no older than `floor`, and neither is one not yet copied (`AgeInv`).
- `MixedOnlyByOverlapAlways` (`Spec => []MixedOnlyByOverlap`): unless `torn`, the zeros stored so far stand (`ZeroInv`), and in the cycles
  the vector is whole but for a command that has begun to store (`RestInv`); while `quiet` is "yes" what was
  copied agrees with it (`QuietInv`).
- `LastCommandStands` and `LastCommandHolds`: once the last command, begun in a cycle, is complete in the segment the DCM uses, the segment holds it
  whole, and once a copy has begun after it, everything passed on is that command, until another is given or the
  DCM stops.  No element is older than `settled` (`AgeInv`) and none newer than the last command (`NewestInv`).

`Gateway_proofs`, for every number of servos, map and number of calls:

- `TypeCorrect`: also, that the turn of the goals, one place past the table, never waits for an answer.
- `PositionsAreRealAlways` (`Spec => []PositionsAreReal`): `RealInv` says where an answer to a passed-on packet can
  still be outside manual mode: nowhere, unless "crossed".  An answer is stored only when its id is that of the current
  place, so the entry's servo is the map's until the map is written (`remapped`).
- `OwnReplyAlways` (`Spec => []OwnReply`): as long as nothing was left behind, at most one request or reply of
  a call is under way, and it is the waiting call's (`OneUnderWay`).

`Cognition_proofs`.  About `GameControl`, for every set of announcements, every limit, socket and number of restarts:

- `TypeCorrect`, and `SilenceJudgedAlways` (`Spec => SilenceJudged`, an action property of every
  update).  Three clocks are set back by different events: `upd` by a packet that is followed, `rcvd`
  by any datagram, `heard` by a packet of ours.  `ClockInv` (`ClocksRelated`) relates them: `upd` is never
  ahead of `heard` and, while nothing without the header was taken for a packet, not more than the limit behind; the
  latest packet is no younger by `rcvd` than by `heard`.
- `ToldAndKept`: `Only(p)` says that nothing but p is on its way from our controller.  While it announces p, that
  lasts; the first update that follows a packet then tells the player p (`Told`), and the player reads p until a
  process restarts or the buttons have their say, whatever strays come in between.

About `TeamRoles`, for any number of players up to the three the loops reach, any ETAs, penalties, rounding and timeout:

- `TeamTypeCorrect` (`TeamSpec => []TeamTypeOK`): in particular `min` always has one outcome (`AttackerIs`, `DefenderIs`), ties included.
- `AttackerStays`, `PairStays` and `AgreementLasts`: that one attacks and one defends is not stable by itself, as a stale entry or a
  message in the air may say otherwise.  `Settled(a)` adds what every robot's view and every unread message says: a is heard
  of lately enough, everybody's entry for it is up to date, and nobody else's entry, read or in the air, comes before it, rounded or not.
  Then whoever updates chooses a (`SettledChosen`).  `Paired(a, b)` does the same for the defender.  Both survive every step in
  which nothing happens around the robots and no broadcast is lost (`Calm`), in any order of updates.
- `OneOfEach`: robots that agree have exactly one attacker if anybody is available and exactly one defender if two are.  What is
  left of `RolesSettle` for TLC is that agreement, or a near tie, comes about.

`RobotFsm_proofs`, for every set of roles:

- `TypeCorrect` and, however fast the game changes, `BodyAgreesAlways`, `NeverStrandedAlways` and
  `KicksStandingStillAlways`; for a game that changes only when the last change has been heard (`ASSUME ~Hasty`,
  the switch of the model under which `fsm_match` runs), `StillWhenDownAlways`, `OnItsFeetAlways` and `KickTakenAlways`.
  Without that proviso the last three are false, and TLC shows each with `Hasty = TRUE`.
- Every step is first reduced to one of nine ways of moving the three machines (`GameAsks`, `GameLeaves`, ...,
  `MotionEnters`), with the state's own update abstracted to the events it may post and the walk
  operations it may call.  `Machinery` says who may have a next state when, and that no event is queued twice.
- `Obeys` carries `BodyAgrees` through the tick: a forced state is where the body is, or where it is heading while
  it is still the body's turn.
- `Carried` carries `NeverStranded`: who steers on foot has an active walk that nobody has asked to stop.
- `Stilled` carries `KicksStandingStill`: while `bodyKick` waits, the stop it asked for is to come or the robot
  stands; once its event is posted, the walk is over and the velocity 0.
- `Resting`, `Lying`, `FromPlay` and `Diving`: "sit" and what follows it belong to `bodyIdle`, whose successor has had the motion
  machine forced to `stance`, and which no walk kick follows; whoever waits in `divewait` has the event that ends it on its way.
- `Fielding`, `OnCall`, `Afoot` and `Taken`: a player's motions are six, it walks or is about to once
  `bodyStart` has had its turn, and the kick event is posted only where the motion machine hears it.
- `RestsForGood` and `StandsForGood`, with the same proviso: a robot that sits or rests, with nobody about to stand it up, and one that
  stands in set with its walk over, do so until the game changes.  `Hushed` says that nothing is queued behind its back:
  at most "sit" for the one, nothing for the other.

`DspParser_proofs`, for every set of payloads of up to 253 bytes, every noise and number of faults:

- `CodecInverts`: `PacketInterprete` accepts what `CompressPacket` wrote and reads the same info and the same parameters.
- `TypeCorrect`: what is collected never fills the 260 bytes of `packetBuffer`, which is written without a bound: beyond five
  bytes the buffer does not pass the end its length byte announces (`BufShape`), and one already past it does not grow.
- `WholeReplyDeliveredAlways` (`Spec => []WholeReplyDelivered`): what has been collected and what is on the wire make up
  the frame that was sent (`Whole`).
- `WedgedForGood`: once a length byte was 0 or 1, no step changes the buffer or accepts a frame.  `BytesMoveIt`: a parser that is not
  wedged lengthens the buffer with every byte or empties it, so it is never stuck between two frames.
- `QuietLine`: without a fault what is collected and what is on the wire are the frame that was sent (`InStep`), so every cycle begins
  with an empty buffer, header bytes in the payload or not; what section 5 shows to go wrong takes a fault.

`ConnectRegions_proofs`, for images of every size no higher than wide:

- `RootsAreRegionsAlways` (`Spec => []RootsAreRegions`).  `Together`: linked pixels have the same root.  `Apart`: a set of pixels
  that holds one of a root and is closed under links holds all of that root.  Both are kept by a pixel that merges up to
  four trees, since `addEquivalence` hangs the root of one tree below the root of another and touches no other
  (`AddEquivalenceJoins`), and since the new pixel is linked to the neighbours it looks at and no other (`LinkedIsLooked`).
  A component is the least closed set around a pixel (`ComponentIsLeast`).
- `TypeCorrect` and `RegionsReturnedAlways` (`Spec => []RegionsReturned`): one ascending pass flattens links of any
  depth, the numbers are the ranks of the roots without a gap (`CleanTable`, `RankFacts`, `RankOnto`), label 0 has number 0 and no
  other has, so numbers and components correspond one to one (`NumbersAreComponents`).

Recursive definitions (`Root`, `TraverseLinks`, `RemoveGaps`, `Component`, the sums of `Measure`, `CheckSum`) are handled without a rule of
induction over operators: that a function with the recursive equation exists follows from the least index up
to which none would (`LeastNumber`), and then it is the one that is chosen.

`DoneIsTrue`, `RightGait` and the other invariants above are all checked by runs as well, on
the instances of section 3.  Only model-checked are the liveness properties, since liveness
under fairness is out of the prover's reach: `RecoversUnlessWedged`, `SitsDown`,
`StandsAtSet`, `FollowsController`, `RolesSettle`, `LastCommandPassed`, `BusReleased`, `EveryServoPolled`, `GoalsSent`, and the
half of `ImplementsGaitCommand` that says that a waiting player is told.  Most say that something comes about and stays; that it
stays is proved, and that it comes about is what a run shows:

| liveness property | proved of it |
|---|---|
| `RecoversUnlessWedged` | `BytesMoveIt`, `WholeReplyDeliveredAlways`, `WedgedForGood` |
| `SitsDown`, `StandsAtSet` | `RestsForGood`, `StandsForGood` |
| `FollowsController` | `ToldAndKept` |
| `RolesSettle` | `AgreementLasts`, `OneOfEach` |
| `LastCommandPassed` | `LastCommandStands`, `LastCommandHolds` |
| `BusReleased` | `DrivenForAByte` |
| `ImplementsGaitCommand` | `RefinesGaitCommand` |
| `EveryServoPolled`, `GoalsSent` | nothing: they say that something happens again and again |

## 5. Where the code and its comments disagree

Two have runs that end in the counterexample:

1. `link_race`: a command written between `pass_state` and `stateCtrl` is cleared
   without having been sent (`OPCommManager.lua:214`), and `falling.lua:58` prints
   that it is completed.  The window is one of the two that `DoneIsTrue` names.
2. `regions_wide`: "Check 8-connected neighboring pixels" (`ConnectRegions.cpp:98`), but
   the neighbour up-right is tested with `i < n-1` (`:102`), n being the number of rows, where `m-1` is the last
   column: from column n-1 on a region whose pixels touch only that way is split in two.

More of the kind, stated in the modules without a run of their own; adding the
named definition to the configuration shows each:

| definition | add to | what happens |
|---|---|---|
| `Recovers` (property) | `DspParser_fault.cfg` | a length byte altered to 0 or 1 leaves the static buffer past its own end of frame (`luaDspCode.cpp:173`); no later byte completes, extends or resets it, though `:406` says the loop is to "continue to wait for valid character" |
| `CopiedIsReply` (invariant) | `DspParser_fault.cfg` | a lost 255 makes the next reply's first byte the checksum of a frame nobody sent |
| `StopsAtSet` (property) | `RobotFsm_match.cfg` | `gameSet.lua:21` is to "stop walking", but a goalie in `divewait` waits for the end of a walk whose update is commented out |
| `AdvancesOnRelease` (property) | `GameControl_follow.cfg` | `buttonPressed` survives the time in which packets come, so a button that has long been up counts as released when they stop (`OPGameControl.lua:194`) |
| `FurthestBackDefends` (property) | `TeamRoles_roles.cfg` with `Distances = {0, 2}` | the robot's own pose stands in for everyone's (`TeamBasic.lua:114`), so "furthest player back" is whoever defends already, or has the highest number |
| `ForwardedIsOver` (invariant) | `DcmLink_race.cfg` | a timeout reads as "nothing pending", the wait ends while the gait goes on |
| `GetsUpToPlay` (property) | `RobotFsm_hasty.cfg` with `FairSpec` | a `sit` left in the queue across a forced state sits the robot down in play |
| `DivesFromStill` (invariant) | `RobotFsm_match.cfg` | a goalie dives with its last velocity in force |
| `TorqueOffOnlyFalling` (invariant) | `RobotFsm_match.cfg` | a state forced on `falling` leaves the torque off |
| `SentAsWritten` (invariant) | `Rs485Port_stream.cfg` | in a build that steps the index first (`CBUF.h:103` lets it) the UDRE handler comes between that and the store, and sends the entry's old content in place of the byte |
| `CommandSurvivesStart` (property) | `Shm_restart.cfg` | `test_data` (`OPCommManager.lua:271`) comes after the keys a player binds to are there, and stores zeros over what it has commanded |
| `PositionsFollowMap` (invariant) | `Gateway_chatter.cfg` | a new map leaves the old servos' positions under the new ids (`main.c:403`) until each is asked |
| `UnusedNotQueried` (property) | `Gateway_chatter.cfg` | "set any unused ids to 255, so that they are not queried" (`ControlTable.h:19`), but the place in the round is compared with `SKIP_ID`, not the id (`main.c:578`): unused places are asked like the others, and cost a timeout each |

Seen while reading the gateway, outside what its properties say:

- `main.c:331` skips an unused id with `continue` before `ids` is stepped, so all places after it are
  skipped too; `GoalsSent` says "up to the first unused place" for that reason.
- `main.c:475` clears `busTimeout` where a byte came from the host; `hostTimeout` is presumably meant.  A host
  that never pauses can hold up the round at a dead servo.
- `main.c:539` says "4ms of no activity", but a question sent does not reset the timer: the wait for its
  answer may be as short as nothing.
- `main.c:511` says "just send the packet to host" of manual mode, but the call is commented out: answers to
  raw packets are dropped.
- A raw packet outside manual mode is refused with a reply `SyncWrite` does not read; the next call takes it.

`EveryServoPolled` asks nothing of an unused place, and `GoalsSent` nothing of what comes after one;
`WholeReplyDelivered` begins with an empty buffer, and what a buffer left full does is `RecoversUnlessWedged`'s.

Hazards no property covers: `PROJECT.json` lists those the properties are about, and
the two of the DSP link that matter most beyond them.  The others seen are

- the states of the motion machine between their keyframes: `BasicKick.lua:152` indexes
  `kickDef` past its last state while the DSP has not reported the gait over; `standup.lua:72` can return 'fail'
  only with a fall check that `entry()` has switched off; `dive.lua:208` writes its command every tick while it
  waits; `doWalkKick` (`BasicWalk.lua:654`) sleeps a second inside the control loop;
- the head: `bodyApproach.lua:411` forces a head state after the game may have forced another in the same tick;
- the team: the loops of `TeamBasic.lua:96` end at 4 of 5 players; the receive queue
  (`luaComm.cpp:140`) cuts a message at its first zero byte;
- shared memory: `luashm.cpp:156` destroys a key that is assigned another number of elements (`shm_init` and the
  World modules give every key one size);
- the gateway: `main.c:387` answers a read of the whole table with more bytes than the output buffer holds;
- images higher than wide: `ConnectRegions.cpp:65` never clears a static array in which the
  scan then reads a column of the last call (`ShapeAssumption` leaves them out, the camera's image is wide);
- those the table above shows to happen (`falling.lua:30`, `OPGameControl.lua:194`).

Exceptions named inside properties that hold are behaviours of the code as well:
`KickWaits`, `Runaway`, `HangsInDivewait`, `gaveUp` (RobotFsm), `Wedged` and replies that
end in 255 (DspParser), `fooled` (GameControl: junk on the port keeps an old packet
alive), `NearTie` (TeamRoles: two robots about as near to the ball may both attack, or
neither), `txFull` and `rxFull` (Rs485Port: nothing looks for room before a push), `found` and
`quiet`, `heard` and `torn` (Shm: a player loaded while the DCM starts may have segments of two starts, and its command zeros
stored over it; a command cut off stays half written), `early` (Rs485Port: a byte taken before it is stored, in an
index-first build), "crossed", "behind" and `remapped` (Gateway: manual mode left too soon, a
reply nobody waited for, a position asked for under another map).  `StillWhenDown` excepts the velocity a walk kick sets while
it lasts.  `KickTaken` is about players: a goalie's `kick` may be posted while its
motion is on its way from a dive to `stance`, and is dropped there.

## 6. Not modelled

The components marked so in `PROJECT.json` with the reason there: the head
machine, the message queue, image broadcast, the
firmware of the CM boards above their serial port, and everything that is floating-point arithmetic (world
model, vision, kinematics).  Inside the modelled components: sensor
values and level-type settings of the DCM, and with them `gaitValid`, `torqueEnable`, `sensorEnable` and the head
position in `test_data`; kickoff, half and scores of the game
control; the fall check, grip and align of the motion machine and the keyframes
inside kick, dive and stand-up; the goalie's and player 5's team updates,
which compare nothing; the bytes of the gateway's packets, its IMU and its counters; the segments of
`gcm`, `wcm`, `vcm` and `mcm`, which nobody removes.

Of the repository's C and C++ code the mapped part is small, because most of that code is not this
system's: the Lua interpreter, SWIG wrappers for MATLAB, Python and Webots, drivers copied from
elsewhere, and up to twelve copies of the same firmware files (`CBUF.h`, `rs485.c`), of which one is mapped.
What is left beside it is image processing and kinematics over floating-point
numbers.  The robot's own decisions are in Lua, which `RobotFsm`, `RobotTables`, `GameControl`,
`TeamRoles`, `DcmLink` and `Shm` translate.

## 7. Plan

Done, in this order: `DcmLink` with its promise, `DspParser`, `RobotFsm`, `GameControl`,
`TeamRoles`, the proofs about `DcmLink`, `Rs485Port`, `ConnectRegions`, `Gateway`, `Shm`, the
proofs about `Rs485Port`, `Gateway` and `Shm`, those about `GameControl`, `RobotFsm`, `DspParser` and
`ConnectRegions`, those about `TeamRoles`, and the safety halves of the liveness properties.  Next:

1. The head machine as a fourth one of `RobotFsm`; the keyframe states of kick, dive
   and stand-up with their repeated command writes against `DcmLink`.
2. The receive queue of `luaComm.cpp` and the reassembly of `Broadcast`; the packet parser of the gateway.
