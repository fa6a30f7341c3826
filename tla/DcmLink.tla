------------------------------- MODULE DcmLink -------------------------------
(***************************************************************************)
(* The command path from the player process to the DSP that runs the gaits.*)
(*                                                                         *)
(*   player  --(dcmState, dcmParameter in shared memory)-->  DCM process   *)
(*   DCM process  --(one StateSwap packet per cycle, RS232)-->  DSP        *)
(*                                                                         *)
(* A one-shot command (special gait, gait reset, odometer reset, walk      *)
(* kick) is a pair of shared cells: the player writes 1 in the command     *)
(* cell; the DCM forwards it, raises the pending cell, clears the command  *)
(* cell and from then on copies the DSP's pending bit into the pending     *)
(* cell; the player polls until it reads both at 0.  There are no locks:   *)
(* every read and write of a cell is a step of its own.                    *)
(***************************************************************************)
EXTENDS Naturals, Sequences

CONSTANTS
  Cmds,      \* the one-shot commands
  Special,   \* the one that carries a parameter, the gait ID
  Ids,       \* gait IDs
  NoId,      \* the value shm_init gives the gaitID cell
  NoReq,     \* no request packet on the line
  MaxIssue,  \* bound: requests per command
  MaxLate    \* bound: replies on their way at the same time

ASSUME SpecialAssumption == Special \in Cmds
ASSUME NoIdAssumption == NoId \notin Ids
ASSUME BoundsAssumption == MaxIssue \in Nat /\ MaxLate \in Nat \ {0}

VARIABLES
  cell,      \* dcmState: specialValid, gaitReset, odometerReset, walkkick
  pend,      \* dcmState: the four ...Pending cells
  gaitID,    \* dcmParameter: gaitID
  pl,        \* where the player is in its wait for each command
  issued,    \* history: how many times the player asked for each command
  reqId,     \* history: the gait ID the player asked for last
  inTime,    \* history: c's last request was written outside the DCM's window
  linked,    \* history: since then every cycle got the reply to its own request
  pc, todo,  \* DCM: step of update(), and the cells that step has yet to touch
  ctr,       \* DCM: the command bits of in.ctrReg1
  ctrNo,     \* history: which request each of these bits stands for
  inId,      \* DCM: in.spcInst.id
  sts,       \* DCM: the pending bits of out.stsReg2
  req,       \* line: the request packet the DSP has not read yet, or NoReq
  replies,   \* line: the replies on their way, oldest first
  run,       \* DSP: the commands it is executing or holds pending
  starts,    \* history: how many times it began each command
  got, gotId \* history: the last request it took of each command, and its ID

shm    == <<cell, pend, gaitID>>
player == <<pl, issued, reqId, inTime>>
dcm    == <<pc, todo, ctr, ctrNo, inId, sts>>
line   == <<req, replies>>
dsp    == <<run, starts, got, gotId>>
vars   == <<shm, player, linked, dcm, line, dsp>>

Bit == {0, 1}
AnyId == Ids \cup {NoId}
Steps == {"pass", "mark", "clear", "para", "send", "wait", "recv"}
Requests == [cmd: [Cmds -> Bit], no: [Cmds -> Nat], id: AnyId]
Replies == [pend: [Cmds -> Bit], fresh: BOOLEAN]

Init ==
  /\ cell = [c \in Cmds |-> 0]
  /\ pend = [c \in Cmds |-> 0]
  /\ gaitID = NoId
  /\ pl = [c \in Cmds |-> "idle"]
  /\ issued = [c \in Cmds |-> 0]
  /\ reqId = NoId
  /\ inTime = [c \in Cmds |-> TRUE]
  /\ linked = [c \in Cmds |-> TRUE]
  /\ pc = "pass" /\ todo = Cmds
  /\ ctr = [c \in Cmds |-> 0]
  /\ ctrNo = [c \in Cmds |-> 0]
  /\ inId = NoId
  /\ sts = [c \in Cmds |-> 0]
  /\ req = NoReq /\ replies = <<>>
  /\ run = [c \in Cmds |-> 0]
  /\ starts = [c \in Cmds |-> 0]
  /\ got = [c \in Cmds |-> 0]
  /\ gotId = NoId

-----------------------------------------------------------------------------
(* The player (Motion states).  It reads the command cell first and the    *)
(* pending cell after it.                                                  *)

Free(c) == pl[c] \in {"idle", "done"}

\* The DCM has read c's cell in this cycle and has not cleared it yet: what
\* the player writes now is cleared without having been read.
InWindow(c) ==
  \/ pc = "pass" /\ c \notin todo
  \/ pc = "mark"
  \/ pc = "clear" /\ c \in todo

SetGaitID(g) ==
  /\ Free(Special)
  /\ gaitID' = g
  /\ UNCHANGED <<cell, pend, player, linked, dcm, line, dsp>>

Issue(c) ==
  /\ Free(c)
  /\ issued[c] < MaxIssue
  /\ c = Special => gaitID \in Ids
  /\ cell' = [cell EXCEPT ![c] = 1]
  /\ pl' = [pl EXCEPT ![c] = "polling"]
  /\ issued' = [issued EXCEPT ![c] = @ + 1]
  /\ reqId' = IF c = Special THEN gaitID ELSE reqId
  /\ inTime' = [inTime EXCEPT ![c] = ~InWindow(c)]
  /\ linked' = [linked EXCEPT ![c] = TRUE]
  /\ UNCHANGED <<pend, gaitID, dcm, line, dsp>>

\* A poll that reads the command cell at 1 changes nothing; at 0 it goes on
\* to the pending cell.
ReadCommand(c) ==
  /\ pl[c] = "polling"
  /\ cell[c] = 0
  /\ pl' = [pl EXCEPT ![c] = "sawClear"]
  /\ UNCHANGED <<shm, issued, reqId, inTime, linked, dcm, line, dsp>>

ReadPending(c) ==
  /\ pl[c] = "sawClear"
  /\ pl' = [pl EXCEPT ![c] = IF pend[c] = 0 THEN "done" ELSE "polling"]
  /\ UNCHANGED <<shm, issued, reqId, inTime, linked, dcm, line, dsp>>

\* A forced state change (sm:set_state from the body states), or a restart
\* of the player process, ends the wait whatever the DSP is doing.
Abandon(c) ==
  /\ ~Free(c)
  /\ pl' = [pl EXCEPT ![c] = "idle"]
  /\ UNCHANGED <<shm, issued, reqId, inTime, linked, dcm, line, dsp>>

Player ==
  \/ \E g \in Ids : SetGaitID(g)
  \/ \E c \in Cmds : Issue(c) \/ ReadCommand(c) \/ ReadPending(c) \/ Abandon(c)

-----------------------------------------------------------------------------
(* The DCM process: update() = pass_data(); dsp_thread(); receive_data().  *)
(* pass_state walks the cells in the order of a Lua hash table; the cells  *)
(* are independent, so the later loops are left in any order too.          *)

\* Done with cell c in this loop; the last cell ends it.
Turn(c, next) ==
  /\ c \in todo
  /\ IF todo = {c} THEN pc' = next /\ todo' = Cmds
                   ELSE pc' = pc /\ todo' = todo \ {c}

PassState(c) ==
  /\ pc = "pass"
  /\ Turn(c, "mark")
  /\ ctr' = [ctr EXCEPT ![c] = cell[c]]
  /\ ctrNo' = [ctrNo EXCEPT ![c] = issued[c]]
  /\ UNCHANGED <<shm, player, linked, inId, sts, line, dsp>>

\* Mutant of MarkPending: the pending cell waits for the DSP's own bit.
MarkPendingLater(c) ==
  /\ pc = "mark"
  /\ Turn(c, "clear")
  /\ UNCHANGED <<shm, player, linked, ctr, ctrNo, inId, sts, line, dsp>>

\* stateCtrl, first half: raise the pending cell of a command cell read at 1.
MarkPending(c) ==
  /\ pc = "mark"
  /\ Turn(c, "clear")
  /\ pend' = [pend EXCEPT ![c] = IF cell[c] = 1 THEN 1 ELSE @]
  /\ UNCHANGED <<cell, gaitID, player, linked, ctr, ctrNo, inId, sts, line, dsp>>

\* Mutant of ClearCommand: a command is sent again until the DSP shows it.
ClearWhenTaken(c) ==
  /\ pc = "clear"
  /\ Turn(c, "para")
  /\ cell' = [cell EXCEPT ![c] = IF sts[c] = 1 THEN 0 ELSE @]
  /\ UNCHANGED <<pend, gaitID, player, linked, ctr, ctrNo, inId, sts, line, dsp>>

\* stateCtrl, second half: clear every command cell, whatever it holds by now.
ClearCommand(c) ==
  /\ pc = "clear"
  /\ Turn(c, "para")
  /\ cell' = [cell EXCEPT ![c] = 0]
  /\ UNCHANGED <<pend, gaitID, player, linked, ctr, ctrNo, inId, sts, line, dsp>>

PassPara ==
  /\ pc = "para"
  /\ inId' = gaitID
  /\ pc' = "send"
  /\ UNCHANGED <<shm, player, linked, todo, ctr, ctrNo, sts, line, dsp>>

Stale(seq) == [i \in 1 .. Len(seq) |-> [seq[i] EXCEPT !.fresh = FALSE]]

\* tcflush drops the replies that have arrived; those still on their way
\* (the DSP was slow) stay, and answer an earlier request than this one.
DspSend ==
  /\ pc = "send"
  /\ \E k \in 0 .. Len(replies) :
       replies' = Stale(SubSeq(replies, k + 1, Len(replies)))
  /\ req' = [cmd |-> ctr, no |-> ctrNo, id |-> inId]
  /\ pc' = "wait"
  /\ UNCHANGED <<shm, player, linked, todo, ctr, ctrNo, inId, sts, dsp>>

\* Every packet in the bytes read() returned is copied into out; the last
\* one stays.  Nothing in a packet says which request it answers.
DspReply ==
  /\ pc = "wait"
  /\ \E k \in 1 .. Len(replies) :
       /\ sts' = replies[k].pend
       /\ replies' = SubSeq(replies, k + 1, Len(replies))
       /\ linked' = [c \in Cmds |-> linked[c] /\ replies[k].fresh]
  /\ pc' = "recv"
  /\ UNCHANGED <<shm, player, todo, ctr, ctrNo, inId, req, dsp>>

\* Mutant of TimeoutStatus: a timeout keeps what the last reply said.
KeptStatus == sts

\* PostProcessingTimeout: out.stsReg2 = in.ctrReg2, which is always 0.
TimeoutStatus == [c \in Cmds |-> 0]

DspTimeout ==
  /\ pc = "wait"
  /\ sts' = TimeoutStatus
  /\ linked' = [c \in Cmds |-> FALSE]
  /\ pc' = "recv"
  /\ UNCHANGED <<shm, player, todo, ctr, ctrNo, inId, line, dsp>>

\* Mutant of ReceivePending: the bit is masked but not shifted down.
ReceiveUnshifted(c) ==
  /\ pc = "recv"
  /\ Turn(c, "pass")
  /\ pend' = [pend EXCEPT ![c] = 2 * sts[c]]
  /\ UNCHANGED <<cell, gaitID, player, linked, ctr, ctrNo, inId, sts, line, dsp>>

ReceivePending(c) ==
  /\ pc = "recv"
  /\ Turn(c, "pass")
  /\ pend' = [pend EXCEPT ![c] = sts[c]]
  /\ UNCHANGED <<cell, gaitID, player, linked, ctr, ctrNo, inId, sts, line, dsp>>

Dcm ==
  \/ \E c \in Cmds : \/ PassState(c) \/ MarkPending(c)
                     \/ ClearCommand(c) \/ ReceivePending(c)
  \/ PassPara \/ DspSend \/ DspReply \/ DspTimeout

-----------------------------------------------------------------------------
(* The DSP, as the code relies on it: a command bit in a request begins    *)
(* the command, its pending bit is 1 in every reply until it is over.      *)

DspTake ==
  /\ req # NoReq
  /\ Len(replies) < MaxLate
  /\ run' = [c \in Cmds |-> IF req.cmd[c] = 1 THEN 1 ELSE run[c]]
  /\ starts' = [c \in Cmds |-> starts[c] + req.cmd[c]]
  /\ got' = [c \in Cmds |-> IF req.cmd[c] = 1 THEN req.no[c] ELSE got[c]]
  /\ gotId' = IF req.cmd[Special] = 1 THEN req.id ELSE gotId
  /\ replies' = Append(replies, [pend |-> run', fresh |-> TRUE])
  /\ req' = NoReq
  /\ UNCHANGED <<shm, player, linked, dcm>>

DspFinish(c) ==
  /\ run[c] = 1
  /\ run' = [run EXCEPT ![c] = 0]
  /\ UNCHANGED <<shm, player, linked, dcm, line, starts, got, gotId>>

(* The line loses packets (noise, a byte dropped, a checksum that fails).  *)
LoseRequest ==
  /\ req # NoReq
  /\ req' = NoReq
  /\ UNCHANGED <<shm, player, linked, dcm, replies, dsp>>

LoseReply ==
  /\ replies # <<>>
  /\ replies' = Tail(replies)
  /\ UNCHANGED <<shm, player, linked, dcm, req, dsp>>

Environment ==
  \/ DspTake \/ LoseRequest \/ LoseReply
  \/ \E c \in Cmds : DspFinish(c)

Next == Player \/ Dcm \/ Environment

Spec == Init /\ [][Next]_vars

\* Both processes run forever (while loops with a sleep), the player's motion
\* state is updated every tick, and the DSP finishes every gait it begins.
\* The line owes nothing.
FairSpec ==
  /\ Spec
  /\ WF_vars(Dcm)
  /\ \A c \in Cmds : /\ WF_vars(ReadCommand(c)) /\ WF_vars(ReadPending(c))
                     /\ WF_vars(DspFinish(c))
-----------------------------------------------------------------------------
(* Properties.                                                             *)

TypeOK ==
  /\ cell \in [Cmds -> Bit] /\ pend \in [Cmds -> Bit] /\ gaitID \in AnyId
  /\ pl \in [Cmds -> {"idle", "polling", "sawClear", "done"}]
  /\ issued \in [Cmds -> Nat] /\ reqId \in AnyId
  /\ inTime \in [Cmds -> BOOLEAN] /\ linked \in [Cmds -> BOOLEAN]
  /\ pc \in Steps /\ todo \in SUBSET Cmds
  /\ ctr \in [Cmds -> Bit] /\ ctrNo \in [Cmds -> Nat]
  /\ inId \in AnyId /\ sts \in [Cmds -> Bit]
  /\ req \in Requests \cup {NoReq} /\ replies \in Seq(Replies)
  /\ run \in [Cmds -> Bit] /\ starts \in [Cmds -> Nat]
  /\ got \in [Cmds -> Nat] /\ gotId \in AnyId

\* The DSP never begins a command more often than the player asked for it:
\* stateCtrl clears each command cell in the cycle that read it, and neither a
\* timeout nor a lost reply makes the DCM send a command again.
AtMostOnce == \A c \in Cmds : starts[c] <= issued[c]

Served(c) == got[c] = issued[c] /\ run[c] = 0

\* When a motion state reads both cells at 0 and moves on, the DSP has taken
\* that very request and finished it - provided the request was not written
\* inside the DCM's read-to-clear window and no cycle since has timed out or
\* taken a late reply.  Those are the only two ways the protocol fails.
DoneIsTrue == \A c \in Cmds : pl[c] = "done" /\ inTime[c] /\ linked[c] => Served(c)

\* The gait the DSP begins for a request the player still stands by is the one
\* the player wrote before it: the parameters are read after the command cell,
\* and the pending cell keeps the player from writing the next ID meanwhile.
RightGait ==
  pl[Special] # "idle" /\ issued[Special] > 0 /\ got[Special] = issued[Special]
    => gotId = reqId

\* falling.lua:58 prints 'gait reset is completed' when both cells read 0:
\* on a line that answers every cycle in time, a command reported complete was
\* executed.  Refuted: a request written between pass_state and stateCtrl is
\* cleared without having been sent.
CompletedWasExecuted ==
  \A c \in Cmds : pl[c] = "done" /\ linked[c] => Served(c)

\* standup.lua:64 prints that the wait 'is completed' on the same reading: a
\* command the DCM did forward is over when it is reported complete.  Refuted:
\* a timeout reads as "nothing pending".
ForwardedIsOver ==
  \A c \in Cmds : pl[c] = "done" /\ inTime[c] => Served(c)

\* The command path implements the promise of GaitCommand.
Outcome == [c \in Cmds |-> CASE pl[c] = "idle" -> "none"
                             [] pl[c] = "done" -> "done"
                             [] OTHER -> "waiting"]

GC == INSTANCE GaitCommand WITH asked <- issued, begun <- starts, outcome <- Outcome

ImplementsGaitCommand == GC!GCSpec
=============================================================================
