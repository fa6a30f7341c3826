---------------------------- MODULE DcmLink_proofs ----------------------------
(***************************************************************************)
(* What holds of DcmLink for every set of commands and gait IDs and every  *)
(* bound: type correctness, at-most-once execution, the safety part of the *)
(* promise of GaitCommand, and what the player's wait is worth: the gait   *)
(* that begins is the one asked for, and a command reported over is over,  *)
(* outside the two windows DoneIsTrue names.                               *)
(***************************************************************************)
EXTENDS DcmLink, SequenceTheorems, TLAPS

-----------------------------------------------------------------------------
(* Type correctness.                                                       *)

LEMMA InitTypeOK == Init => TypeOK
  BY SpecialAssumption, NoIdAssumption DEF Init, TypeOK, Bit, AnyId, Steps

\* The steps of the player keep the types.
LEMMA PlayerTypeOK == TypeOK /\ Player => TypeOK'
<1> SUFFICES ASSUME TypeOK, Player PROVE TypeOK'
  OBVIOUS
<1> USE DEF TypeOK, Bit, AnyId, Steps, dcm, line, dsp, shm, player
<1>1. ASSUME NEW g \in Ids, SetGaitID(g) PROVE TypeOK'
  BY <1>1 DEF SetGaitID
<1>2. ASSUME NEW c \in Cmds, Issue(c) PROVE TypeOK'
  <2>1. reqId' \in Ids \cup {NoId}
    BY <1>2 DEF Issue
  <2>2. inTime' \in [Cmds -> BOOLEAN]
    BY <1>2 DEF Issue, InWindow
  <2>3. QED
    BY <1>2, <2>1, <2>2 DEF Issue
<1>3. ASSUME NEW c \in Cmds, ReadCommand(c) PROVE TypeOK'
  BY <1>3 DEF ReadCommand
<1>4. ASSUME NEW c \in Cmds, ReadPending(c) PROVE TypeOK'
  BY <1>4 DEF ReadPending
<1>5. ASSUME NEW c \in Cmds, Abandon(c) PROVE TypeOK'
  BY <1>5 DEF Abandon
<1>6. QED
  BY <1>1, <1>2, <1>3, <1>4, <1>5 DEF Player

\* A loop over the cells stays inside its steps and its cells.
LEMMA TurnType ==
  ASSUME NEW c \in Cmds, NEW next \in Steps, TypeOK, Turn(c, next)
  PROVE  pc' \in Steps /\ todo' \in SUBSET Cmds
BY DEF Turn, TypeOK

\* What the DCM copies from and to the shared cells and the line is of the
\* type of what it overwrites.
LEMMA DcmTypeOK == TypeOK /\ Dcm => TypeOK'
<1> SUFFICES ASSUME TypeOK, Dcm PROVE TypeOK'
  OBVIOUS
<1> USE DEF AnyId, shm, player, dcm, line, dsp
<1>1. ASSUME NEW c \in Cmds, PassState(c) PROVE TypeOK'
  <2>1. pc' \in Steps /\ todo' \in SUBSET Cmds
    BY <1>1, TurnType DEF PassState, Steps
  <2>2. QED
    BY <1>1, <2>1 DEF PassState, TypeOK
<1>2. ASSUME NEW c \in Cmds, MarkPending(c) PROVE TypeOK'
  <2>1. pc' \in Steps /\ todo' \in SUBSET Cmds
    BY <1>2, TurnType DEF MarkPending, Steps
  <2>2. QED
    BY <1>2, <2>1 DEF MarkPending, TypeOK, Bit
<1>3. ASSUME NEW c \in Cmds, ClearCommand(c) PROVE TypeOK'
  <2>1. pc' \in Steps /\ todo' \in SUBSET Cmds
    BY <1>3, TurnType DEF ClearCommand, Steps
  <2>2. QED
    BY <1>3, <2>1 DEF ClearCommand, TypeOK, Bit
<1>4. ASSUME NEW c \in Cmds, ReceivePending(c) PROVE TypeOK'
  <2>1. pc' \in Steps /\ todo' \in SUBSET Cmds
    BY <1>4, TurnType DEF ReceivePending, Steps
  <2>2. QED
    BY <1>4, <2>1 DEF ReceivePending, TypeOK, Bit
<1>5. ASSUME PassPara PROVE TypeOK'
  BY <1>5 DEF PassPara, TypeOK, Steps
<1>6. ASSUME DspSend PROVE TypeOK'
  <2>1. PICK k \in 0 .. Len(replies) :
          replies' = Stale(SubSeq(replies, k + 1, Len(replies)))
    BY <1>6 DEF DspSend
  <2>2. SubSeq(replies, k + 1, Len(replies)) \in Seq(Replies)
    BY <2>1 DEF TypeOK
  <2>3. ASSUME NEW seq \in Seq(Replies) PROVE Stale(seq) \in Seq(Replies)
    <3>1. Len(seq) \in Nat /\ \A i \in 1 .. Len(seq) : seq[i] \in Replies
      OBVIOUS
    <3>2. \A r \in Replies : [r EXCEPT !.fresh = FALSE] \in Replies
      BY DEF Replies
    <3>3. Stale(seq) \in [1 .. Len(seq) -> Replies]
      BY <3>1, <3>2 DEF Stale
    <3>4. QED
      BY <3>1, <3>3, SeqDef
  <2>4. replies' \in Seq(Replies)
    BY <2>1, <2>2, <2>3
  <2>5. req' \in Requests
    BY <1>6 DEF DspSend, TypeOK, Requests
  <2>6. QED
    BY <1>6, <2>4, <2>5 DEF DspSend, TypeOK, Steps
<1>7. ASSUME DspReply PROVE TypeOK'
  <2>1. PICK k \in 1 .. Len(replies) :
          /\ sts' = replies[k].pend
          /\ replies' = SubSeq(replies, k + 1, Len(replies))
          /\ linked' = [c \in Cmds |-> linked[c] /\ replies[k].fresh]
    BY <1>7 DEF DspReply
  <2>2. replies[k] \in Replies /\ replies' \in Seq(Replies)
    BY <2>1 DEF TypeOK
  <2>3. sts' \in [Cmds -> Bit] /\ linked' \in [Cmds -> BOOLEAN]
    BY <2>1, <2>2 DEF Replies, TypeOK
  <2>4. QED
    BY <1>7, <2>2, <2>3 DEF DspReply, TypeOK, Steps
<1>8. ASSUME DspTimeout PROVE TypeOK'
  BY <1>8 DEF DspTimeout, TimeoutStatus, TypeOK, Steps, Bit
<1>9. QED
  BY <1>1, <1>2, <1>3, <1>4, <1>5, <1>6, <1>7, <1>8 DEF Dcm

\* The DSP and the line keep the types.
LEMMA EnvironmentTypeOK == TypeOK /\ Environment => TypeOK'
<1> SUFFICES ASSUME TypeOK, Environment PROVE TypeOK'
  OBVIOUS
<1> USE DEF TypeOK, AnyId, shm, player, dcm, line, dsp
<1>1. ASSUME DspTake PROVE TypeOK'
  <2>1. req \in Requests
    BY <1>1 DEF DspTake
  <2>2. run' \in [Cmds -> Bit]
    BY <1>1, <2>1 DEF DspTake, Bit
  <2>3. starts' \in [Cmds -> Nat]
    <3>1. ASSUME NEW c \in Cmds PROVE req.cmd[c] \in Nat
      BY <2>1 DEF Requests, Bit
    <3>2. ASSUME NEW c \in Cmds PROVE starts[c] + req.cmd[c] \in Nat
      <4>1. starts[c] \in Nat
        OBVIOUS
      <4>2. QED
        BY <3>1, <4>1
    <3>3. QED
      BY <1>1, <3>2 DEF DspTake
  <2>4. got' \in [Cmds -> Nat] /\ gotId' \in AnyId
    BY <1>1, <2>1 DEF DspTake, Requests
  <2>5. replies' \in Seq(Replies)
    BY <1>1, <2>2 DEF DspTake, Replies
  <2>6. QED
    BY <1>1, <2>2, <2>3, <2>4, <2>5 DEF DspTake
<1>2. ASSUME NEW c \in Cmds, DspFinish(c) PROVE TypeOK'
  BY <1>2 DEF DspFinish, Bit
<1>3. ASSUME LoseRequest PROVE TypeOK'
  BY <1>3 DEF LoseRequest
<1>4. ASSUME LoseReply PROVE TypeOK'
  BY <1>4 DEF LoseReply
<1>5. QED
  BY <1>1, <1>2, <1>3, <1>4 DEF Environment

LEMMA StepTypeOK == TypeOK /\ [Next]_vars => TypeOK'
<1>1. TypeOK /\ Next => TypeOK'
  BY PlayerTypeOK, DcmTypeOK, EnvironmentTypeOK DEF Next
<1>2. TypeOK /\ UNCHANGED vars => TypeOK'
  BY DEF TypeOK, vars, shm, player, dcm, line, dsp
<1>3. QED
  BY <1>1, <1>2

\* Every cell, packet and counter stays in its type.
THEOREM TypeCorrect == Spec => []TypeOK
  BY InitTypeOK, StepTypeOK, PTL DEF Spec

-----------------------------------------------------------------------------
(* At most once.  A request of the player is in one place at a time: in    *)
(* the command cell before the DCM has read it, in the command bit from    *)
(* there until the packet goes out, in the packet until the DSP takes it.  *)

\* c's request is in its cell and this or the next cycle will read it.
Fresh(c) ==
  /\ cell[c] = 1
  /\ \/ pc = "pass" /\ c \in todo
     \/ pc = "clear" /\ c \notin todo
     \/ pc \in {"para", "send", "wait", "recv"}

\* c's request has been read and not been sent.
Held(c) ==
  /\ ctr[c] = 1
  /\ \/ pc = "pass" /\ c \notin todo
     \/ pc \in {"mark", "clear", "para", "send"}

\* c's request is in the packet on the line.
Sent(c) == req # NoReq /\ req.cmd[c] = 1

Count(P) == IF P THEN 1 ELSE 0

\* What the DSP began and what it may still begin was asked for.
Budget(c) ==
  starts[c] + Count(Sent(c)) + Count(Held(c)) + Count(Fresh(c)) <= issued[c]

OnceInv == \A c \in Cmds : Budget(c)

LEMMA InitOnceInv == Init => OnceInv
<1> SUFFICES ASSUME Init, NEW c \in Cmds PROVE Budget(c)
  BY DEF OnceInv
<1>1. starts[c] = 0 /\ issued[c] = 0 /\ ~Sent(c) /\ ~Held(c) /\ ~Fresh(c)
  BY DEF Init, Sent, Held, Fresh
<1>2. QED
  BY <1>1 DEF Budget, Count

\* Where the requests are does not change when neither the cells, the command
\* bits, the DCM's place in its cycle, the packet nor the counters do.
LEMMA BudgetKept ==
  ASSUME OnceInv, UNCHANGED <<cell, issued, pc, todo, ctr, req, starts>>
  PROVE  OnceInv'
BY DEF OnceInv, Budget, Count, Sent, Held, Fresh

\* A request that is nowhere new costs nothing.
LEMMA BudgetShrinks ==
  ASSUME TypeOK, NEW d \in Cmds, Budget(d), UNCHANGED <<issued, starts>>,
         Sent(d)' => Sent(d), Held(d)' => Held(d), Fresh(d)' => Fresh(d)
  PROVE  Budget(d)'
<1>1. starts[d] \in Nat /\ issued[d] \in Nat
  BY DEF TypeOK
<1>2. /\ Count(Sent(d))' <= Count(Sent(d))
      /\ Count(Held(d))' <= Count(Held(d))
      /\ Count(Fresh(d))' <= Count(Fresh(d))
  BY DEF Count
<1>3. /\ Count(Sent(d)) \in {0, 1} /\ Count(Held(d)) \in {0, 1}
      /\ Count(Fresh(d)) \in {0, 1} /\ Count(Sent(d))' \in {0, 1}
      /\ Count(Held(d))' \in {0, 1} /\ Count(Fresh(d))' \in {0, 1}
  BY DEF Count
<1>4. QED
  BY <1>1, <1>2, <1>3 DEF Budget

\* The player adds a request only together with the count of them.
LEMMA PlayerOnceInv == TypeOK /\ OnceInv /\ Player => OnceInv'
<1> SUFFICES ASSUME TypeOK, OnceInv, Player PROVE OnceInv'
  OBVIOUS
<1> USE DEF shm, player, dcm, line, dsp
<1>1. ASSUME NEW g \in Ids, SetGaitID(g) PROVE OnceInv'
  BY <1>1, BudgetKept DEF SetGaitID
<1>2. ASSUME NEW c \in Cmds, Issue(c) PROVE OnceInv'
  <2>1. ASSUME NEW d \in Cmds, d # c PROVE Budget(d)'
    BY <1>2, <2>1 DEF Issue, OnceInv, Budget, Count, Sent, Held, Fresh, TypeOK
  <2>2. Count(Sent(c))' = Count(Sent(c)) /\ Count(Held(c))' = Count(Held(c))
    BY <1>2 DEF Issue, Count, Sent, Held
  <2>3. issued'[c] = issued[c] + 1 /\ starts' = starts
    BY <1>2 DEF Issue, TypeOK
  <2>4. Budget(c)'
    <3>1. Count(Fresh(c))' <= Count(Fresh(c)) + 1
      BY DEF Count
    <3>2. /\ Count(Sent(c)) \in {0, 1} /\ Count(Held(c)) \in {0, 1}
          /\ Count(Fresh(c)) \in {0, 1} /\ Count(Fresh(c))' \in {0, 1}
      BY DEF Count
    <3>3. Budget(c) /\ starts[c] \in Nat /\ issued[c] \in Nat
      BY DEF OnceInv, TypeOK
    <3>4. QED
      BY <2>2, <2>3, <3>1, <3>2, <3>3 DEF Budget
  <2>5. QED
    BY <2>1, <2>4 DEF OnceInv
<1>3. ASSUME NEW c \in Cmds, ReadCommand(c) PROVE OnceInv'
  BY <1>3, BudgetKept DEF ReadCommand
<1>4. ASSUME NEW c \in Cmds, ReadPending(c) PROVE OnceInv'
  BY <1>4, BudgetKept DEF ReadPending
<1>5. ASSUME NEW c \in Cmds, Abandon(c) PROVE OnceInv'
  BY <1>5, BudgetKept DEF Abandon
<1>6. QED
  BY <1>1, <1>2, <1>3, <1>4, <1>5 DEF Player

\* A loop step of the DCM touches one command, and the end of a loop moves no
\* request of another one.
LEMMA DcmOnceInv == TypeOK /\ OnceInv /\ Dcm => OnceInv'
<1> SUFFICES ASSUME TypeOK, OnceInv, Dcm, NEW d \in Cmds PROVE Budget(d)'
  BY DEF OnceInv
<1> Budget(d)
  BY DEF OnceInv
<1> USE DEF shm, player, dcm, line, dsp
<1>1. ASSUME NEW c \in Cmds, PassState(c) PROVE Budget(d)'
  <2>1. CASE d # c
    BY <1>1, <2>1, BudgetShrinks DEF PassState, Turn, Sent, Held, Fresh, TypeOK
  <2>2. CASE d = c
    <3>1. Held(d)' => Fresh(d)
      BY <1>1, <2>2 DEF PassState, Turn, Held, Fresh, TypeOK
    <3>2. ~Fresh(d)' /\ ~Held(d)
      BY <1>1, <2>2 DEF PassState, Turn, Held, Fresh
    <3>3. Sent(d)' = Sent(d) /\ starts' = starts /\ issued' = issued
      BY <1>1 DEF PassState, Sent
    <3>4. starts[d] \in Nat /\ issued[d] \in Nat
      BY DEF TypeOK
    <3>5. QED
      BY <3>1, <3>2, <3>3, <3>4 DEF Budget, Count
  <2>3. QED
    BY <2>1, <2>2
<1>2. ASSUME NEW c \in Cmds, MarkPending(c) PROVE Budget(d)'
  BY <1>2, BudgetShrinks DEF MarkPending, Turn, Sent, Held, Fresh, TypeOK
<1>3. ASSUME NEW c \in Cmds, ClearCommand(c) PROVE Budget(d)'
  <2>1. UNCHANGED <<issued, starts>> /\ Sent(d)' = Sent(d)
    BY <1>3 DEF ClearCommand, Sent
  <2>2. Held(d)' => Held(d)
    BY <1>3 DEF ClearCommand, Turn, Held
  <2>3. Fresh(d)' => Fresh(d)
    <3>1. CASE d = c
      BY <1>3, <3>1 DEF ClearCommand, Fresh, TypeOK
    <3>2. CASE d # c
      BY <1>3, <3>2 DEF ClearCommand, Turn, Fresh, TypeOK
    <3>3. QED
      BY <3>1, <3>2
  <2>4. QED
    BY <2>1, <2>2, <2>3, BudgetShrinks
<1>4. ASSUME NEW c \in Cmds, ReceivePending(c) PROVE Budget(d)'
  BY <1>4, BudgetShrinks DEF ReceivePending, Turn, Sent, Held, Fresh, TypeOK
<1>5. ASSUME PassPara PROVE Budget(d)'
  BY <1>5, BudgetShrinks DEF PassPara, Sent, Held, Fresh
<1>6. ASSUME DspSend PROVE Budget(d)'
  <2>1. Sent(d)' => Held(d)
    BY <1>6 DEF DspSend, Sent, Held
  <2>2. ~Held(d)' /\ Fresh(d)' = Fresh(d)
    BY <1>6 DEF DspSend, Held, Fresh
  <2>3. starts' = starts /\ issued' = issued
    BY <1>6 DEF DspSend
  <2>4. starts[d] \in Nat /\ issued[d] \in Nat
    BY DEF TypeOK
  <2>5. QED
    BY <2>1, <2>2, <2>3, <2>4 DEF Budget, Count
<1>7. ASSUME DspReply PROVE Budget(d)'
  BY <1>7, BudgetShrinks DEF DspReply, Sent, Held, Fresh
<1>8. ASSUME DspTimeout PROVE Budget(d)'
  BY <1>8, BudgetShrinks DEF DspTimeout, Sent, Held, Fresh
<1>9. QED
  BY <1>1, <1>2, <1>3, <1>4, <1>5, <1>6, <1>7, <1>8 DEF Dcm

\* The DSP begins what the packet carries; the line only drops packets.
LEMMA EnvironmentOnceInv == TypeOK /\ OnceInv /\ Environment => OnceInv'
<1> SUFFICES ASSUME TypeOK, OnceInv, Environment PROVE OnceInv'
  OBVIOUS
<1> USE DEF shm, player, dcm, line, dsp
<1>1. ASSUME DspTake PROVE OnceInv'
  <2> SUFFICES ASSUME NEW d \in Cmds PROVE Budget(d)'
    BY DEF OnceInv
  <2>1. req.cmd[d] \in {0, 1} /\ starts[d] \in Nat /\ issued[d] \in Nat
    BY <1>1 DEF DspTake, TypeOK, Requests, Bit
  <2>2. starts'[d] = starts[d] + Count(Sent(d)) /\ ~Sent(d)'
    BY <1>1, <2>1 DEF DspTake, Sent, Count
  <2>3. Held(d)' = Held(d) /\ Fresh(d)' = Fresh(d) /\ issued' = issued
    BY <1>1 DEF DspTake, Held, Fresh
  <2>4. Budget(d)
    BY DEF OnceInv
  <2>5. QED
    BY <2>1, <2>2, <2>3, <2>4 DEF Budget, Count
<1>2. ASSUME NEW c \in Cmds, DspFinish(c) PROVE OnceInv'
  BY <1>2, BudgetKept DEF DspFinish
<1>3. ASSUME LoseRequest PROVE OnceInv'
  <2> SUFFICES ASSUME NEW d \in Cmds PROVE Budget(d)'
    BY DEF OnceInv
  <2>1. QED
    BY <1>3, BudgetShrinks DEF LoseRequest, OnceInv, Sent, Held, Fresh
<1>4. ASSUME LoseReply PROVE OnceInv'
  BY <1>4, BudgetKept DEF LoseReply
<1>5. QED
  BY <1>1, <1>2, <1>3, <1>4 DEF Environment

LEMMA StepOnceInv == TypeOK /\ OnceInv /\ [Next]_vars => OnceInv'
<1>1. TypeOK /\ OnceInv /\ Next => OnceInv'
  BY PlayerOnceInv, DcmOnceInv, EnvironmentOnceInv DEF Next
<1>2. OnceInv /\ UNCHANGED vars => OnceInv'
  BY BudgetKept DEF vars, shm, player, dcm, line, dsp
<1>3. QED
  BY <1>1, <1>2

LEMMA OnceInvGivesAtMostOnce == TypeOK /\ OnceInv => AtMostOnce
<1> SUFFICES ASSUME TypeOK, OnceInv, NEW c \in Cmds PROVE starts[c] <= issued[c]
  BY DEF AtMostOnce
<1>1. starts[c] \in Nat /\ issued[c] \in Nat /\ Budget(c)
  BY DEF TypeOK, OnceInv
<1>2. QED
  BY <1>1 DEF Budget, Count

\* The gait engine never begins a command more often than the player asked.
THEOREM AtMostOnceHolds == Spec => []AtMostOnce
<1>1. Init => TypeOK /\ OnceInv
  BY InitTypeOK, InitOnceInv
<1>2. (TypeOK /\ OnceInv) /\ [Next]_vars => (TypeOK /\ OnceInv)'
  BY StepTypeOK, StepOnceInv
<1>3. TypeOK /\ OnceInv => AtMostOnce
  BY OnceInvGivesAtMostOnce
<1>4. QED
  BY <1>1, <1>2, <1>3, PTL DEF Spec

-----------------------------------------------------------------------------
(* The safety part of GaitCommand's promise, step by step.                 *)

LEMMA InitRefines == Init => GC!GCInit
  BY DEF Init, GC!GCInit, Outcome

\* A step that leaves the player's wait and both counters alone is a stutter.
LEMMA Stutters ==
  ASSUME UNCHANGED <<pl, issued, starts>> PROVE UNCHANGED GC!gcVars
BY DEF GC!gcVars, Outcome

LEMMA PlayerRefines == TypeOK /\ Player => [GC!GCNext]_(GC!gcVars)
<1> SUFFICES ASSUME TypeOK, Player PROVE [GC!GCNext]_(GC!gcVars)
  OBVIOUS
<1> USE DEF shm, player, dcm, line, dsp
<1>1. ASSUME NEW g \in Ids, SetGaitID(g) PROVE UNCHANGED GC!gcVars
  BY <1>1, Stutters DEF SetGaitID
<1>2. ASSUME NEW c \in Cmds, Issue(c) PROVE GC!Ask(c)
  BY <1>2 DEF Issue, Free, GC!Ask, Outcome, TypeOK
<1>3. ASSUME NEW c \in Cmds, ReadCommand(c) PROVE UNCHANGED GC!gcVars
  BY <1>3 DEF ReadCommand, GC!gcVars, Outcome, TypeOK
<1>4. ASSUME NEW c \in Cmds, ReadPending(c)
      PROVE  GC!Report(c) \/ UNCHANGED GC!gcVars
  <2>1. CASE pend[c] = 0
    BY <1>4, <2>1 DEF ReadPending, GC!Report, Outcome, TypeOK
  <2>2. CASE pend[c] # 0
    BY <1>4, <2>2 DEF ReadPending, GC!gcVars, Outcome, TypeOK
  <2>3. QED
    BY <2>1, <2>2
<1>5. ASSUME NEW c \in Cmds, Abandon(c) PROVE GC!GiveUp(c)
  BY <1>5 DEF Abandon, Free, GC!GiveUp, Outcome, TypeOK
<1>6. QED
  BY <1>1, <1>2, <1>3, <1>4, <1>5 DEF Player, GC!GCNext

\* What the DSP takes from the line it begins, and all of it is owed.
LEMMA TakeRefines == TypeOK /\ OnceInv /\ DspTake => GC!GCNext
<1> SUFFICES ASSUME TypeOK, OnceInv, DspTake PROVE GC!GCNext
  OBVIOUS
<1> DEFINE batch == {c \in Cmds : req.cmd[c] = 1}
<1>1. \A c \in Cmds : req.cmd[c] \in {0, 1} /\ starts[c] \in Nat /\ issued[c] \in Nat
  BY DEF DspTake, TypeOK, Requests, Bit
<1>2. ASSUME NEW c \in batch PROVE starts[c] < issued[c]
  <2>1. Count(Sent(c)) = 1 /\ Budget(c)
    BY DEF DspTake, Sent, Count, OnceInv
  <2>2. QED
    BY <1>1, <2>1 DEF Budget, Count
<1>3. starts' = [c \in Cmds |-> IF c \in batch THEN starts[c] + 1 ELSE starts[c]]
  BY <1>1 DEF DspTake
<1>4. UNCHANGED <<issued, Outcome>>
  BY DEF DspTake, player, Outcome
<1>5. GC!Begin(batch)
  BY <1>2, <1>3, <1>4 DEF GC!Begin
<1>6. QED
  BY <1>5 DEF GC!GCNext

LEMMA StepRefines ==
  TypeOK /\ OnceInv /\ [Next]_vars => [GC!GCNext]_(GC!gcVars)
<1> SUFFICES ASSUME TypeOK, OnceInv, [Next]_vars PROVE [GC!GCNext]_(GC!gcVars)
  OBVIOUS
<1> USE DEF shm, player, dcm, line, dsp
<1>1. CASE Player
  BY <1>1, PlayerRefines
<1>2. CASE Dcm
  BY <1>2, Stutters DEF Dcm, PassState, MarkPending, ClearCommand,
     ReceivePending, PassPara, DspSend, DspReply, DspTimeout
<1>3. CASE DspTake
  BY <1>3, TakeRefines
<1>4. CASE LoseRequest \/ LoseReply \/ \E c \in Cmds : DspFinish(c)
  BY <1>4, Stutters DEF LoseRequest, LoseReply, DspFinish
<1>5. CASE UNCHANGED vars
  BY <1>5, Stutters DEF vars
<1>6. QED
  BY <1>1, <1>2, <1>3, <1>4, <1>5 DEF Next, Environment

\* The command path implements the safety part of the promise: commands are
\* begun only when owed, and the player asks, hears and gives up in order.
THEOREM RefinesGaitCommand == Spec => GC!GCSafeSpec
<1>1. Init => TypeOK /\ OnceInv
  BY InitTypeOK, InitOnceInv
<1>2. (TypeOK /\ OnceInv) /\ [Next]_vars => (TypeOK /\ OnceInv)'
  BY StepTypeOK, StepOnceInv
<1>3. QED
  BY <1>1, <1>2, InitRefines, StepRefines, PTL DEF Spec, GC!GCSafeSpec

-----------------------------------------------------------------------------
(* What is on its way.                                                     *)

\* The DCM has read c's cell in this cycle, and the packet is not yet sent.
Read(c) ==
  (pc = "pass" /\ c \notin todo) \/ pc \in {"mark", "clear", "para", "send"}

\* From there, it has been through stateCtrl's first, and its second half.
Marked(c) == (pc = "mark" /\ c \notin todo) \/ pc \in {"clear", "para", "send"}
Cleared(c) == (pc = "clear" /\ c \notin todo) \/ pc \in {"para", "send"}

-----------------------------------------------------------------------------
(* The right gait.  From the cell to the packet the ID follows the request *)
(* one step behind; what keeps the player from writing the next ID in      *)
(* between is the command cell, then the pending cell.                     *)

Latest == issued[Special]

\* No number is larger than that of the last request.
Numbers ==
  /\ got[Special] <= Latest /\ ctrNo[Special] <= Latest
  /\ req # NoReq => req.no[Special] <= Latest

\* While the player waits it does not write the ID.
IdKept == pl[Special] \in {"polling", "sawClear"} => gaitID = reqId

\* The last request has been read, its ID has not.
IdToCome ==
  /\ ctr[Special] = 1 /\ ctrNo[Special] = Latest
  /\ Read(Special) /\ pc # "send"

\* While the player stands by its request, the request has its ID with it,
\* and until then the player is kept waiting.
IdFollows ==
  pl[Special] # "idle" =>
    /\ cell[Special] = 1 => pl[Special] = "polling"
    /\ IdToCome => /\ pl[Special] # "done"
                   /\ Marked(Special) => pend[Special] = 1
                   /\ ~Cleared(Special) => cell[Special] = 1
    /\ ctr[Special] = 1 /\ ctrNo[Special] = Latest /\ pc = "send" => inId = reqId
    /\ req # NoReq /\ req.cmd[Special] = 1 /\ req.no[Special] = Latest
         => req.id = reqId
    /\ got[Special] = Latest => gotId = reqId

GaitInv == Numbers /\ IdKept /\ IdFollows

LEMMA InitGaitInv == Init => GaitInv
  BY SpecialAssumption DEF Init, GaitInv, Numbers, IdKept, IdFollows, Latest

\* What the player does to another command does not matter.
LEMMA PlayerGaitInv == TypeOK /\ GaitInv /\ Player => GaitInv'
<1> SUFFICES ASSUME TypeOK, GaitInv, Player PROVE GaitInv'
  OBVIOUS
<1> USE SpecialAssumption
    DEF TypeOK, GaitInv, Numbers, IdKept, IdFollows, IdToCome, Latest, Read, Marked,
        Cleared, Requests, shm, player, dcm, line, dsp
<1>1. ASSUME NEW g \in Ids, SetGaitID(g) PROVE GaitInv'
  BY <1>1 DEF SetGaitID, Free
<1>2. ASSUME NEW c \in Cmds, Issue(c) PROVE GaitInv'
  BY <1>2 DEF Issue, Free
<1>3. ASSUME NEW c \in Cmds, ReadCommand(c) PROVE GaitInv'
  BY <1>3 DEF ReadCommand
<1>4. ASSUME NEW c \in Cmds, ReadPending(c) PROVE GaitInv'
  BY <1>4 DEF ReadPending
<1>5. ASSUME NEW c \in Cmds, Abandon(c) PROVE GaitInv'
  BY <1>5 DEF Abandon, Free
<1>6. QED
  BY <1>1, <1>2, <1>3, <1>4, <1>5 DEF Player

LEMMA DcmGaitInv == TypeOK /\ GaitInv /\ Dcm => GaitInv'
<1> SUFFICES ASSUME TypeOK, GaitInv, Dcm PROVE GaitInv'
  OBVIOUS
<1> USE SpecialAssumption
    DEF TypeOK, GaitInv, Numbers, IdKept, IdFollows, IdToCome, Latest, Read, Marked,
        Cleared, Requests, shm, player, dcm, line, dsp
<1>1. ASSUME NEW c \in Cmds, PassState(c) PROVE GaitInv'
  BY <1>1 DEF PassState, Turn
<1>2. ASSUME NEW c \in Cmds, MarkPending(c) PROVE GaitInv'
  BY <1>2 DEF MarkPending, Turn
<1>3. ASSUME NEW c \in Cmds, ClearCommand(c) PROVE GaitInv'
  BY <1>3 DEF ClearCommand, Turn
<1>4. ASSUME NEW c \in Cmds, ReceivePending(c) PROVE GaitInv'
  BY <1>4 DEF ReceivePending, Turn
<1>5. ASSUME PassPara PROVE GaitInv'
  BY <1>5 DEF PassPara
<1>6. ASSUME DspSend PROVE GaitInv'
  BY <1>6 DEF DspSend
<1>7. ASSUME DspReply PROVE GaitInv'
  BY <1>7 DEF DspReply
<1>8. ASSUME DspTimeout PROVE GaitInv'
  BY <1>8 DEF DspTimeout
<1>9. QED
  BY <1>1, <1>2, <1>3, <1>4, <1>5, <1>6, <1>7, <1>8 DEF Dcm

LEMMA EnvironmentGaitInv == TypeOK /\ GaitInv /\ Environment => GaitInv'
<1> SUFFICES ASSUME TypeOK, GaitInv, Environment PROVE GaitInv'
  OBVIOUS
<1> USE SpecialAssumption
    DEF TypeOK, GaitInv, Numbers, IdKept, IdFollows, IdToCome, Latest, Read, Marked,
        Cleared, Requests, shm, player, dcm, line, dsp
<1>1. ASSUME DspTake PROVE GaitInv'
  BY <1>1 DEF DspTake
<1>2. ASSUME NEW c \in Cmds, DspFinish(c) PROVE GaitInv'
  BY <1>2 DEF DspFinish
<1>3. ASSUME LoseRequest PROVE GaitInv'
  BY <1>3 DEF LoseRequest
<1>4. ASSUME LoseReply PROVE GaitInv'
  BY <1>4 DEF LoseReply
<1>5. QED
  BY <1>1, <1>2, <1>3, <1>4 DEF Environment

LEMMA StepGaitInv == TypeOK /\ GaitInv /\ [Next]_vars => GaitInv'
<1>1. TypeOK /\ GaitInv /\ Next => GaitInv'
  BY PlayerGaitInv, DcmGaitInv, EnvironmentGaitInv DEF Next
<1>2. GaitInv /\ UNCHANGED vars => GaitInv'
  BY DEF GaitInv, Numbers, IdKept, IdFollows, IdToCome, Latest, Read, Marked,
     Cleared, vars, shm, player, dcm, line, dsp
<1>3. QED
  BY <1>1, <1>2

\* The gait that begins for a request the player stands by is the one whose
\* ID it wrote before it, though neither process locks anything.
THEOREM RightGaitHolds == Spec => []RightGait
<1>1. Init => TypeOK /\ GaitInv
  BY InitTypeOK, InitGaitInv
<1>2. (TypeOK /\ GaitInv) /\ [Next]_vars => (TypeOK /\ GaitInv)'
  BY StepTypeOK, StepGaitInv
<1>3. GaitInv => RightGait
  BY DEF GaitInv, IdFollows, Latest, RightGait
<1>4. QED
  BY <1>1, <1>2, <1>3, PTL DEF Spec

-----------------------------------------------------------------------------
(* Done is true.  A request that was written in time, on a line that has   *)
(* answered every cycle since, is in one of four places; in all of them    *)
(* but the last a cell is up that keeps the player polling, and in the     *)
(* last the DSP's answers tell the truth.                                  *)

\* No reply on its way answers the packet sent in this cycle.
NoFresh == \A i \in 1 .. Len(replies) : ~replies[i].fresh

Unread(c) == Fresh(c) /\ pl[c] = "polling"

Carried(c) ==
  /\ Read(c) /\ ctr[c] = 1 /\ ctrNo[c] = issued[c]
  /\ Marked(c) => pend[c] = 1
  /\ ~Cleared(c) => cell[c] = 1 /\ pl[c] = "polling"
  /\ Cleared(c) => cell[c] = 0 /\ pl[c] # "done"

\* On the line, or lost; no answer yet.
OnLine(c) ==
  /\ pc = "wait" /\ NoFresh
  /\ cell[c] = 0 /\ pend[c] = 1 /\ pl[c] # "done"
  /\ req # NoReq => req.cmd[c] = 1 /\ req.no[c] = issued[c]

\* While it runs, every reply that may still count says so.
Shown(c) ==
  /\ pend[c] = 1 /\ pl[c] # "done"
  /\ pc = "recv" /\ c \in todo => sts[c] = 1
  /\ \A i \in 1 .. Len(replies) : replies[i].fresh => replies[i].pend[c] = 1

\* The DSP has taken it, and will not be sent it again.
Taken(c) ==
  /\ got[c] = issued[c] /\ cell[c] = 0
  /\ Read(c) => ctr[c] = 0
  /\ req # NoReq => req.cmd[c] = 0
  /\ run[c] = 1 => Shown(c)

Watched(c) == pl[c] # "idle" /\ inTime[c] /\ linked[c]
Place(c) == Watched(c) => Unread(c) \/ Carried(c) \/ OnLine(c) \/ Taken(c)
DoneInv == \A c \in Cmds : Place(c)

LEMMA InitDoneInv == Init => DoneInv
  BY DEF Init, DoneInv, Place, Watched

LEMMA PlayerDoneInv == TypeOK /\ DoneInv /\ Player => DoneInv'
<1> SUFFICES ASSUME TypeOK, DoneInv, Player, NEW d \in Cmds PROVE Place(d)'
  BY DEF DoneInv
<1> Place(d)
  BY DEF DoneInv
<1> USE DEF TypeOK, Place, Watched, Unread, Carried, OnLine, Taken, Shown, Fresh, Read,
            Marked, Cleared, NoFresh, shm, player, dcm, line, dsp
<1>1. ASSUME NEW g \in Ids, SetGaitID(g) PROVE Place(d)'
  BY <1>1 DEF SetGaitID
<1>2. ASSUME NEW c \in Cmds, Issue(c) PROVE Place(d)'
  <2>1. CASE d = c
    BY <1>2, <2>1 DEF Issue, InWindow, Steps
  <2>2. CASE d # c
    BY <1>2, <2>2 DEF Issue
  <2>3. QED
    BY <2>1, <2>2
<1>3. ASSUME NEW c \in Cmds, ReadCommand(c) PROVE Place(d)'
  BY <1>3 DEF ReadCommand
<1>4. ASSUME NEW c \in Cmds, ReadPending(c) PROVE Place(d)'
  BY <1>4 DEF ReadPending
<1>5. ASSUME NEW c \in Cmds, Abandon(c) PROVE Place(d)'
  BY <1>5 DEF Abandon
<1>6. QED
  BY <1>1, <1>2, <1>3, <1>4, <1>5 DEF Player

LEMMA DcmDoneInv == TypeOK /\ DoneInv /\ Dcm => DoneInv'
<1> SUFFICES ASSUME TypeOK, DoneInv, Dcm, NEW d \in Cmds PROVE Place(d)'
  BY DEF DoneInv
<1> Place(d)
  BY DEF DoneInv
<1> USE DEF TypeOK, Place, Watched, Unread, Carried, OnLine, Taken, Shown, Fresh, Read,
            Marked, Cleared, NoFresh, shm, player, dcm, line, dsp
<1>1. ASSUME NEW c \in Cmds, PassState(c) PROVE Place(d)'
  BY <1>1 DEF PassState, Turn
<1>2. ASSUME NEW c \in Cmds, MarkPending(c) PROVE Place(d)'
  BY <1>2 DEF MarkPending, Turn
<1>3. ASSUME NEW c \in Cmds, ClearCommand(c) PROVE Place(d)'
  BY <1>3 DEF ClearCommand, Turn
<1>4. ASSUME NEW c \in Cmds, ReceivePending(c) PROVE Place(d)'
  BY <1>4 DEF ReceivePending, Turn, Bit
<1>5. ASSUME PassPara PROVE Place(d)'
  BY <1>5 DEF PassPara
<1>6. ASSUME DspSend PROVE Place(d)'
  BY <1>6 DEF DspSend, Stale
<1>7. ASSUME DspReply PROVE Place(d)'
  <2>1. PICK k \in 1 .. Len(replies) :
          /\ sts' = replies[k].pend
          /\ replies' = SubSeq(replies, k + 1, Len(replies))
          /\ linked' = [c \in Cmds |-> linked[c] /\ replies[k].fresh]
    BY <1>7 DEF DspReply
  <2>2. /\ UNCHANGED <<cell, pend, pl, issued, inTime, todo, ctr, ctrNo, req, run, got>>
        /\ pc = "wait" /\ pc' = "recv"
    BY <1>7 DEF DspReply
  <2>3. SUFFICES ASSUME Watched(d)' PROVE (Unread(d) \/ Taken(d))'
    OBVIOUS
  <2>4. Watched(d) /\ replies[k].fresh
    <3>1. linked'[d] = (linked[d] /\ replies[k].fresh)
      BY <2>1
    <3>2. QED
      BY <2>2, <2>3, <3>1
  <2>5. Unread(d) \/ Taken(d)
    BY <2>2, <2>4
  <2>6. CASE Unread(d)
    BY <2>2, <2>6
  <2>7. CASE Taken(d)
    <3>1. run[d] = 1 => sts'[d] = 1
      BY <2>1, <2>4, <2>7
    <3>2. ASSUME run[d] = 1, NEW i \in 1 .. Len(replies'), replies'[i].fresh
          PROVE  replies'[i].pend[d] = 1
      <4>1. k + i \in 1 .. Len(replies) /\ replies'[i] = replies[k + i]
        BY <2>1
      <4>2. QED
        BY <2>7, <3>2, <4>1
    <3>3. QED
      BY <2>2, <2>7, <3>1, <3>2
  <2>8. QED
    BY <2>5, <2>6, <2>7
<1>8. ASSUME DspTimeout PROVE Place(d)'
  BY <1>8 DEF DspTimeout
<1>9. QED
  BY <1>1, <1>2, <1>3, <1>4, <1>5, <1>6, <1>7, <1>8 DEF Dcm

LEMMA EnvironmentDoneInv == TypeOK /\ DoneInv /\ Environment => DoneInv'
<1> SUFFICES ASSUME TypeOK, DoneInv, Environment, NEW d \in Cmds PROVE Place(d)'
  BY DEF DoneInv
<1> Place(d)
  BY DEF DoneInv
<1> USE DEF TypeOK, Place, Watched, Unread, Carried, OnLine, Taken, Shown, Fresh, Read,
            Marked, Cleared, NoFresh, shm, player, dcm, line, dsp
<1>1. ASSUME DspTake PROVE Place(d)'
  BY <1>1 DEF DspTake, Requests, Bit
<1>2. ASSUME NEW c \in Cmds, DspFinish(c) PROVE Place(d)'
  BY <1>2 DEF DspFinish
<1>3. ASSUME LoseRequest PROVE Place(d)'
  BY <1>3 DEF LoseRequest
<1>4. ASSUME LoseReply PROVE Place(d)'
  BY <1>4 DEF LoseReply
<1>5. QED
  BY <1>1, <1>2, <1>3, <1>4 DEF Environment

LEMMA StepDoneInv == TypeOK /\ DoneInv /\ [Next]_vars => DoneInv'
<1>1. TypeOK /\ DoneInv /\ Next => DoneInv'
  BY PlayerDoneInv, DcmDoneInv, EnvironmentDoneInv DEF Next
<1>2. DoneInv /\ UNCHANGED vars => DoneInv'
  BY DEF DoneInv, Place, Watched, Unread, Carried, OnLine, Taken, Shown, Fresh, Read,
     Marked, Cleared, NoFresh, vars, shm, player, dcm, line, dsp
<1>3. QED
  BY <1>1, <1>2

LEMMA DoneInvGivesDoneIsTrue == TypeOK /\ DoneInv => DoneIsTrue
  BY DEF TypeOK, Bit, DoneInv, Place, Watched, Unread, Carried, OnLine, Taken, Shown,
     Fresh, DoneIsTrue, Served

\* A motion state that goes on because its command is over is right, unless the
\* request fell into the DCM's window or a cycle went without its own reply.
THEOREM DoneIsTrueHolds == Spec => []DoneIsTrue
<1>1. Init => TypeOK /\ DoneInv
  BY InitTypeOK, InitDoneInv
<1>2. (TypeOK /\ DoneInv) /\ [Next]_vars => (TypeOK /\ DoneInv)'
  BY StepTypeOK, StepDoneInv
<1>3. TypeOK /\ DoneInv => DoneIsTrue
  BY DoneInvGivesDoneIsTrue
<1>4. QED
  BY <1>1, <1>2, <1>3, PTL DEF Spec
=============================================================================
