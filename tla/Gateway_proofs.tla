----------------------------- MODULE Gateway_proofs -----------------------------
(***************************************************************************)
(* What is proved of the gateway, for every number of servos, every map,   *)
(* any number of calls and a buffer of any size: the types, that the       *)
(* positions in the table are real, and that a call gets its own reply as  *)
(* long as none has given up.                                              *)
(***************************************************************************)
EXTENDS Gateway, TLAPS

\* What the host sends.
Requests ==
  [no : 1 .. MaxCalls, op : {"read", "goal"}, arg : {None}]
    \cup [no : 1 .. MaxCalls, op : {"mode"}, arg : Modes]
    \cup [no : 1 .. MaxCalls, op : {"ids"}, arg : IdMaps]
    \cup [no : 1 .. MaxCalls, op : {"bus"}, arg : PassedOn \cup {None}]

Answers == [id : Servos, what : Messages, ok : BOOLEAN]

Replies == [no : 1 .. MaxCalls, ok : BOOLEAN]

\* Queues keep the type of what is put into them.
LEMMA QueueType ==
  ASSUME NEW T, NEW s \in Seq(T)
  PROVE  /\ \A x \in T : Append(s, x) \in Seq(T)
         /\ s # <<>> => Head(s) \in T /\ Tail(s) \in Seq(T)
  OBVIOUS

PcType == pc \in {"host", "bus", "send"}

TypeInv == TableType /\ BusType /\ HostType /\ PcType /\ hostRx \in Seq(Requests)

LEMMA PlacesFact == Places = 0 .. N - 1 /\ N \in Nat \ {0} /\ MaxCalls \in Nat
  BY SizeAssumption DEF Places

LEMMA InitType == Init => TypeInv
<1> SUFFICES ASSUME Init PROVE TypeInv
  OBVIOUS
<1>1. TableType
  BY PlacesFact DEF Init, TableType
<1>2. BusType /\ HostType /\ PcType /\ hostRx \in Seq(Requests)
  BY PlacesFact DEF Init, BusType, HostType, PcType
<1> QED
  BY <1>1, <1>2 DEF TypeInv

\* A request and its call.
LEMMA SendType ==
  ASSUME TypeInv, NEW op, NEW arg, Send(op, arg), Request(op, arg) \in Requests,
         call' \in {call, calls + 1}
  PROVE  TypeInv'
<1>1. /\ calls' = calls + 1 /\ calls' \in 1 .. MaxCalls /\ hostRx' = Append(hostRx, Request(op, arg))
      /\ UNCHANGED <<mode, state, currServo, idMap, currPos, remapped, pc, busRx, toHost, asked, current, past>>
  BY PlacesFact DEF Send, table, TypeInv, HostType
<1>2. hostRx' \in Seq(Requests)
  BY <1>1 DEF TypeInv
<1>3. HostType'
  BY <1>1 DEF TypeInv, HostType
<1> QED
  BY <1>1, <1>2, <1>3 DEF TypeInv, TableType, BusType, PcType

LEMMA RequestType ==
  ASSUME TypeInv, calls < MaxCalls
  PROVE  /\ \A op \in {"read", "goal"} : Request(op, None) \in Requests
         /\ \A a \in Modes : Request("mode", a) \in Requests
         /\ \A a \in IdMaps : Request("ids", a) \in Requests
         /\ \A a \in PassedOn \cup {None} : Request("bus", a) \in Requests
<1>1. calls + 1 \in 1 .. MaxCalls
  BY PlacesFact DEF TypeInv, HostType
<1> QED
  BY <1>1 DEF Request, Requests

\* What a packet from the host leaves.
LEMMA HostPacketType ==
  ASSUME TypeInv, NEW p \in Requests, ProcessHostPacket(p)
  PROVE  /\ mode' \in Modes \cup {"read", "manual"} /\ idMap' \in IdMaps /\ current' \subseteq Places
         /\ remapped' \subseteq Places
         /\ asked' \subseteq [id : Servos, what : Messages]
         /\ toHost' \in Seq(Replies)
         /\ past' \subseteq {"wrong", "behind", "crossed"}
<1>0. \A ok \in BOOLEAN : [no |-> p.no, ok |-> ok] \in Replies
  BY DEF Requests, Replies
<1>t. toHost \in Seq(Replies)
  BY DEF TypeInv, HostType, Replies
<1>1. CASE p.op = "bus"
  <2>1. p.arg \in Servos \cup {None} /\ UNCHANGED <<mode, idMap, remapped, current>>
    BY <1>1, IdAssumption DEF Requests, ProcessHostPacket
  <2>2. CASE mode = "manual"
    <3>1. UNCHANGED <<toHost, past>>
      BY <1>1, <2>2 DEF ProcessHostPacket
    <3>2. asked' = asked \/ (p.arg \in Servos /\ asked' = asked \cup {[id |-> p.arg, what |-> "other"]})
      BY <1>1, <2>1, <2>2 DEF ProcessHostPacket
    <3> QED
      BY <1>t, <2>1, <3>1, <3>2 DEF TypeInv, TableType, BusType, HostType, Messages
  <2>3. CASE mode # "manual"
    <3>1. toHost' = Append(toHost, [no |-> p.no, ok |-> FALSE]) /\ asked' = asked
          /\ past' = past \cup {"behind"}
      BY <1>1, <2>3 DEF ProcessHostPacket, Reply
    <3>2. toHost' \in Seq(Replies)
      <4>1. [no |-> p.no, ok |-> FALSE] \in Replies
        BY <1>0
      <4> QED
        BY <1>t, <3>1, <4>1, QueueType
    <3> QED
      BY <2>1, <3>1, <3>2 DEF TypeInv, TableType, BusType, HostType
  <2> QED
    BY <2>2, <2>3
<1>2. CASE p.op # "bus"
  <2>1. /\ p.op = "mode" => p.arg \in Modes
        /\ p.op = "ids" => p.arg \in IdMaps
    BY DEF Requests
  <2>2. /\ mode' \in Modes \cup {"read", "manual"} /\ idMap' \in IdMaps /\ current' \subseteq Places
        /\ remapped' \subseteq Places
    BY <1>2, <2>1 DEF ProcessHostPacket, TypeInv, TableType, BusType
  <2>3. toHost' \in Seq(Replies) /\ UNCHANGED asked
    <3>1. toHost' = Append(toHost, [no |-> p.no, ok |-> TRUE]) /\ asked' = asked
      BY <1>2 DEF ProcessHostPacket, Reply
    <3>2. [no |-> p.no, ok |-> TRUE] \in Replies
      BY <1>0
    <3> QED
      BY <1>t, <3>1, <3>2, QueueType
  <2>4. past' \subseteq {"wrong", "behind", "crossed"}
    BY <1>2 DEF ProcessHostPacket, TypeInv, HostType
  <2> QED
    BY <2>2, <2>3, <2>4 DEF TypeInv, BusType
<1> QED
  BY <1>1, <1>2

\* What a place of the table may hold.
Entries == [id : Servos \cup {None}, what : Messages \cup {"none"}]

\* Storing an entry keeps the table of its type.
LEMMA EntrySet ==
  ASSUME NEW D, NEW T, NEW f \in [D -> T], NEW i, NEW r \in T
  PROVE  [f EXCEPT ![i] = r] \in [D -> T]
  OBVIOUS

LEMMA NextType == TypeInv /\ [Next]_vars => TypeInv'
<1> SUFFICES ASSUME TypeInv, [Next]_vars PROVE TypeInv'
  OBVIOUS
<1> USE PlacesFact
<1>1. CASE Call
  <2>1. calls < MaxCalls
    BY <1>1 DEF Call, Send
  <2> QED
    BY <1>1, <2>1, SendType, RequestType DEF Call
<1>2. CASE SyncWriteRaw
  <2>1. calls < MaxCalls
    BY <1>2 DEF SyncWriteRaw, Send
  <2> QED
    BY <1>2, <2>1, SendType, RequestType DEF SyncWriteRaw
<1>3. CASE Receive
  <2>1. /\ toHost # <<>> /\ toHost' = Tail(toHost) /\ call' = None /\ past' \subseteq past \cup {"wrong"}
        /\ UNCHANGED <<mode, state, currServo, idMap, currPos, remapped, pc, hostRx, busRx, asked, current, calls>>
    BY <1>3 DEF Receive, table
  <2> QED
    BY <2>1 DEF TypeInv, TableType, BusType, HostType, PcType
<1>4. CASE GiveUp
  BY <1>4 DEF GiveUp, table, links, TypeInv, TableType, BusType, HostType, PcType
<1>5. CASE HostStep
  <2>1. UNCHANGED <<state, currServo, currPos, busRx, calls, call>> /\ PcType'
    BY <1>5 DEF HostStep, host, PcType
  <2>2. CASE hostRx = <<>>
    BY <1>5, <2>1, <2>2 DEF HostStep, TypeInv, TableType, BusType, HostType
  <2>3. CASE hostRx # <<>>
    <3>1. /\ Head(hostRx) \in Requests /\ hostRx' \in Seq(Requests)
          /\ ProcessHostPacket(Head(hostRx))
      BY <1>5, <2>3 DEF HostStep, TypeInv
    <3>2. /\ mode' \in Modes \cup {"read", "manual"} /\ idMap' \in IdMaps /\ current' \subseteq Places
          /\ remapped' \subseteq Places
          /\ asked' \subseteq [id : Servos, what : Messages] /\ toHost' \in Seq(Replies)
          /\ past' \subseteq {"wrong", "behind", "crossed"}
      BY <3>1, HostPacketType
    <3> QED
      BY <2>1, <3>1, <3>2 DEF TypeInv, TableType, BusType, HostType, Replies
  <2> QED
    BY <2>2, <2>3
<1>6. CASE BusStep
  <2>1. UNCHANGED <<mode, idMap, hostRx, toHost, asked, current, calls, call, past>>
    BY <1>6 DEF BusStep, host
  <2>2. CASE busRx = <<>>
    BY <1>6, <2>1, <2>2 DEF BusStep, TypeInv, TableType, BusType, HostType, PcType
  <2>3. CASE busRx # <<>>
    <3>1. busRx' \in Seq(Answers)
      <4>1. busRx' = Tail(busRx)
        BY <1>6, <2>3 DEF BusStep
      <4>2. busRx \in Seq(Answers)
        BY DEF TypeInv, BusType, Answers
      <4> QED
        BY <2>3, <4>1, <4>2, QueueType
    <3>2. /\ state' \in {"idle", state} /\ currServo' \in {0, currServo} /\ PcType'
          /\ state' # "idle" => currServo' = currServo
      BY <1>6, <2>3 DEF BusStep, PcType
    <3>3. currPos' \in [Places -> Entries] /\ remapped' \subseteq Places
      <4> DEFINE r == [id |-> Head(busRx).id, what |-> Head(busRx).what]
      <4>1. Head(busRx).id \in Servos /\ Head(busRx).what \in Messages
        <5>1. busRx \in Seq(Answers)
          BY DEF TypeInv, BusType, Answers
        <5>2. Head(busRx) \in Answers
          BY <2>3, <5>1
        <5> QED
          BY <5>2 DEF Answers
      <4>2. r \in Entries
        BY <4>1 DEF Entries
      <4>3. currPos' = currPos \/ currPos' = [currPos EXCEPT ![currServo] = r]
        BY <1>6, <2>3 DEF BusStep
      <4>4. remapped' \subseteq remapped
        BY <1>6, <2>3 DEF BusStep
      <4>5. currPos \in [Places -> Entries] /\ remapped \subseteq Places
        BY DEF TypeInv, TableType, Entries
      <4> HIDE DEF r
      <4>6. currPos' \in [Places -> Entries]
        BY <4>2, <4>3, <4>5, EntrySet
      <4> QED
        BY <4>4, <4>5, <4>6
    <3>4. TableType'
      BY <2>1, <3>2, <3>3 DEF TypeInv, TableType, Entries
    <3> QED
      BY <2>1, <3>1, <3>2, <3>4 DEF TypeInv, BusType, HostType, Answers
  <2> QED
    BY <2>2, <2>3
<1>7. CASE SendStep
  <2>1. UNCHANGED <<mode, idMap, currPos, remapped, hostRx, busRx, toHost, calls, call, past>> /\ PcType'
    BY <1>7 DEF SendStep, host, PcType
  <2>2. CASE mode = "manual" \/ ~ Idle
    BY <1>7, <2>1, <2>2 DEF SendStep, TypeInv, TableType, BusType, HostType
  <2>3. CASE ~ (mode = "manual" \/ ~ Idle)
    <3>1. Turn \in 0 .. N
      BY DEF Turn, TypeInv, TableType
    <3>2. StateAfter(Turn) \in {"idle", "waiting", "pause"} /\ (StateAfter(Turn) = "waiting" => Turn # N)
      BY DEF StateAfter
    <3>3. TableType'
      BY <1>7, <2>1, <2>3, <3>1, <3>2 DEF SendStep, TypeInv, TableType
    <3>4. asked' \subseteq asked \cup [id : Servos, what : Messages]
      BY <1>7, <2>3 DEF SendStep, Messages
    <3>5. current' \subseteq current \cup Places
      BY <1>7, <2>3 DEF SendStep, Reached
    <3> QED
      BY <2>1, <3>3, <3>4, <3>5 DEF TypeInv, BusType, HostType
  <2> QED
    BY <2>2, <2>3
<1>8. CASE BusOverflow
  BY <1>8 DEF BusOverflow, table, links, host, TypeInv, TableType, BusType, HostType, PcType
<1>9. CASE Bus
  <2>1. PICK q \in asked : LoseAnswer(q) \/ \E ok \in BOOLEAN : Answer(q, ok)
    BY <1>9 DEF Bus
  <2>2. CASE LoseAnswer(q)
    BY <2>2 DEF LoseAnswer, table, host, TypeInv, TableType, BusType, HostType, PcType
  <2>3. ASSUME NEW ok \in BOOLEAN, Answer(q, ok) PROVE TypeInv'
    <3>1. [id |-> q.id, what |-> q.what, ok |-> ok] \in Answers
      BY DEF TypeInv, BusType, Answers
    <3>2. busRx' \in Seq(Answers)
      <4>1. busRx' = Append(busRx, [id |-> q.id, what |-> q.what, ok |-> ok])
        BY <2>3 DEF Answer
      <4>2. busRx \in Seq(Answers)
        BY DEF TypeInv, BusType, Answers
      <4> QED
        BY <3>1, <4>1, <4>2, QueueType
    <3> QED
      BY <2>3, <3>2 DEF Answer, table, host, TypeInv, TableType, BusType, HostType, PcType, Answers
  <2> QED
    BY <2>1, <2>2, <2>3
<1>10. CASE LoseRequest
  BY <1>10 DEF LoseRequest, table, host, TypeInv, TableType, BusType, HostType, PcType
<1>11. CASE UNCHANGED vars
  BY <1>11 DEF vars, table, links, host, TypeInv, TableType, BusType, HostType, PcType
<1> QED
  BY <1>1, <1>2, <1>3, <1>4, <1>5, <1>6, <1>7, <1>8, <1>9, <1>10, <1>11 DEF Next, Main

TimeoutOK == busTimeout \in BOOLEAN

LEMMA TimeoutType == (Init => TimeoutOK) /\ (TimeoutOK /\ [Next]_vars => TimeoutOK')
<1>1. Init => TimeoutOK
  BY DEF Init, TimeoutOK
<1>2. ASSUME TimeoutOK, [Next]_vars PROVE TimeoutOK'
  <2>1. busTimeout' = TRUE \/ busTimeout' = FALSE \/ busTimeout' = busTimeout
    BY <1>2 DEF Next, vars, Main, Call, Send, SyncWriteRaw, Receive, GiveUp, HostStep, BusStep, SendStep,
                BusOverflow, Bus, LoseAnswer, Answer, LoseRequest
  <2> QED
    BY <1>2, <2>1 DEF TimeoutOK
<1> QED
  BY <1>1, <1>2

\* The types, strengthened to be inductive.
THEOREM TypeAlways == Spec => []TypeInv
  BY InitType, NextType, PTL DEF Spec

\* The values keep their types: the place of the goals is never waited for, so
\* no answer is stored past the end of the table.
THEOREM TypeCorrect == Spec => []TypeOK
<1>1. Spec => []TimeoutOK
  BY TimeoutType, PTL DEF Spec
<1>2. TypeInv /\ TimeoutOK => TypeOK
  BY DEF TypeInv, TimeoutOK, TypeOK, PcType
<1> QED
  BY <1>1, <1>2, TypeAlways, PTL

-----------------------------------------------------------------------------
(* Real positions.                                                         *)

\* An answer to a packet that was passed on is a danger only once manual mode
\* has been left.
RealInv == (Outstanding /\ mode # "manual" => "crossed" \in past) /\ PositionsAreReal

LEMMA InitReal == Init => RealInv
  BY DEF Init, RealInv, Outstanding, PositionsAreReal, Filled

\* Steps that leave mode and map, add no packet that was passed on, and record no
\* position.
LEMMA QuietKeepsReal ==
  ASSUME RealInv, Outstanding' => Outstanding, UNCHANGED <<mode, idMap, currPos, remapped>>, past \subseteq past'
  PROVE  RealInv'
  BY DEF RealInv, PositionsAreReal, Filled

LEMMA NextReal == TypeInv /\ RealInv /\ [Next]_vars => RealInv'
<1> SUFFICES ASSUME TypeInv, RealInv, [Next]_vars PROVE RealInv'
  OBVIOUS
<1>0. busRx \in Seq(Answers)
  BY DEF TypeInv, BusType, Answers
<1>1. CASE Call \/ SyncWriteRaw \/ Receive \/ GiveUp \/ BusOverflow \/ LoseRequest \/ UNCHANGED vars
  <2>1. UNCHANGED <<asked, busRx, mode, idMap, currPos, remapped>> /\ past \subseteq past'
    BY <1>1 DEF Call, SyncWriteRaw, Send, Receive, GiveUp, BusOverflow, LoseRequest, vars, table, links
  <2> QED
    BY <2>1, QuietKeepsReal DEF Outstanding
<1>2. CASE HostStep
  <2>1. UNCHANGED <<busRx, currPos>>
    BY <1>2 DEF HostStep
  <2>2. CASE hostRx = <<>>
    BY <1>2, <2>1, <2>2, QuietKeepsReal DEF HostStep, Outstanding
  <2>3. CASE hostRx # <<>>
    <3> DEFINE p == Head(hostRx)
    <3>1. ProcessHostPacket(p)
      BY <1>2, <2>3 DEF HostStep
    <3>2. past \subseteq past'
      BY <3>1 DEF ProcessHostPacket
    <3>3. CASE p.op = "bus"
      <4>1. UNCHANGED <<mode, idMap, remapped>> /\ (mode = "manual" \/ asked' = asked)
        BY <3>1, <3>3 DEF ProcessHostPacket
      <4> QED
        BY <2>1, <3>2, <4>1 DEF RealInv, Outstanding, PositionsAreReal, Filled
    <3>4. CASE p.op # "bus"
      <4>1. asked' = asked /\ (mode = "manual" /\ mode' # "manual" /\ Outstanding => "crossed" \in past')
        BY <3>1, <3>4 DEF ProcessHostPacket
      <4>2. Outstanding' = Outstanding
        BY <2>1, <4>1 DEF Outstanding
      <4>3. \A k \in Places : (idMap'[k] = idMap[k] \/ k \in remapped') /\ (k \in remapped => k \in remapped')
        BY <3>1, <3>4 DEF ProcessHostPacket
      <4> QED
        BY <2>1, <3>2, <4>1, <4>2, <4>3 DEF RealInv, PositionsAreReal, Filled
    <3> QED
      BY <3>3, <3>4
  <2> QED
    BY <2>2, <2>3
<1>3. CASE BusStep
  <2>1. UNCHANGED <<mode, idMap, asked, past>>
    BY <1>3 DEF BusStep
  <2>2. CASE busRx = <<>>
    BY <1>3, <2>1, <2>2, QuietKeepsReal DEF BusStep, Outstanding
  <2>3. CASE busRx # <<>>
    <3> DEFINE a == Head(busRx)
    <3>1. busRx' = Tail(busRx)
      BY <1>3, <2>3 DEF BusStep
    <3>2. \A x \in DOMAIN busRx' : x + 1 \in DOMAIN busRx /\ busRx'[x] = busRx[x + 1]
      BY <1>0, <2>3, <3>1
    <3>3. Outstanding' => Outstanding
      BY <2>1, <3>2 DEF Outstanding
    <3>4. a = busRx[1] /\ 1 \in DOMAIN busRx /\ a \in Answers
      BY <1>0, <2>3
    <3>5. a.what = "other" => Outstanding
      BY <3>4 DEF Outstanding
    <3>6. CASE UNCHANGED <<currPos, remapped>>
      BY <2>1, <3>3, <3>6, QuietKeepsReal
    <3>7. CASE /\ mode # "manual" /\ RightAnswer(a)
               /\ currPos' = [currPos EXCEPT ![currServo] = [id |-> a.id, what |-> a.what]]
               /\ remapped' = remapped \ {currServo}
      <4>1. a.what # "position" => "crossed" \in past
        BY <3>4, <3>5, <3>7 DEF RealInv, Answers, Messages
      <4>2. ASSUME NEW k \in Places, Filled(k)'
            PROVE  /\ currPos'[k].id = idMap'[k] \/ k \in remapped'
                   /\ currPos'[k].what = "position" \/ "crossed" \in past'
        <5>1. CASE k = currServo
          <6>1. currPos'[k].id = a.id /\ currPos'[k].what = a.what
            BY <3>7, <5>1 DEF TypeInv, TableType
          <6> QED
            BY <2>1, <3>7, <4>1, <5>1, <6>1 DEF RightAnswer
        <5>2. CASE k # currServo
          <6>1. currPos'[k] = currPos[k] /\ (k \in remapped => k \in remapped')
            BY <3>7, <5>2 DEF TypeInv, TableType
          <6> QED
            BY <2>1, <4>2, <6>1 DEF RealInv, PositionsAreReal, Filled
        <5> QED
          BY <5>1, <5>2
      <4> QED
        BY <2>1, <3>3, <4>2 DEF RealInv, PositionsAreReal
    <3> QED
      BY <1>3, <2>3, <3>6, <3>7 DEF BusStep
  <2> QED
    BY <2>2, <2>3
<1>4. CASE SendStep
  <2>1. UNCHANGED <<mode, idMap, currPos, remapped, busRx, past>>
    BY <1>4 DEF SendStep
  <2>2. \A q \in asked' : q \in asked \/ q.what = "position"
    BY <1>4 DEF SendStep
  <2>3. Outstanding' => Outstanding
    BY <2>1, <2>2 DEF Outstanding
  <2> QED
    BY <2>1, <2>3, QuietKeepsReal
<1>5. CASE Bus
  <2>1. PICK q \in asked : LoseAnswer(q) \/ \E ok \in BOOLEAN : Answer(q, ok)
    BY <1>5 DEF Bus
  <2>2. UNCHANGED <<mode, idMap, currPos, remapped, past>> /\ asked' \subseteq asked
    BY <2>1 DEF LoseAnswer, Answer, table
  <2>3. CASE LoseAnswer(q)
    BY <2>2, <2>3, QuietKeepsReal DEF LoseAnswer, Outstanding
  <2>4. ASSUME NEW ok \in BOOLEAN, Answer(q, ok) PROVE RealInv'
    <3> DEFINE a == [id |-> q.id, what |-> q.what, ok |-> ok]
    <3>1. busRx' = Append(busRx, a) /\ a.what = q.what
      BY <2>4 DEF Answer
    <3>2. \A x \in DOMAIN busRx' : (x \in DOMAIN busRx /\ busRx'[x] = busRx[x]) \/ busRx'[x] = a
      <4> HIDE DEF a
      <4> QED
        BY <1>0, <3>1
    <3>3. Outstanding' => Outstanding
      BY <2>2, <3>1, <3>2 DEF Outstanding
    <3> QED
      BY <2>2, <3>3, QuietKeepsReal
  <2> QED
    BY <2>1, <2>3, <2>4
<1> QED
  BY <1>1, <1>2, <1>3, <1>4, <1>5 DEF Next, Main

\* What stands in a place of the table was reported by the servo the map names there,
\* or the place was given another servo since, for any maps the host writes one after
\* the other; and it is a position, unless manual mode was left while a packet that
\* was passed on awaited its answer.
THEOREM PositionsAreRealAlways == Spec => []PositionsAreReal
<1>1. Init => TypeInv /\ RealInv
  BY InitType, InitReal
<1>2. TypeInv /\ RealInv /\ [Next]_vars => (TypeInv /\ RealInv)'
  BY NextType, NextReal
<1>3. RealInv => PositionsAreReal
  BY DEF RealInv
<1> QED
  BY <1>1, <1>2, <1>3, PTL DEF Spec

-----------------------------------------------------------------------------
(* Own replies.                                                            *)

\* As long as nothing is left over, there is at most one request or reply under
\* way besides packets for the bus: that of the call that waits.
OneUnderWay ==
  /\ call = None => toHost = <<>> /\ \A x \in DOMAIN hostRx : hostRx[x].op = "bus"
  /\ toHost # <<>> => Tail(toHost) = <<>> /\ Head(toHost).no = call
  /\ \A x \in DOMAIN hostRx : hostRx[x].op # "bus" =>
       x = Len(hostRx) /\ hostRx[x].no = call /\ toHost = <<>>

OwnInv == "behind" \in past \/ ("wrong" \notin past /\ OneUnderWay)

LEMMA InitOwn == Init => OwnInv
  BY DEF Init, OwnInv, OneUnderWay

LEMMA QuietKeepsOwn ==
  ASSUME OwnInv, hostRx' = hostRx, toHost' = toHost, call' = call, past' = past
  PROVE  OwnInv'
  BY DEF OwnInv, OneUnderWay

LEMMA NextOwn == TypeInv /\ OwnInv /\ [Next]_vars => OwnInv'
<1> SUFFICES ASSUME TypeInv, OwnInv, [Next]_vars PROVE OwnInv'
  OBVIOUS
<1>0. hostRx \in Seq(Requests) /\ toHost \in Seq(Replies) /\ calls \in Nat /\ None \notin Nat
  BY SizeAssumption DEF TypeInv, HostType, Replies
<1>1. ASSUME NEW op, NEW arg, Send(op, arg), call' = IF op = "bus" THEN call ELSE calls + 1
      PROVE  OwnInv'
  <2> DEFINE r == Request(op, arg)
  <2>1. /\ hostRx' = Append(hostRx, r) /\ UNCHANGED <<toHost, past>> /\ call = None
        /\ r.op = op /\ r.no = calls + 1
    BY <1>1 DEF Send, Request
  <2>2. /\ Len(hostRx') = Len(hostRx) + 1 /\ DOMAIN hostRx = 1 .. Len(hostRx) /\ Len(hostRx) \in Nat
        /\ DOMAIN hostRx' = 1 .. Len(hostRx')
        /\ \A x \in DOMAIN hostRx : hostRx'[x] = hostRx[x]
        /\ hostRx'[Len(hostRx')] = r
    <3> HIDE DEF r
    <3> QED
      BY <1>0, <2>1
  <2>3. \A x \in DOMAIN hostRx' : x \in DOMAIN hostRx \/ x = Len(hostRx')
    BY <2>2
  <2>4. CASE "behind" \in past
    BY <2>1, <2>4 DEF OwnInv
  <2>5. CASE "behind" \notin past
    <3> HIDE DEF r
    <3>1. "wrong" \notin past /\ toHost = <<>> /\ \A x \in DOMAIN hostRx : hostRx[x].op = "bus"
      BY <2>1, <2>5 DEF OwnInv, OneUnderWay
    <3>2. \A x \in DOMAIN hostRx' : hostRx'[x].op # "bus" => x = Len(hostRx') /\ op # "bus"
      BY <2>1, <2>2, <2>3, <3>1
    <3>3. call' = None => op = "bus"
      BY <1>0, <1>1
    <3>4. \A x \in DOMAIN hostRx' : hostRx'[x].op # "bus" => hostRx'[x].no = call'
      BY <1>1, <2>1, <2>2, <3>2
    <3> QED
      BY <2>1, <3>1, <3>2, <3>3, <3>4 DEF OwnInv, OneUnderWay
  <2> QED
    BY <2>4, <2>5
<1>2. CASE Call \/ SyncWriteRaw
  BY <1>1, <1>2 DEF Call, SyncWriteRaw
<1>3. CASE Receive
  <2>1. /\ call # None /\ toHost # <<>> /\ toHost' = Tail(toHost) /\ call' = None /\ hostRx' = hostRx
        /\ past' = past \cup {h \in {"wrong"} : Head(toHost).ok /\ Head(toHost).no # call}
    BY <1>3 DEF Receive
  <2>2. CASE "behind" \in past
    BY <2>1, <2>2 DEF OwnInv
  <2>3. CASE "behind" \notin past
    <3>1. /\ "wrong" \notin past /\ Tail(toHost) = <<>> /\ Head(toHost).no = call
          /\ \A x \in DOMAIN hostRx : hostRx[x].op = "bus"
      BY <2>1, <2>3 DEF OwnInv, OneUnderWay
    <3>2. "wrong" \notin past'
      BY <2>1, <3>1
    <3> QED
      BY <2>1, <3>1, <3>2 DEF OwnInv, OneUnderWay
  <2> QED
    BY <2>2, <2>3
<1>4. CASE GiveUp
  BY <1>4 DEF GiveUp, OwnInv
<1>5. CASE HostStep
  <2>1. call' = call
    BY <1>5 DEF HostStep, host
  <2>2. CASE hostRx = <<>>
    BY <1>5, <2>1, <2>2, QuietKeepsOwn DEF HostStep
  <2>3. CASE hostRx # <<>>
    <3> DEFINE p == Head(hostRx)
    <3>1. hostRx' = Tail(hostRx) /\ ProcessHostPacket(p)
      BY <1>5, <2>3 DEF HostStep
    <3>2. p = hostRx[1] /\ 1 \in DOMAIN hostRx
      BY <1>0, <2>3
    <3>3. /\ \A x \in DOMAIN hostRx' : x + 1 \in DOMAIN hostRx /\ hostRx'[x] = hostRx[x + 1]
          /\ \A x \in DOMAIN hostRx' : (x + 1 = Len(hostRx)) => x = Len(hostRx')
      BY <1>0, <2>3, <3>1
    <3>4. CASE "behind" \in past'
      BY <3>4 DEF OwnInv
    <3>5. CASE "behind" \notin past'
      <4>1. "behind" \notin past /\ ("wrong" \in past' => "wrong" \in past)
        <5>1. past' \in {past, past \cup {"behind"}} \/ past' = past \cup {h \in {"crossed"} :
                mode = "manual" /\ mode' # "manual" /\ Outstanding}
          BY <3>1 DEF ProcessHostPacket
        <5> QED
          BY <3>5, <5>1
      <4>2. "wrong" \notin past' /\ OneUnderWay
        BY <4>1 DEF OwnInv
      <4>3. CASE p.op = "bus"
        <5>1. toHost' = toHost
          BY <3>1, <3>5, <4>3 DEF ProcessHostPacket
        <5> QED
          BY <2>1, <3>3, <4>2, <5>1 DEF OwnInv, OneUnderWay
      <4>4. CASE p.op # "bus"
        <5>1. Len(hostRx) = 1 /\ p.no = call /\ toHost = <<>> /\ call # None
          BY <3>2, <4>2, <4>4 DEF OneUnderWay
        <5>2. toHost' = Append(toHost, [no |-> p.no, ok |-> TRUE])
          BY <3>1, <4>4 DEF ProcessHostPacket, Reply
        <5>3. PICK r : toHost' = Append(<<>>, r) /\ r.no = call
          <6>1. [no |-> p.no, ok |-> TRUE].no = call
            BY <5>1
          <6> QED
            BY <5>1, <5>2, <6>1
        <5>4. Tail(toHost') = <<>> /\ Head(toHost').no = call
          BY <5>3
        <5>5. DOMAIN hostRx' = {}
          BY <1>0, <3>1, <5>1
        <5> QED
          BY <2>1, <4>2, <5>1, <5>4, <5>5 DEF OwnInv, OneUnderWay
      <4> QED
        BY <4>3, <4>4
    <3> QED
      BY <3>4, <3>5
  <2> QED
    BY <2>2, <2>3
<1>6. CASE BusStep \/ SendStep \/ BusOverflow \/ UNCHANGED vars
  BY <1>6, QuietKeepsOwn DEF BusStep, SendStep, BusOverflow, vars, links, host
<1>7. CASE Bus
  BY <1>7, QuietKeepsOwn DEF Bus, LoseAnswer, Answer, host
<1>8. CASE LoseRequest
  <2>1. hostRx # <<>> /\ hostRx' = Tail(hostRx) /\ UNCHANGED <<toHost, call, past>>
    BY <1>8 DEF LoseRequest, host
  <2>2. /\ \A x \in DOMAIN hostRx' : x + 1 \in DOMAIN hostRx /\ hostRx'[x] = hostRx[x + 1]
        /\ \A x \in DOMAIN hostRx' : (x + 1 = Len(hostRx)) => x = Len(hostRx')
    BY <1>0, <2>1
  <2> QED
    BY <2>1, <2>2 DEF OwnInv, OneUnderWay
<1> QED
  BY <1>2, <1>3, <1>4, <1>5, <1>6, <1>7, <1>8 DEF Next, Main

\* A call that succeeds has its own reply, until a call gives up or a packet for
\* the bus is refused: only one request is under way, so order is enough.
THEOREM OwnReplyAlways == Spec => []OwnReply
<1>1. Init => TypeInv /\ OwnInv
  BY InitType, InitOwn
<1>2. TypeInv /\ OwnInv /\ [Next]_vars => (TypeInv /\ OwnInv)'
  BY NextType, NextOwn
<1>3. OwnInv => OwnReply
  BY DEF OwnInv, OwnReply
<1> QED
  BY <1>1, <1>2, <1>3, PTL DEF Spec
=============================================================================
