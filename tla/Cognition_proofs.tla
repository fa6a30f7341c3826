--------------------------- MODULE Cognition_proofs ---------------------------
(***************************************************************************)
(* Theorems about the two parts of the cognition process that listen to    *)
(* the network, for every value of their constants.                        *)
(*                                                                         *)
(* GameControl: its types, and that every update judges the silence of the *)
(* controller rightly.  Three clocks are compared, each set back by other  *)
(* events: upd by a packet that is followed, rcvd by any datagram, heard   *)
(* by a packet of ours; ClockInv relates them.  And, what strays and late  *)
(* packets cannot undo: a player that was told what is announced.          *)
(*                                                                         *)
(* TeamRoles: its types, that a choice has one outcome, and that robots    *)
(* which agree on who attacks and who defends go on doing so until         *)
(* something changes around them.                                          *)
(***************************************************************************)
EXTENDS GameControl, TeamRoles, FiniteSetTheorems, WellFoundedInduction, TLAPS

USE DEF GameState, Playing

\* The least-number principle, for sets instead of predicates.
LEMMA LeastNumber ==
  ASSUME NEW T \in SUBSET Nat, T # {}
  PROVE  \E x \in T : \A y \in T : x <= y
<1> DEFINE R == OpToRel(<, Nat)
<1>1. IsWellFoundedOn(R, Nat)
  BY NatLessThanWellFounded
<1>2. \E x \in T : \A y \in T : <<y, x>> \notin R
  <2> HIDE DEF R
  <2> QED
    BY <1>1, WFMin
<1>3. \A x, y \in Nat : x < y => <<x, y>> \in R
  BY DEF OpToRel
<1> HIDE DEF R
<1>4. PICK x \in T : \A y \in T : <<y, x>> \notin R
  BY <1>2
<1>5. ASSUME NEW y \in T PROVE x <= y
  <2>1. x \in Nat /\ y \in Nat
    OBVIOUS
  <2>2. ~ (y < x)
    BY <1>3, <1>4, <2>1
  <2> QED
    BY <2>1, <2>2
<1> QED
  BY <1>5

\* A set of numbers with an upper bound has a greatest one.
LEMMA GreatestNumber ==
  ASSUME NEW T \in SUBSET Nat, T # {}, NEW n \in Nat, \A x \in T : x <= n
  PROVE  Max(T) \in T /\ \A y \in T : y <= Max(T)
<1> DEFINE U == {n - x : x \in T}
<1>1. U \in SUBSET Nat /\ U # {}
  <2>1. ASSUME NEW x \in T PROVE n - x \in Nat
    <3>1. x \in Nat /\ x <= n
      OBVIOUS
    <3> QED
      BY <3>1
  <2> QED
    BY <2>1
<1>2. PICK u \in U : \A v \in U : u <= v
  <2> HIDE DEF U
  <2> QED
    BY <1>1, LeastNumber
<1>3. PICK x \in T : u = n - x
  OBVIOUS
<1>4. ASSUME NEW y \in T PROVE x >= y
  <2>1. n - y \in U /\ x \in Nat /\ y \in Nat
    OBVIOUS
  <2>2. n - x <= n - y
    BY <1>2, <1>3, <2>1
  <2> QED
    BY <2>1, <2>2
<1>5. \E z \in T : \A y \in T : z >= y
  BY <1>4
<1>6. Max(T) \in T /\ \A y \in T : Max(T) >= y
  BY <1>5 DEF Max
<1>7. ASSUME NEW y \in T PROVE y <= Max(T)
  <2>1. Max(T) \in Nat /\ y \in Nat /\ Max(T) >= y
    BY <1>6
  <2> QED
    BY <2>1
<1> QED
  BY <1>6, <1>7

-----------------------------------------------------------------------------
(* The types.                                                              *)

Datagrams == Packets \cup {Other, Junk}

\* BoundedSeq in the terms the provers know.
LEMMA BoundedSocket ==
  \A s : s \in BoundedSeq(Datagrams, Room) <=> s \in Seq(Datagrams) /\ Len(s) <= Room
<1> TAKE s
<1>1. ASSUME s \in BoundedSeq(Datagrams, Room)
      PROVE  s \in Seq(Datagrams) /\ Len(s) <= Room
  <2>1. PICK k \in 0 .. Room : s \in [1 .. k -> Datagrams]
    BY <1>1 DEF BoundedSeq, SeqOf
  <2>2. k \in Nat /\ k <= Room
    BY <2>1, BoundAssumption
  <2> QED
    BY <2>1, <2>2
<1>2. ASSUME s \in Seq(Datagrams), Len(s) <= Room
      PROVE  s \in BoundedSeq(Datagrams, Room)
  <2>1. Len(s) \in 0 .. Room /\ s \in [1 .. Len(s) -> Datagrams]
    BY <1>2, BoundAssumption
  <2> QED
    BY <2>1 DEF BoundedSeq, SeqOf
<1> QED
  BY <1>1, <1>2

LEMMA EmptySocket == <<>> \in BoundedSeq(Datagrams, Room)
<1>1. <<>> \in Seq(Datagrams)
  OBVIOUS
<1>2. Len(<<>>) <= Room
  BY BoundAssumption
<1> QED
  BY <1>1, <1>2, BoundedSocket, Zenon

\* What receive() keeps has the header, and comes from the socket or from before.
LEMMA NewestKnown ==
  ASSUME TypeOK
  PROVE  /\ WithHeader = {} => Newest = pkt
         /\ WithHeader # {} => Newest \in Packets \cup {Other}
         /\ Newest \in Packets \cup {Other, NoPacket}
<1>1. sock \in Seq(Datagrams)
  BY BoundedSocket DEF TypeOK, Datagrams
<1>2. WithHeader \in SUBSET Nat /\ \A i \in WithHeader : i <= Len(sock)
  BY <1>1 DEF WithHeader
<1>3. ASSUME WithHeader # {} PROVE Max(WithHeader) \in WithHeader
  <2>1. Len(sock) \in Nat
    BY <1>1
  <2> QED
    BY <1>2, <1>3, <2>1, GreatestNumber, Zenon
<1>4. WithHeader # {} => Newest \in Packets \cup {Other}
  BY <1>1, <1>3 DEF Newest, WithHeader, Datagrams
<1> QED
  BY <1>4 DEF TypeOK, Newest

\* Every action keeps the types.
LEMMA TypeStep ==
  ASSUME TypeOK, [Next]_vars
  PROVE  TypeOK'
<1> USE LevelAssumption, BoundAssumption DEF TypeOK
<1>1. CASE Update
  <2>1. /\ pkt' \in Packets \cup {Other, NoPacket}
        /\ Newest \in Packets => Newest.state \in GameState /\ Newest.pen \in BOOLEAN
    BY <1>1, NewestKnown, PacketAssumption DEF Update
  <2>2. sock' \in BoundedSeq(Datagrams, Room) /\ rcvd' \in 0 .. Limit
    BY <1>1, EmptySocket DEF Update, Age
  <2>3. /\ heard' \in 0 .. 2 * Limit + 1 /\ fooled' \in BOOLEAN
        /\ seen' \in Levels \cup {0}
    <3>1. heard' \in 0 .. 2 * Limit + 1 /\ seen' \in Levels \cup {0}
      BY <1>1 DEF Update
    <3>2. fooled' \in BOOLEAN
      BY <1>1, Zenon DEF Update
    <3> QED
      BY <3>1, <3>2
  <2>4. /\ upd' \in 0 .. Limit + 1 /\ pressed' \in Levels \cup {0}
        /\ mode' \in {"start", "fresh", "kept", "buttons", "silent"}
    BY <1>1 DEF Update, Follow, Buttons, Silent, control
  <2>5. /\ gameState' \in GameState /\ pen' \in BOOLEAN
        /\ gcm' \in [state : GameState, pen : BOOLEAN]
    <3>1. CASE Follow
      BY <2>1, <3>1 DEF Follow, Followed, UpdateShm
    <3>2. CASE Buttons
      <4>1. gameState' = Advanced /\ Advanced \in GameState
        BY <3>2 DEF Buttons, Advanced
      <4>2. pen' \in BOOLEAN
        BY <3>2, Zenon DEF Buttons
      <4> QED
        BY <3>2, <4>1, <4>2 DEF Buttons, UpdateShm
    <3>3. CASE Silent
      BY <3>3 DEF Silent, UpdateShm, control
    <3> QED
      BY <1>1, <3>1, <3>2, <3>3 DEF Update
  <2> QED
    BY <1>1, <2>1, <2>2, <2>3, <2>4, <2>5 DEF Update, Datagrams
<1>2. CASE Tick
  BY <1>2 DEF Tick, Min2, network, shm
<1>3. CASE \E l \in Levels : Press(l)
  BY <1>3 DEF Press, network, receiver, control, shm, history
<1>4. CASE PlayerRestart
  BY <1>4 DEF PlayerRestart, network, receiver, control, history
<1>5. CASE Unpause
  BY <1>5 DEF Unpause, network, receiver, control, history
<1>6. CASE CognitionRestart
  <2>1. rcvd' \in 0 .. Limit /\ upd' \in 0 .. Limit + 1 /\ heard' \in 0 .. 2 * Limit + 1
    BY <1>6 DEF CognitionRestart
  <2>2. restarts' \in 0 .. MaxRestarts
    BY <1>6 DEF CognitionRestart
  <2>3. gcm' \in [state : GameState, pen : BOOLEAN] /\ gameState' \in GameState
    BY <1>6 DEF CognitionRestart
  <2>4. sock' \in BoundedSeq(Packets \cup {Other, Junk}, Room)
    BY <1>6, EmptySocket DEF CognitionRestart, Datagrams
  <2> QED
    BY <1>6, <2>1, <2>2, <2>3, <2>4 DEF CognitionRestart
<1>7. CASE \E p \in Packets : Announce(p)
  BY <1>7 DEF Announce, receiver, control, shm, history
<1>8. CASE HoldBack
  BY <1>8 DEF HoldBack, receiver, control, shm, history
<1>9. CASE SendPacket \/ LetGo \/ \E d \in Strays : Stray(d)
  <2>1. PICK d \in Datagrams : Arrives(d)
    BY <1>9, StrayAssumption DEF SendPacket, LetGo, Stray, Datagrams
  <2>2. sock' \in BoundedSeq(Datagrams, Room)
    <3>1. sock \in Seq(Datagrams)
      BY BoundedSocket DEF Datagrams
    <3>2. sock' \in Seq(Datagrams) /\ Len(sock') <= Room
      BY <2>1, <3>1 DEF Arrives
    <3> QED
      BY <3>2, BoundedSocket
  <2>3. late' \in Packets \cup {NoPacket}
    BY <1>9 DEF SendPacket, LetGo, Stray
  <2> QED
    BY <1>9, <2>2, <2>3 DEF SendPacket, LetGo, Stray, receiver, control, shm, history,
       Datagrams
<1>10. CASE UNCHANGED vars
  BY <1>10 DEF vars, network, receiver, control, shm, history
<1> QED
  BY <1>1, <1>2, <1>3, <1>4, <1>5, <1>6, <1>7, <1>8, <1>9, <1>10 DEF Next, Environment

\* The types of GameControl hold for every set of announcements and every limit.
THEOREM TypeCorrect == Spec => []TypeOK
<1>1. Init => TypeOK
  <2> SUFFICES ASSUME Init PROVE TypeOK
    OBVIOUS
  <2>1. sock \in BoundedSeq(Packets \cup {Other, Junk}, Room)
    BY EmptySocket DEF Init, Datagrams
  <2>2. /\ rcvd \in 0 .. Limit /\ upd \in 0 .. Limit + 1
        /\ heard \in 0 .. 2 * Limit + 1 /\ restarts \in 0 .. MaxRestarts
    BY BoundAssumption DEF Init
  <2>3. gcm \in [state : GameState, pen : BOOLEAN] /\ gameState \in GameState
    BY DEF Init
  <2> QED
    BY <2>1, <2>2, <2>3 DEF Init, TypeOK
<1> QED
  BY <1>1, TypeStep, PTL DEF Spec

-----------------------------------------------------------------------------
(* The silence of the controller.                                          *)

\* upd runs no longer than heard, since what is heard is followed.  While no
\* headerless datagram has come in between, the packet held is at least as old
\* as the silence, and upd lags behind the silence by at most the limit: the
\* time the last packet is followed.
ClockInv ==
  /\ upd <= heard
  /\ ~fooled /\ pkt \in Packets => Min2(heard, Limit) <= rcvd
  /\ ~fooled => heard <= upd + Limit

\* A packet of ours that is taken is followed: its age is 0.
LEMMA TakenIsFollowed ==
  ASSUME TypeOK, Update, TakesOurs
  PROVE  Follow /\ mode' = "fresh"
<1>1. sock # <<>>
  BY DEF TakesOurs, WithHeader
<1>2. Followed(Newest, Age)
  BY <1>1, BoundAssumption DEF TakesOurs, Followed, Age
<1> QED
  BY <1>2 DEF Update, Follow, Buttons, Silent, TakesOurs

\* Without a packet of ours and without headerless datagrams, a packet that is
\* followed is the one held before, and no datagram came at all.
LEMMA KeptIsOld ==
  ASSUME TypeOK, Update, Newest \in Packets, ~ TakesOurs, ~ fooled'
  PROVE  Newest = pkt /\ Age = rcvd /\ ~ fooled
<1>1. WithHeader = {}
  BY DEF TakesOurs
<1>2. ~ fooled /\ \A i \in DOMAIN sock : sock[i] # Junk
  BY DEF Update, TypeOK
<1>3. DOMAIN sock = {}
  BY <1>1, <1>2 DEF WithHeader
<1>4. sock = <<>>
  <2>1. sock \in Seq(Datagrams)
    BY BoundedSocket DEF TypeOK, Datagrams
  <2> QED
    BY <1>3, <2>1
<1> QED
  BY <1>1, <1>2, <1>4 DEF Newest, Age

LEMMA ClockStep ==
  ASSUME TypeOK, ClockInv, [Next]_vars
  PROVE  ClockInv'
<1>1. /\ upd \in Nat /\ rcvd \in Nat /\ heard \in Nat /\ Limit \in Nat \ {0}
      /\ rcvd <= Limit /\ upd <= Limit + 1 /\ heard <= 2 * Limit + 1
      /\ fooled \in BOOLEAN
  BY BoundAssumption DEF TypeOK
<1>2. CASE Update
  <2>1. CASE TakesOurs
    <3>1. upd' = 0 /\ heard' = 0 /\ rcvd' \in Nat
      BY <1>1, <1>2, <2>1, TakenIsFollowed DEF Update, Follow, Age
    <3> QED
      BY <1>1, <3>1 DEF ClockInv, Min2
  <2>2. CASE ~ TakesOurs
    <3>1. heard' = heard /\ pkt' = Newest /\ rcvd' = Age /\ upd' \in {0, upd}
      BY <1>2, <2>2 DEF Update, Follow, Buttons, Silent, control
    <3>2. upd' <= heard'
      BY <1>1, <3>1 DEF ClockInv
    <3>3. ASSUME ~ fooled', Newest \in Packets
          PROVE  Min2(heard, Limit) <= Age
      <4>1. Newest = pkt /\ Age = rcvd /\ ~ fooled
        BY <1>2, <2>2, <3>3, KeptIsOld
      <4> QED
        BY <3>3, <4>1 DEF ClockInv
    <3>4. ASSUME ~ fooled' PROVE heard <= upd' + Limit
      <4>1. ~ fooled
        BY <1>1, <1>2, <2>2, <3>4 DEF Update
      <4>2. CASE Follow
        <5>1. Newest \in Packets /\ Age < Limit /\ upd' = 0
          BY <4>2 DEF Follow, Followed
        <5>2. Min2(heard, Limit) < Limit
          <6>1. Age \in Nat
            BY <1>1 DEF Age
          <6> QED
            BY <1>1, <3>3, <3>4, <5>1, <6>1 DEF Min2
        <5> QED
          BY <1>1, <5>1, <5>2 DEF Min2
      <4>3. CASE ~ Follow
        <5>1. upd' = upd
          BY <1>2, <4>3 DEF Update, Buttons, Silent, control
        <5> QED
          BY <4>1, <5>1 DEF ClockInv
      <4> QED
        BY <4>2, <4>3
    <3> QED
      BY <3>1, <3>2, <3>3, <3>4 DEF ClockInv
  <2> QED
    BY <2>1, <2>2
<1>3. CASE Tick
  <2>1. /\ upd' = Min2(upd + 1, Limit + 1) /\ rcvd' = Min2(rcvd + 1, Limit)
        /\ heard' = Min2(heard + 1, 2 * Limit + 1)
        /\ fooled' = fooled /\ pkt' = pkt
    BY <1>3 DEF Tick
  <2> QED
    BY <1>1, <2>1 DEF ClockInv, Min2
<1>4. CASE CognitionRestart
  BY <1>1, <1>4 DEF CognitionRestart, ClockInv, Min2
<1>5. CASE ~ Update /\ ~ Tick /\ ~ CognitionRestart
  <2>1. UNCHANGED <<upd, heard, rcvd, pkt, fooled>>
    BY <1>5 DEF Next, Environment, PlayerRestart, Unpause, SendPacket, HoldBack, LetGo,
       Announce, Stray, Press, receiver, control, history, vars
  <2> QED
    BY <2>1 DEF ClockInv, Min2
<1> QED
  BY <1>2, <1>3, <1>4, <1>5

\* One update in a state where the clocks are related as they should be.
LEMMA JudgedRightly ==
  ASSUME TypeOK, ClockInv, Update
  PROVE  ButtonsWait /\ KeptFresh /\ ButtonsInTheEnd
<1>1. /\ upd \in Nat /\ rcvd \in Nat /\ heard \in Nat /\ Limit \in Nat \ {0}
      /\ fooled \in BOOLEAN
  BY BoundAssumption DEF TypeOK
<1>2. ButtonsWait
  <2>1. ASSUME mode' = "buttons" PROVE Quiet(upd)
    BY <2>1 DEF Update, Follow, Buttons, Silent
  <2> QED
    BY <1>1, <2>1 DEF ButtonsWait, Quiet, ClockInv
<1>3. ASSUME mode' = "kept", ~ fooled' PROVE heard < Limit
  <2>1. Newest \in Packets /\ Age < Limit /\ ~ TakesOurs
    BY <1>3 DEF Update, Follow, Followed, Buttons, Silent, TakesOurs
  <2>2. Newest = pkt /\ Age = rcvd /\ ~ fooled
    BY <1>3, <2>1, KeptIsOld
  <2>3. Min2(heard, Limit) <= rcvd /\ rcvd < Limit
    BY <2>1, <2>2 DEF ClockInv
  <2> QED
    BY <1>1, <2>3 DEF Min2
<1>4. ASSUME heard > 2 * Limit, mode' = "silent" PROVE fooled'
  <2>1. Silent
    BY <1>4 DEF Update, Follow, Buttons, Silent
  <2>2. upd <= Limit
    BY <1>1, <2>1 DEF Silent, Quiet
  <2>3. fooled
    BY <1>1, <1>4, <2>2 DEF ClockInv
  <2>4. ~ TakesOurs
    BY <1>4, TakenIsFollowed
  <2> QED
    BY <2>3, <2>4 DEF Update
<1>5. mode' \in {"fresh", "kept", "buttons", "silent"}
  BY DEF Update, Follow, Buttons, Silent
<1>6. ButtonsInTheEnd
  <2>1. CASE mode' = "kept"
    <3>1. heard > 2 * Limit => ~ (heard < Limit)
      BY <1>1
    <3> QED
      BY <1>3, <2>1, <3>1 DEF ButtonsInTheEnd
  <2> QED
    BY <1>4, <1>5, <2>1 DEF ButtonsInTheEnd
<1> QED
  BY <1>2, <1>3, <1>6 DEF KeptFresh

\* The relation of the clocks holds always, across restarts of both processes.
THEOREM ClocksRelated == Spec => []ClockInv
<1>1. Init => ClockInv
  BY BoundAssumption DEF Init, ClockInv, Min2
<1> QED
  BY <1>1, ClockStep, TypeCorrect, PTL DEF Spec

\* The buttons have no say before the limit, no packet is followed beyond it,
\* and the buttons do have a say in the end: in every behaviour of the updates.
THEOREM SilenceJudgedAlways == Spec => SilenceJudged
<1>1. TypeOK /\ ClockInv => [Update => ButtonsWait /\ KeptFresh /\ ButtonsInTheEnd]_vars
  BY JudgedRightly
<1> QED
  BY <1>1, TypeCorrect, ClocksRelated, PTL DEF SilenceJudged

-----------------------------------------------------------------------------
(* What is left of FollowsController without fairness.                     *)

\* Of our controller nothing but p is on its way.
Only(p) ==
  /\ ctl = p /\ late \in {p, NoPacket}
  /\ \A i \in DOMAIN sock : sock[i] \in Packets => sock[i] = p

\* The player reads p, and so does whatever could change that.
Told(p) ==
  /\ Only(p)
  /\ pkt \in Packets => pkt = p
  /\ gameState = p.state /\ pen = p.pen /\ gcm = p

LEMMA OnlyAppended ==
  ASSUME TypeOK, NEW p \in Packets, Only(p), NEW d \in Datagrams, d \in Packets => d = p,
         sock' = Append(sock, d)
  PROVE  \A i \in DOMAIN sock' : sock'[i] \in Packets => sock'[i] = p
<1>1. sock \in Seq(Datagrams)
  BY BoundedSocket DEF TypeOK, Datagrams
<1>2. \A i \in DOMAIN sock' : (i \in DOMAIN sock /\ sock'[i] = sock[i]) \/ sock'[i] = d
  BY <1>1
<1> QED
  BY <1>2 DEF Only

LEMMA OnlyStep ==
  ASSUME TypeOK, NEW p \in Packets, Only(p), [Next]_vars, ctl' = ctl
  PROVE  Only(p)'
<1> USE DEF Only
<1>1. CASE Update
  BY <1>1 DEF Update
<1>2. CASE CognitionRestart
  BY <1>2 DEF CognitionRestart
<1>3. CASE SendPacket
  BY <1>3, OnlyAppended DEF SendPacket, Arrives, Datagrams
<1>4. CASE LetGo
  BY <1>4, StrayAssumption, OnlyAppended DEF LetGo, Arrives, Datagrams
<1>5. ASSUME NEW d \in Strays, Stray(d) PROVE Only(p)'
  <2>1. d \in Datagrams /\ d \notin Packets
    BY StrayAssumption DEF Datagrams
  <2> QED
    BY <1>5, <2>1, OnlyAppended DEF Stray, Arrives
<1>6. CASE HoldBack
  BY <1>6 DEF HoldBack
<1>7. CASE UNCHANGED network
  BY <1>7 DEF network
<1>8. PlayerRestart \/ Unpause \/ Tick => UNCHANGED network
  BY DEF PlayerRestart, Unpause, Tick
<1>9. \A l : Press(l) => UNCHANGED network
  BY DEF Press
<1>10. \A q : ~ Announce(q)
  BY DEF Announce
<1>11. UNCHANGED vars => UNCHANGED network
  BY DEF vars
<1> QED
  BY <1>1, <1>2, <1>3, <1>4, <1>5, <1>6, <1>7, <1>8, <1>9, <1>10, <1>11 DEF Next, Environment

\* What receive() keeps of the socket is p, if it is one of our packets.
LEMMA NewestOnly ==
  ASSUME TypeOK, NEW p \in Packets, Only(p), Newest \in Packets
  PROVE  Newest = p \/ (WithHeader = {} /\ Newest = pkt)
<1>1. CASE WithHeader = {}
  BY <1>1 DEF Newest
<1>2. CASE WithHeader # {}
  <2>1. sock \in Seq(Datagrams)
    BY BoundedSocket DEF TypeOK, Datagrams
  <2>2. WithHeader \in SUBSET Nat /\ Len(sock) \in Nat /\ \A i \in WithHeader : i <= Len(sock)
    BY <2>1 DEF WithHeader
  <2>3. Max(WithHeader) \in WithHeader
    BY <1>2, <2>2, GreatestNumber, Zenon
  <2>4. Newest = sock[Max(WithHeader)] /\ Max(WithHeader) \in DOMAIN sock
    BY <1>2, <2>3 DEF Newest, WithHeader
  <2> QED
    BY <2>4 DEF Only
<1> QED
  BY <1>1, <1>2

LEMMA UpdateTells ==
  ASSUME TypeOK, NEW p \in Packets, Only(p), Update,
         mode' = "fresh" \/ (Told(p) /\ mode' # "buttons")
  PROVE  gameState' = p.state /\ pen' = p.pen /\ gcm' = p /\ (pkt' \in Packets => pkt' = p)
<1>0. p = [state |-> p.state, pen |-> p.pen]
  BY PacketAssumption
<1>1. pkt' = Newest
  BY DEF Update
<1>2. CASE Follow
  <2>1. Newest = p
    <3>1. Newest \in Packets
      BY <1>2 DEF Follow, Followed
    <3>2. CASE WithHeader # {}
      BY <3>1, <3>2, NewestOnly
    <3>3. CASE WithHeader = {}
      <4>1. mode' # "fresh"
        BY <1>2, <3>3 DEF Follow
      <4> QED
        BY <3>1, <4>1, NewestOnly DEF Told
    <3> QED
      BY <3>2, <3>3
  <2> QED
    BY <1>0, <1>1, <1>2, <2>1 DEF Follow, UpdateShm
<1>3. CASE Silent
  <2>1. Told(p) /\ UNCHANGED control
    BY <1>3 DEF Silent
  <2>2. gcm' = p
    BY <1>0, <1>3, <2>1 DEF Silent, UpdateShm, Told
  <2>3. Newest \in Packets => Newest = p
    BY <2>1, NewestOnly DEF Told
  <2> QED
    BY <1>1, <2>1, <2>2, <2>3 DEF Told, control
<1>4. ~ Buttons
  BY DEF Buttons
<1> QED
  BY <1>2, <1>3, <1>4 DEF Update

LEMMA ToldStep ==
  ASSUME TypeOK, NEW p \in Packets, Told(p), [Next]_vars, ctl' = ctl,
         restarts' = restarts, ~ (Update /\ mode' = "buttons")
  PROVE  Told(p)'
<1>1. Only(p)'
  BY OnlyStep DEF Told
<1>2. CASE Update
  BY <1>1, <1>2, UpdateTells DEF Told
<1>3. CASE UNCHANGED <<pkt, gameState, pen, gcm>>
  BY <1>1, <1>3 DEF Told
<1>4. ~ PlayerRestart /\ ~ CognitionRestart
  BY DEF PlayerRestart, CognitionRestart, TypeOK
<1>5. Unpause \/ Tick \/ SendPacket \/ HoldBack \/ LetGo => UNCHANGED <<pkt, gameState, pen, gcm>>
  BY DEF Unpause, Tick, SendPacket, HoldBack, LetGo, receiver, control, shm
<1>6. \A d : Stray(d) \/ Press(d) \/ Announce(d) => UNCHANGED <<pkt, gameState, pen, gcm>>
  BY DEF Stray, Press, Announce, receiver, control, shm
<1>7. UNCHANGED vars => UNCHANGED <<pkt, gameState, pen, gcm>>
  BY DEF vars, receiver, control, shm
<1> QED
  BY <1>2, <1>3, <1>4, <1>5, <1>6, <1>7 DEF Next, Environment

\* As long as the controller keeps to p: once nothing else of it is on its way
\* nothing else will be, the first update that takes a packet then tells the
\* player p, and the player reads p until a process restarts or the buttons have
\* their say - strays, late packets and lost ones change nothing.
THEOREM ToldAndKept ==
  Spec => [][\A p \in Packets : Only(p) /\ ctl' = ctl =>
               /\ Only(p)'
               /\ Update /\ mode' = "fresh" => Told(p)'
               /\ Told(p) /\ restarts' = restarts /\ ~ (Update /\ mode' = "buttons")
                    => Told(p)']_vars
<1>1. ASSUME TypeOK, [Next]_vars, NEW p \in Packets, Only(p), ctl' = ctl
      PROVE  /\ Only(p)'
             /\ Update /\ mode' = "fresh" => Told(p)'
             /\ Told(p) /\ restarts' = restarts /\ ~ (Update /\ mode' = "buttons")
                  => Told(p)'
  <2>1. Only(p)'
    BY <1>1, OnlyStep
  <2>2. ASSUME Update, mode' = "fresh" PROVE Told(p)'
    BY <1>1, <2>1, <2>2, UpdateTells DEF Told
  <2> QED
    BY <1>1, <2>1, <2>2, ToldStep
<1>2. TypeOK /\ [Next]_vars
        => [\A p \in Packets : Only(p) /\ ctl' = ctl =>
              /\ Only(p)'
              /\ Update /\ mode' = "fresh" => Told(p)'
              /\ Told(p) /\ restarts' = restarts /\ ~ (Update /\ mode' = "buttons")
                   => Told(p)']_vars
  BY <1>1
<1> QED
  BY <1>2, TypeCorrect, PTL DEF Spec

-----------------------------------------------------------------------------
(* TeamRoles: the types.                                                   *)

LEMMA RoundedIsNat ==
  ASSUME NEW e \in Nat PROVE Rounded(e) \in Nat
<1>1. Unit \in Nat /\ Unit > 0
  BY EtaAssumption
<1>2. Unit \div 2 \in Nat
  BY <1>1
<1>3. (e + Unit \div 2) \div Unit \in Nat
  BY <1>1, <1>2
<1>4. \A x, y \in Nat : x * y \in Nat
  OBVIOUS
<1> QED
  BY <1>1, <1>3, <1>4 DEF Rounded

LEMMA EntryNumbers ==
  ASSUME NEW e \in Entries \cup Exact
  PROVE  e.role \in Roles /\ e.far \in Nat /\ e.out \in BOOLEAN /\ e.age \in Ages
  BY RoundedIsNat, EtaAssumption DEF Entries, Exact

\* A choice is a role, whatever it is made from.
LEMMA ChoiceIsRole == \A r, v, d : Choice(r, v, d) \in Roles
  BY DEF Choice, Roles, Attack, Defend, Support

LEMMA MessageType ==
  ASSUME TeamTypeOK, NEW r \in Players
  PROVE  Message(r) \in Messages /\ Message(r) # NoMsg
  BY NoMsgAssumption DEF TeamTypeOK, Message, Messages

LEMMA EntryType ==
  ASSUME NEW x \in Messages
  PROVE  Entry(x, 0) \in Entries /\ Entry(x, 0) # NoMsg
  BY NoMsgAssumption, TimeAssumption DEF Entry, Entries, Messages, Ages

\* What r chooses from: its own state as it is, the others' as they were sent.
LEMMA KnownType ==
  ASSUME TeamTypeOK, NEW r \in Players, NEW s \in Players
  PROVE  /\ s = r => Known(r)[s] = [role |-> role[r], far |-> far[r], out |-> out[r], age |-> 0]
         /\ s # r => /\ air[s][r] # NoMsg => Known(r)[s] = Entry(air[s][r], 0)
                     /\ air[s][r] = NoMsg => Known(r)[s] = view[r][s]
                     /\ Known(r)[s] \in Entries \cup {NoMsg}
<1>1. CASE s = r
  BY <1>1 DEF Known, Message, Entry
<1>2. CASE s # r
  <2>1. air[s][r] \in Messages \cup {NoMsg} /\ view[r][s] \in Entries \cup {NoMsg}
    BY DEF TeamTypeOK
  <2>2. air[s][r] # NoMsg => Known(r)[s] = Entry(air[s][r], 0)
    BY <1>2 DEF Known
  <2>3. air[s][r] = NoMsg => Known(r)[s] = view[r][s]
    BY <1>2 DEF Known
  <2> QED
    BY <1>2, <2>1, <2>2, <2>3, EntryType
<1> QED
  BY <1>1, <1>2

\* Its own entry, as it is.
LEMMA OwnEntry ==
  ASSUME TeamTypeOK, NEW r \in Players
  PROVE  /\ Known(r)[r] \in Exact /\ Known(r)[r] # NoMsg /\ Known(r)[r].age = 0
         /\ Known(r)[r].role = role[r] /\ Known(r)[r].far = far[r] /\ Known(r)[r].out = out[r]
<1>1. Known(r)[r] = [role |-> role[r], far |-> far[r], out |-> out[r], age |-> 0]
  BY KnownType
<1>2. role[r] \in Roles /\ far[r] \in Etas /\ out[r] \in BOOLEAN /\ 0 \in Ages
  BY TimeAssumption DEF TeamTypeOK, Ages
<1>3. Known(r)[r] \in Exact
  BY <1>1, <1>2 DEF Exact
<1> QED
  BY <1>1, <1>3, NoMsgAssumption

LEMMA OlderType ==
  ASSUME NEW e \in Entries \cup {NoMsg}
  PROVE  /\ Older(e) \in Entries \cup {NoMsg}
         /\ e = NoMsg <=> Older(e) = NoMsg
         /\ e # NoMsg =>
              /\ Older(e).role = e.role /\ Older(e).far = e.far /\ Older(e).out = e.out
              /\ Older(e).age = IF e.age > Timeout THEN e.age ELSE e.age + 1
<1>1. CASE e = NoMsg
  BY <1>1 DEF Older
<1>2. CASE e # NoMsg
  <2> DEFINE a == IF e.age > Timeout THEN e.age ELSE e.age + 1
  <2>1. e \in Entries /\ e.age \in Ages
    BY <1>2, EntryNumbers
  <2>2. a \in Ages
    BY <2>1, TimeAssumption DEF Ages
  <2>3. Older(e) = [e EXCEPT !.age = a]
    BY <1>2 DEF Older
  <2> HIDE DEF a
  <2>4. Older(e) \in Entries /\ Older(e).age = a
    BY <2>1, <2>2, <2>3 DEF Entries
  <2>5. Older(e).role = e.role /\ Older(e).far = e.far /\ Older(e).out = e.out
    BY <2>1, <2>3 DEF Entries
  <2>6. Older(e) # NoMsg
    BY <2>4, NoMsgAssumption
  <2> QED
    BY <1>2, <2>4, <2>5, <2>6 DEF a
<1> QED
  BY <1>1, <1>2

LEMMA TeamInitType == TeamInit => TeamTypeOK
<1> SUFFICES ASSUME TeamInit PROVE TeamTypeOK
  OBVIOUS
<1>1. \A r \in Players : FirstRole(r) \in Roles
  BY PlayerAssumption DEF FirstRole, Roles, Attack, Defend, Support
<1>2. role \in [Players -> Roles]
  BY <1>1 DEF TeamInit
<1> QED
  BY <1>2, TimeAssumption DEF TeamInit, TeamTypeOK

LEMMA UpdateType ==
  ASSUME TeamTypeOK, NEW r \in Players, TeamUpdate(r) PROVE TeamTypeOK'
<1>1. role' \in [Players -> Roles]
  BY ChoiceIsRole DEF TeamTypeOK, TeamUpdate
<1>2. view' \in [Players -> [Players -> Entries \cup {NoMsg}]]
  <2> DEFINE row == [Known(r) EXCEPT ![r] = NoMsg]
  <2>1. row \in [Players -> Entries \cup {NoMsg}]
    <3>1. DOMAIN Known(r) = Players /\ Known(r) = [s \in Players |-> Known(r)[s]]
      BY DEF Known
    <3>2. \A s \in Players \ {r} : Known(r)[s] \in Entries \cup {NoMsg}
      BY KnownType
    <3> QED
      BY <3>1, <3>2
  <2>2. view' = [view EXCEPT ![r] = row]
    BY DEF TeamUpdate
  <2> HIDE DEF row
  <2> QED
    BY <2>1, <2>2 DEF TeamTypeOK
<1>3. air' \in [Players -> [Players -> Messages \cup {NoMsg}]]
  <2>1. PICK lost \in SUBSET (Players \ {r}) :
          air' = [s \in Players |-> [t \in Players |->
                   CASE s = r /\ t # r /\ t \notin lost -> Message(r)
                     [] t = r -> NoMsg
                     [] OTHER -> air[s][t]]]
    BY DEF TeamUpdate
  <2>2. \A s, t \in Players : air[s][t] \in Messages \cup {NoMsg}
    BY DEF TeamTypeOK
  <2> QED
    BY <2>1, <2>2, MessageType
<1>4. changes' \in 0 .. MaxChanges
  BY TimeAssumption DEF TeamTypeOK, TeamUpdate, Change
<1> QED
  BY <1>1, <1>2, <1>3, <1>4 DEF TeamTypeOK, TeamUpdate

LEMMA TeamNextType == TeamTypeOK /\ [TeamNext]_teamVars => TeamTypeOK'
<1> SUFFICES ASSUME TeamTypeOK, [TeamNext]_teamVars PROVE TeamTypeOK'
  OBVIOUS
<1>1. ASSUME NEW r \in Players, TeamUpdate(r) PROVE TeamTypeOK'
  BY <1>1, UpdateType
<1>2. ASSUME NEW r \in Players, Moves(r) PROVE TeamTypeOK'
  BY <1>2, TimeAssumption DEF Moves, Change, TeamTypeOK
<1>3. ASSUME NEW r \in Players, Penalty(r) PROVE TeamTypeOK'
  BY <1>3, TimeAssumption DEF Penalty, Change, TeamTypeOK
<1>4. ASSUME NEW r \in Players, Crash(r) PROVE TeamTypeOK'
  BY <1>4, TimeAssumption DEF Crash, Change, TeamTypeOK
<1>5. ASSUME NEW r \in Players, Restart(r) PROVE TeamTypeOK'
  <2>1. FirstRole(r) \in Roles
    BY PlayerAssumption DEF FirstRole, Roles, Attack, Defend, Support
  <2>2. air' \in [Players -> [Players -> Messages \cup {NoMsg}]]
    BY <1>5 DEF Restart, TeamTypeOK
  <2> QED
    BY <1>5, <2>1, <2>2 DEF Restart, TeamTypeOK
<1>6. CASE TeamTick
  <2>1. \A r, s \in Players : Older(view[r][s]) \in Entries \cup {NoMsg}
    BY OlderType DEF TeamTypeOK
  <2>2. view' \in [Players -> [Players -> Entries \cup {NoMsg}]]
    BY <1>6, <2>1 DEF TeamTick
  <2> QED
    BY <1>6, <2>2 DEF TeamTick, TeamTypeOK
<1>7. CASE UNCHANGED teamVars
  BY <1>7 DEF teamVars, TeamTypeOK
<1> QED
  BY <1>1, <1>2, <1>3, <1>4, <1>5, <1>6, <1>7 DEF TeamNext

\* Roles, views and messages stay in their types: a choice is always one of the
\* three roles, and no entry's age runs on beyond the first that is too old.
THEOREM TeamTypeCorrect == TeamSpec => []TeamTypeOK
<1> QED
  BY TeamInitType, TeamNextType, PTL DEF TeamSpec

-----------------------------------------------------------------------------
(* The choice.                                                             *)

\* a comes before the others that count in v.
First(v, a) ==
  \A s \in Players \ {a} : Counts(v[s]) =>
    Eta(v[a]) < Eta(v[s]) \/ (Eta(v[a]) = Eta(v[s]) /\ a < s)

LEMMA EtaIsNat ==
  ASSUME NEW e \in Entries \cup Exact PROVE Eta(e) \in Nat
  BY EntryNumbers, PenaltyAssumption DEF Eta

LEMMA AttackerIs ==
  ASSUME NEW v, NEW a \in Players, Counts(v[a]), First(v, a),
         \A s \in Players : Counts(v[s]) => Eta(v[s]) \in Nat
  PROVE  Attacker(v) = a
<1> DEFINE C == {s \in Players : Counts(v[s])}
           P(s) == \A t \in C \ {s} :
                     Eta(v[s]) < Eta(v[t]) \/ (Eta(v[s]) = Eta(v[t]) /\ s < t)
<1>1. a \in C /\ P(a)
  BY DEF First
<1>2. ASSUME NEW s \in C, P(s), s # a PROVE FALSE
  <2>1. s \in Nat /\ a \in Nat /\ Eta(v[s]) \in Nat /\ Eta(v[a]) \in Nat
    BY <1>1, PlayerAssumption
  <2>2. Eta(v[s]) < Eta(v[a]) \/ (Eta(v[s]) = Eta(v[a]) /\ s < a)
    BY <1>1, <1>2
  <2>3. Eta(v[a]) < Eta(v[s]) \/ (Eta(v[a]) = Eta(v[s]) /\ a < s)
    BY <1>1, <1>2
  <2> QED
    BY <2>1, <2>2, <2>3
<1>3. Attacker(v) = CHOOSE s \in C : P(s)
  BY <1>1 DEF Attacker
<1> HIDE DEF C, P
<1> QED
  BY <1>1, <1>2, <1>3

LEMMA DefenderIs ==
  ASSUME NEW v, NEW d \in Nat, NEW b \in Players, Counts(v[b]), v[b].role = Defend,
         Attacker(v) # b,
         \A s \in Players \ {b, Attacker(v)} : Counts(v[s]) => v[s].role # Defend
  PROVE  Defender(v, d) = b
<1> DEFINE C == {s \in Players : Counts(v[s])} \ {Attacker(v)}
           P(s) == \A t \in C \ {s} :
                     \/ Ddefend(v[s], d) < Ddefend(v[t], d)
                     \/ Ddefend(v[s], d) = Ddefend(v[t], d) /\ s > t
<1>1. b \in C /\ Ddefend(v[b], d) = d
  BY DEF Ddefend
<1>2. ASSUME NEW t \in C, t # b PROVE Ddefend(v[t], d) = d + NonDefenderPenalty
  BY <1>2 DEF Ddefend
<1>3. P(b)
  BY <1>1, <1>2, PenaltyAssumption
<1>4. ASSUME NEW s \in C, P(s), s # b PROVE FALSE
  BY <1>1, <1>2, <1>4, PenaltyAssumption
<1>5. Defender(v, d) = CHOOSE s \in C : P(s)
  BY <1>1 DEF Defender
<1> HIDE DEF C, P
<1> QED
  BY <1>1, <1>3, <1>4, <1>5

-----------------------------------------------------------------------------
(* Agreement.  What r heeds changes when a message comes, and with age.    *)

\* Nobody moves, is penalised, stops or starts, and no message is lost.
Calm == changes' = changes /\ up' = up

LEMMA HeededIs ==
  ASSUME NEW r \in Players, NEW s \in Players, NEW e
  PROVE  e \in Heeded(r, s) <=>
           /\ e # NoMsg /\ e.age <= Timeout
           /\ e = view[r][s] \/ (air[s][r] # NoMsg /\ e = Entry(air[s][r], 0))
  BY DEF Heeded

LEMMA HeededType ==
  ASSUME TeamTypeOK, NEW r \in Players, NEW s \in Players
  PROVE  Heeded(r, s) \subseteq Entries
<1>1. air[s][r] \in Messages \cup {NoMsg} /\ view[r][s] \in Entries \cup {NoMsg}
  BY DEF TeamTypeOK
<1> QED
  BY <1>1, HeededIs, EntryType

\* What counts of what r chooses from is heeded; and who is heard of is known.
LEMMA KnownIsHeeded ==
  ASSUME TeamTypeOK, NEW r \in Players, NEW s \in Players \ {r}
  PROVE  /\ Counts(Known(r)[s]) => Known(r)[s] \in Heeded(r, s)
         /\ Heard(r, s) => Known(r)[s] \in Heeded(r, s)
         /\ Heard(r, s) => Known(r)[s].age <= IF s \in due THEN 1 ELSE 0
<1>1. air[s][r] \in Messages \cup {NoMsg} /\ view[r][s] \in Entries \cup {NoMsg}
  BY DEF TeamTypeOK
<1>2. CASE air[s][r] # NoMsg
  <2>1. Known(r)[s] = Entry(air[s][r], 0)
    BY <1>2, KnownType
  <2>2. Known(r)[s] # NoMsg /\ Known(r)[s].age = 0
    BY <1>1, <1>2, <2>1, EntryType DEF Entry
  <2>3. Known(r)[s] \in Heeded(r, s)
    BY <1>2, <2>1, <2>2, HeededIs, TimeAssumption
  <2> QED
    BY <2>2, <2>3
<1>3. CASE air[s][r] = NoMsg
  <2>1. Known(r)[s] = view[r][s]
    BY <1>3, KnownType
  <2>2. \A e \in Heeded(r, s) : e = Known(r)[s]
    BY <1>3, <2>1, HeededIs
  <2>3. Counts(Known(r)[s]) => Known(r)[s] \in Heeded(r, s)
    BY <2>1, HeededIs DEF Counts
  <2> QED
    BY <2>2, <2>3 DEF Heard
<1> QED
  BY <1>2, <1>3

\* Nothing is lost in a calm update.
LEMMA CalmUpdate ==
  ASSUME TeamTypeOK, NEW q \in Players, TeamUpdate(q), Calm
  PROVE  /\ \A s, t \in Players :
              air'[s][t] = IF s = q /\ t # q THEN Message(q)
                           ELSE IF t = q THEN NoMsg ELSE air[s][t]
         /\ \A r, s \in Players : r # s =>
              view'[r][s] = IF r = q THEN Known(q)[s] ELSE view[r][s]
         /\ due' = due \ {q} /\ far' = far /\ out' = out
         /\ \A r \in Players :
              role'[r] = IF r = q THEN Choice(q, Known(q), depth[q]) ELSE role[r]
<1>1. ~ Change
  BY DEF Calm, Change, TeamTypeOK
<1>2. air' = [s \in Players |-> [t \in Players |->
               CASE s = q /\ t # q /\ t \notin {} -> Message(q)
                 [] t = q -> NoMsg
                 [] OTHER -> air[s][t]]]
  BY <1>1 DEF TeamUpdate
<1>3. \A s, t \in Players :
        air'[s][t] = IF s = q /\ t # q THEN Message(q)
                     ELSE IF t = q THEN NoMsg ELSE air[s][t]
  BY <1>2
<1>4. \A r, s \in Players : r # s =>
        view'[r][s] = IF r = q THEN Known(q)[s] ELSE view[r][s]
  <2>1. view' = [view EXCEPT ![q] = [Known(q) EXCEPT ![q] = NoMsg]]
    BY DEF TeamUpdate
  <2>2. DOMAIN view = Players /\ DOMAIN Known(q) = Players
    BY DEF TeamTypeOK, Known
  <2> QED
    BY <2>1, <2>2
<1> QED
  BY <1>3, <1>4 DEF TeamUpdate, TeamTypeOK

\* After an update of q, nothing new is heeded but q's message.
LEMMA HeededUpdate ==
  ASSUME TeamTypeOK, NEW q \in Players, TeamUpdate(q), Calm,
         NEW r \in Players, NEW s \in Players \ {r}
  PROVE  /\ \A e \in Heeded(r, s)' : e \in Heeded(r, s) \/ (s = q /\ e = Entry(Message(q), 0))
         /\ s = q \/ Heard(r, s) => Heard(r, s)'
<1>0. /\ Heeded(r, s) \subseteq Entries
      /\ air[s][r] \in Messages \cup {NoMsg} /\ view[r][s] \in Entries \cup {NoMsg}
  BY HeededType DEF TeamTypeOK
<1>00. \A e : e \in Heeded(r, s)' <=>
           /\ e # NoMsg /\ e.age <= Timeout
           /\ e = view'[r][s] \/ (air'[s][r] # NoMsg /\ e = Entry(air'[s][r], 0))
  BY DEF Heeded
<1>1. CASE s = q
  <2>1. air'[s][r] = Message(q) /\ view'[r][s] = view[r][s] /\ Message(q) # NoMsg
    BY <1>1, CalmUpdate, MessageType
  <2>2. \A e \in Heeded(r, s)' : e \in Heeded(r, s) \/ e = Entry(Message(q), 0)
    BY <1>00, <2>1, HeededIs
  <2>3. Entry(Message(q), 0) \in Heeded(r, s)' /\ Entry(Message(q), 0).age = 0
    <3>1. Entry(Message(q), 0) # NoMsg /\ Entry(Message(q), 0).age = 0
      BY MessageType, EntryType DEF Entry
    <3> QED
      BY <1>00, <2>1, <3>1, TimeAssumption
  <2>4. Heard(r, s)'
    BY <2>3 DEF Heard
  <2> QED
    BY <1>1, <2>2, <2>4
<1>2. CASE s # q /\ r = q
  <2>1. air'[s][r] = NoMsg /\ view'[r][s] = Known(r)[s]
    BY <1>2, CalmUpdate
  <2>2. \A e \in Heeded(r, s)' : e = Known(r)[s] /\ e # NoMsg /\ e.age <= Timeout
    BY <1>00, <2>1
  <2>3. \A e \in Heeded(r, s)' : e \in Heeded(r, s)
    <3>1. Known(r)[s] = view[r][s] \/ (air[s][r] # NoMsg /\ Known(r)[s] = Entry(air[s][r], 0))
      BY KnownType
    <3> QED
      BY <2>2, <3>1, HeededIs
  <2>4. ASSUME Heard(r, s) PROVE Heard(r, s)'
    <3>1. /\ Known(r)[s] \in Heeded(r, s)
          /\ Known(r)[s].age <= IF s \in due THEN 1 ELSE 0
      BY <2>4, KnownIsHeeded
    <3>2. Known(r)[s] # NoMsg /\ Known(r)[s].age <= Timeout
      BY <3>1, HeededIs
    <3>3. Known(r)[s] \in Heeded(r, s)'
      BY <1>00, <2>1, <3>2
    <3>4. s \in due' <=> s \in due
      BY <1>2, CalmUpdate
    <3> QED
      BY <3>1, <3>3, <3>4 DEF Heard
  <2> QED
    BY <1>2, <2>3, <2>4
<1>3. CASE s # q /\ r # q
  <2>1. air'[s][r] = air[s][r] /\ view'[r][s] = view[r][s]
    BY <1>3, CalmUpdate
  <2>2. Heeded(r, s)' = Heeded(r, s)
    BY <2>1 DEF Heeded
  <2>3. s \in due' <=> s \in due
    BY <1>3, CalmUpdate
  <2> QED
    BY <1>3, <2>2, <2>3 DEF Heard
<1> QED
  BY <1>1, <1>2, <1>3

\* After a tick what is heeded was heeded before, and who runs is heard of still.
LEMMA HeededTick ==
  ASSUME TeamTypeOK, TeamTick, NEW r \in Players, NEW s \in Players
  PROVE  /\ \A e \in Heeded(r, s)' : \E f \in Heeded(r, s) :
              e.role = f.role /\ e.far = f.far /\ e.out = f.out
         /\ up[s] /\ Heard(r, s) => Heard(r, s)'
<1>1. air[s][r] \in Messages \cup {NoMsg} /\ view[r][s] \in Entries \cup {NoMsg}
  BY DEF TeamTypeOK
<1>2. view'[r][s] = Older(view[r][s]) /\ air' = air /\ due' = Players
  BY DEF TeamTick
<1>3. \A e : e \in Heeded(r, s)' <=>
         /\ e # NoMsg /\ e.age <= Timeout
         /\ e = view'[r][s] \/ (air'[s][r] # NoMsg /\ e = Entry(air'[s][r], 0))
  BY DEF Heeded
<1>4. ASSUME NEW e \in Heeded(r, s)'
      PROVE  \E f \in Heeded(r, s) : e.role = f.role /\ e.far = f.far /\ e.out = f.out
  <2>1. CASE e = Older(view[r][s])
    <3>1. view[r][s] # NoMsg /\ view[r][s] \in Entries
      BY <1>1, <1>3, <2>1, OlderType
    <3>2. /\ e.role = view[r][s].role /\ e.far = view[r][s].far /\ e.out = view[r][s].out
          /\ e.age = IF view[r][s].age > Timeout THEN view[r][s].age ELSE view[r][s].age + 1
      BY <1>1, <2>1, <3>1, OlderType
    <3>3. view[r][s].age <= Timeout
      BY <1>3, <3>1, <3>2, EntryNumbers, TimeAssumption DEF Ages
    <3>4. view[r][s] \in Heeded(r, s)
      BY <3>1, <3>3, HeededIs
    <3> QED
      BY <3>2, <3>4
  <2>2. CASE air[s][r] # NoMsg /\ e = Entry(air[s][r], 0)
    <3>1. e \in Heeded(r, s)
      BY <1>3, <2>2, HeededIs
    <3> QED
      BY <3>1
  <2> QED
    BY <1>2, <1>3, <2>1, <2>2
<1>5. ASSUME up[s], Heard(r, s) PROVE Heard(r, s)'
  <2>1. PICK e \in Heeded(r, s) : e.age <= 0
    BY <1>5 DEF Heard, TeamTick
  <2>2. \E f \in Heeded(r, s)' : f.age <= 1
    <3>1. CASE e = view[r][s]
      <4>1. e \in Entries /\ e # NoMsg
        BY <1>1, <2>1, <3>1, HeededIs
      <4>2. e.age = 0
        BY <2>1, <4>1, EntryNumbers, TimeAssumption DEF Ages
      <4>3. Older(e) # NoMsg /\ Older(e).age = 1
        BY <4>1, <4>2, OlderType, TimeAssumption
      <4> QED
        BY <1>2, <1>3, <3>1, <4>3, TimeAssumption
    <3>2. CASE air[s][r] # NoMsg /\ e = Entry(air[s][r], 0)
      <4>1. e # NoMsg /\ e.age = 0
        BY <1>1, <3>2, EntryType DEF Entry
      <4> QED
        BY <1>2, <1>3, <3>2, <4>1, TimeAssumption
    <3> QED
      BY <2>1, <3>1, <3>2, HeededIs
  <2>3. s \in due'
    BY <1>2
  <2> QED
    BY <2>2, <2>3 DEF Heard
<1> QED
  BY <1>4, <1>5

\* While a is settled, whoever updates finds a the nearest.
LEMMA SettledChosen ==
  ASSUME TeamTypeOK, NEW a \in Players, Settled(a), NEW q \in Players, up[q]
  PROVE  Attacker(Known(q)) = a
<1> DEFINE v == Known(q)
           g == IF q = a THEN far[a] ELSE Rounded(far[a])
<1>0. /\ \A s \in Players : far[s] \in Etas /\ role[s] \in Roles /\ out[s] \in BOOLEAN
      /\ 0 \in Ages /\ 0 <= Timeout
  BY TimeAssumption DEF TeamTypeOK, Ages
<1>1. \A s \in Players : v[s] \in Entries \cup Exact \cup {NoMsg}
  BY KnownType, OwnEntry
<1>2. Counts(v[a]) /\ Eta(v[a]) = g
  <2>1. CASE q = a
    <3>1. v[a] # NoMsg /\ v[a].age = 0 /\ v[a].role = Attack /\ v[a].far = far[a] /\ ~v[a].out
      BY <2>1, OwnEntry DEF Settled, Available
    <3> HIDE DEF v
    <3>2. far[a] \in Nat
      BY <1>0, EtaAssumption
    <3> QED
      BY <1>0, <2>1, <3>1, <3>2 DEF Eta, Counts
  <2>2. CASE q # a
    <3>1. v[a] \in Heeded(q, a)
      BY <2>2, KnownIsHeeded DEF Settled
    <3>2. v[a].role = Attack /\ ~v[a].out /\ v[a].far = Rounded(far[a])
      BY <2>2, <3>1 DEF Settled
    <3>3. v[a] # NoMsg /\ v[a].age <= Timeout
      BY <3>1, HeededIs
    <3>4. Rounded(far[a]) \in Nat
      BY <1>0, RoundedIsNat, EtaAssumption
    <3> HIDE DEF v
    <3> QED
      BY <2>2, <3>2, <3>3, <3>4 DEF Eta, Counts
  <2> QED
    BY <2>1, <2>2
<1>3. ASSUME NEW s \in Players \ {a}, Counts(v[s])
      PROVE  g < Eta(v[s]) \/ (g = Eta(v[s]) /\ a < s)
  <2>1. CASE s = q
    <3>1. v[s].role = role[q] /\ v[s].far = far[q] /\ v[s].out = out[q]
      BY <2>1, OwnEntry
    <3> HIDE DEF v
    <3>2. role[q] # Attack /\ Behind(a, q, q, far[q])
      BY <1>3, <2>1, <3>1 DEF Settled, Counts
    <3>3. Eta(v[s]) = far[q] + NonAttackerPenalty
      BY <3>1, <3>2 DEF Eta
    <3> QED
      BY <2>1, <3>2, <3>3 DEF Behind
  <2>2. CASE s # q
    <3>1. v[s] \in Heeded(q, s)
      BY <1>3, <2>2, KnownIsHeeded
    <3>2. v[s].role # Attack /\ Behind(a, q, s, v[s].far)
      BY <1>3, <2>2, <3>1 DEF Settled, Counts
    <3>3. Eta(v[s]) = v[s].far + NonAttackerPenalty
      BY <3>2 DEF Eta
    <3> QED
      BY <3>2, <3>3 DEF Behind
  <2> QED
    BY <2>1, <2>2
<1>4. First(v, a)
  BY <1>2, <1>3 DEF First
<1>5. \A s \in Players : Counts(v[s]) => Eta(v[s]) \in Nat
  BY <1>1, EtaIsNat DEF Counts
<1> QED
  BY <1>2, <1>4, <1>5, AttackerIs

LEMMA SettledUpdate ==
  ASSUME TeamTypeOK, NEW a \in Players, Settled(a), NEW q \in Players, TeamUpdate(q), Calm
  PROVE  Settled(a)'
<1>1. /\ up' = up /\ far' = far /\ out' = out /\ up[q]
      /\ \A r \in Players :
           role'[r] = IF r = q THEN Choice(q, Known(q), depth[q]) ELSE role[r]
  BY CalmUpdate DEF Calm, TeamUpdate
<1>2. Attacker(Known(q)) = a
  BY <1>1, SettledChosen
<1>3. a \in Available' /\ role'[a] = Attack
  BY <1>1, <1>2 DEF Settled, Available, Choice
<1>4. /\ Entry(Message(q), 0).role = role[q] /\ Entry(Message(q), 0).out = out[q]
      /\ Entry(Message(q), 0).far = Rounded(far[q])
  BY DEF Entry, Message
<1>5. ASSUME NEW r \in Players \ {a}, up[r]
      PROVE  /\ Heard(r, a)' /\ role'[r] # Attack
             /\ \A e \in Heeded(r, a)' : e.role = Attack /\ ~e.out /\ e.far = Rounded(far[a])
             /\ out[r] \/ Behind(a, r, r, far[r])
  <2>1. Heard(r, a)'
    BY <1>5, HeededUpdate DEF Settled
  <2>2. role'[r] # Attack
    <3>1. Choice(q, Known(q), depth[q]) = Attack => q = a
      BY <1>2 DEF Choice, Attack, Defend, Support
    <3> QED
      BY <1>1, <1>5, <3>1 DEF Settled
  <2>3. ASSUME NEW e \in Heeded(r, a)'
        PROVE  e.role = Attack /\ ~e.out /\ e.far = Rounded(far[a])
    <3>1. e \in Heeded(r, a) \/ (a = q /\ e = Entry(Message(q), 0))
      BY HeededUpdate
    <3> QED
      BY <1>4, <1>5, <3>1 DEF Settled, Available
  <2> QED
    BY <1>5, <2>1, <2>2, <2>3 DEF Settled
<1>6. ASSUME NEW r \in Players, NEW s \in Players \ {a}, up[r], s # r
      PROVE  /\ \A e \in Heeded(r, s)' :
                  e.out \/ (e.role # Attack /\ Behind(a, r, s, e.far))
             /\ up[s] => out[s] \/ Behind(a, r, s, Rounded(far[s]))
  <2>1. ASSUME NEW e \in Heeded(r, s)'
        PROVE  e.out \/ (e.role # Attack /\ Behind(a, r, s, e.far))
    <3>1. e \in Heeded(r, s) \/ (s = q /\ e = Entry(Message(q), 0))
      BY <1>6, HeededUpdate
    <3>2. s = q => role[q] # Attack /\ (out[q] \/ Behind(a, r, s, Rounded(far[q])))
      BY <1>1, <1>6 DEF Settled
    <3> QED
      BY <1>4, <1>6, <3>1, <3>2 DEF Settled
  <2> QED
    BY <1>6, <2>1 DEF Settled
<1>7. \A r, s, f : Behind(a, r, s, f)' <=> Behind(a, r, s, f)
  BY <1>1 DEF Behind
<1> QED
  BY <1>1, <1>3, <1>5, <1>6, <1>7 DEF Settled

LEMMA SettledTick ==
  ASSUME TeamTypeOK, NEW a \in Players, Settled(a), TeamTick
  PROVE  Settled(a)'
<1>1. up' = up /\ far' = far /\ out' = out /\ role' = role
  BY DEF TeamTick
<1>2. \A r, s, f : Behind(a, r, s, f)' <=> Behind(a, r, s, f)
  BY <1>1 DEF Behind
<1>3. a \in Available' /\ role'[a] = Attack
  BY <1>1 DEF Settled, Available
<1>4. ASSUME NEW r \in Players \ {a}, up[r]
      PROVE  /\ Heard(r, a)'
             /\ \A e \in Heeded(r, a)' : e.role = Attack /\ ~e.out /\ e.far = Rounded(far[a])
  <2>1. Heard(r, a)'
    BY <1>4, HeededTick DEF Settled, Available
  <2>2. ASSUME NEW e \in Heeded(r, a)'
        PROVE  e.role = Attack /\ ~e.out /\ e.far = Rounded(far[a])
    <3>1. PICK f \in Heeded(r, a) : e.role = f.role /\ e.far = f.far /\ e.out = f.out
      BY HeededTick
    <3> QED
      BY <1>4, <3>1 DEF Settled
  <2> QED
    BY <2>1, <2>2
<1>5. ASSUME NEW r \in Players, NEW s \in Players \ {a}, up[r], s # r, NEW e \in Heeded(r, s)'
      PROVE  e.out \/ (e.role # Attack /\ Behind(a, r, s, e.far))
  <2>1. PICK f \in Heeded(r, s) : e.role = f.role /\ e.far = f.far /\ e.out = f.out
    BY HeededTick
  <2> QED
    BY <1>5, <2>1 DEF Settled
<1> QED
  BY <1>1, <1>2, <1>3, <1>4, <1>5 DEF Settled

\* A calm step is an update, a tick or none.
LEMMA CalmStep ==
  ASSUME TeamTypeOK, [TeamNext]_teamVars, Calm
  PROVE  (\E q \in Players : TeamUpdate(q)) \/ TeamTick \/ UNCHANGED teamVars
<1>1. ~Change
  BY DEF Calm, Change, TeamTypeOK
<1>2. \A r \in Players : ~Moves(r) /\ ~Penalty(r) /\ ~Crash(r)
  BY <1>1 DEF Moves, Penalty, Crash
<1>3. \A r \in Players : ~Restart(r)
  BY DEF Restart, Calm, TeamTypeOK
<1> QED
  BY <1>2, <1>3 DEF TeamNext

LEMMA SettledStep ==
  ASSUME TeamTypeOK, [TeamNext]_teamVars, Calm, NEW a \in Players, Settled(a)
  PROVE  Settled(a)'
<1>1. CASE TeamTick
  BY <1>1, SettledTick
<1>2. ASSUME NEW q \in Players, TeamUpdate(q) PROVE Settled(a)'
  BY <1>2, SettledUpdate
<1>3. CASE UNCHANGED teamVars
  BY <1>3 DEF teamVars, Settled, Available, Heard, Heeded, Behind
<1> QED
  BY <1>1, <1>2, <1>3, CalmStep

\* A settled attacker stays settled as long as nothing happens around the robots
\* and no message is lost, whoever updates when: no stale entry makes another
\* attack beside it, and none makes it give up.
THEOREM AttackerStays ==
  TeamSpec => [][\A a \in Players : Settled(a) /\ Calm => Settled(a)']_teamVars
<1>1. TeamTypeOK /\ [TeamNext]_teamVars
        => [\A a \in Players : Settled(a) /\ Calm => Settled(a)']_teamVars
  BY SettledStep
<1> QED
  BY <1>1, TeamTypeCorrect, PTL DEF TeamSpec

\* While b is paired with a, whoever updates finds b the one to defend.
LEMMA PairedChosen ==
  ASSUME TeamTypeOK, NEW a \in Players, NEW b \in Players, Paired(a, b),
         NEW q \in Players, up[q]
  PROVE  Attacker(Known(q)) = a /\ Defender(Known(q), depth[q]) = b
<1> DEFINE v == Known(q)
<1>1. Settled(a) /\ b # a /\ Attacker(v) = a
  BY SettledChosen DEF Paired
<1>2. Counts(v[b]) /\ v[b].role = Defend
  <2>1. CASE q = b
    BY <2>1, OwnEntry, TimeAssumption DEF Counts, Paired, Available
  <2>2. CASE q # b
    <3>1. v[b] \in Heeded(q, b)
      BY <2>2, KnownIsHeeded DEF Paired
    <3> QED
      BY <2>2, <3>1, HeededIs DEF Paired, Counts
  <2> QED
    BY <2>1, <2>2
<1>3. ASSUME NEW s \in Players \ {a, b}, Counts(v[s]) PROVE v[s].role # Defend
  <2>1. CASE s = q
    BY <1>3, <2>1, OwnEntry DEF Paired
  <2>2. CASE s # q
    <3>1. v[s] \in Heeded(q, s)
      BY <1>3, <2>2, KnownIsHeeded
    <3> QED
      BY <1>3, <2>2, <3>1 DEF Paired, Counts
  <2> QED
    BY <2>1, <2>2
<1>4. depth[q] \in Nat
  BY DistanceAssumption DEF TeamTypeOK
<1> HIDE DEF v
<1>5. Defender(v, depth[q]) = b
  BY <1>1, <1>2, <1>3, <1>4, DefenderIs
<1> QED
  BY <1>1, <1>5 DEF v

LEMMA PairedUpdate ==
  ASSUME TeamTypeOK, NEW a \in Players, NEW b \in Players, Paired(a, b),
         NEW q \in Players, TeamUpdate(q), Calm
  PROVE  Paired(a, b)'
<1>1. /\ up' = up /\ far' = far /\ out' = out /\ up[q]
      /\ \A r \in Players :
           role'[r] = IF r = q THEN Choice(q, Known(q), depth[q]) ELSE role[r]
  BY CalmUpdate DEF Calm, TeamUpdate
<1>2. Choice(q, Known(q), depth[q]) = IF q = a THEN Attack ELSE IF q = b THEN Defend ELSE Support
  BY <1>1, PairedChosen DEF Choice
<1>3. Settled(a)' /\ b # a /\ b \in Available' /\ role'[b] = Defend
  BY <1>1, <1>2, SettledUpdate DEF Paired, Available
<1>4. Entry(Message(q), 0).role = role[q] /\ Entry(Message(q), 0).out = out[q]
  BY DEF Entry, Message
<1>5. ASSUME NEW r \in Players \ {b}, up[r]
      PROVE  /\ Heard(r, b)' /\ role'[r] # Defend
             /\ \A e \in Heeded(r, b)' : e.role = Defend /\ ~e.out
  <2>1. Heard(r, b)'
    BY <1>5, HeededUpdate DEF Paired
  <2>2. role'[r] # Defend
    BY <1>1, <1>2, <1>5 DEF Paired, Attack, Defend, Support
  <2>3. ASSUME NEW e \in Heeded(r, b)' PROVE e.role = Defend /\ ~e.out
    <3>1. e \in Heeded(r, b) \/ (b = q /\ e = Entry(Message(q), 0))
      BY HeededUpdate
    <3> QED
      BY <1>4, <1>5, <3>1 DEF Paired, Available
  <2> QED
    BY <2>1, <2>2, <2>3
<1>6. ASSUME NEW r \in Players, NEW s \in Players \ {a, b}, up[r], s # r,
             NEW e \in Heeded(r, s)'
      PROVE  e.out \/ e.role # Defend
  <2>1. e \in Heeded(r, s) \/ (s = q /\ e = Entry(Message(q), 0))
    BY <1>6, HeededUpdate
  <2>2. s = q => role[q] # Defend
    BY <1>1, <1>6 DEF Paired
  <2> QED
    BY <1>4, <1>6, <2>1, <2>2 DEF Paired
<1> QED
  BY <1>1, <1>3, <1>5, <1>6 DEF Paired

LEMMA PairedTick ==
  ASSUME TeamTypeOK, NEW a \in Players, NEW b \in Players, Paired(a, b), TeamTick
  PROVE  Paired(a, b)'
<1>1. up' = up /\ out' = out /\ role' = role
  BY DEF TeamTick
<1>2. Settled(a)' /\ b # a /\ b \in Available' /\ role'[b] = Defend
  BY <1>1, SettledTick DEF Paired, Available
<1>3. ASSUME NEW r \in Players \ {b}, up[r]
      PROVE  Heard(r, b)' /\ \A e \in Heeded(r, b)' : e.role = Defend /\ ~e.out
  <2>1. Heard(r, b)'
    BY <1>3, HeededTick DEF Paired, Available
  <2>2. ASSUME NEW e \in Heeded(r, b)' PROVE e.role = Defend /\ ~e.out
    <3>1. PICK f \in Heeded(r, b) : e.role = f.role /\ e.far = f.far /\ e.out = f.out
      BY HeededTick
    <3> QED
      BY <1>3, <3>1 DEF Paired
  <2> QED
    BY <2>1, <2>2
<1>4. ASSUME NEW r \in Players, NEW s \in Players \ {a, b}, up[r], s # r,
             NEW e \in Heeded(r, s)'
      PROVE  e.out \/ e.role # Defend
  <2>1. PICK f \in Heeded(r, s) : e.role = f.role /\ e.far = f.far /\ e.out = f.out
    BY HeededTick
  <2> QED
    BY <1>4, <2>1 DEF Paired
<1> QED
  BY <1>1, <1>2, <1>3, <1>4 DEF Paired

LEMMA PairedStep ==
  ASSUME TeamTypeOK, [TeamNext]_teamVars, Calm,
         NEW a \in Players, NEW b \in Players, Paired(a, b)
  PROVE  Paired(a, b)'
<1>1. CASE TeamTick
  BY <1>1, PairedTick
<1>2. ASSUME NEW q \in Players, TeamUpdate(q) PROVE Paired(a, b)'
  BY <1>2, PairedUpdate
<1>3. CASE UNCHANGED teamVars
  <2>1. Settled(a)'
    BY SettledStep DEF Paired
  <2> QED
    BY <1>3, <2>1 DEF teamVars, Paired, Available, Heard, Heeded
<1> QED
  BY <1>1, <1>2, <1>3, CalmStep

\* So does a paired defender: once one attacks and one defends, calm keeps them.
THEOREM PairStays ==
  TeamSpec => [][\A a, b \in Players : Paired(a, b) /\ Calm => Paired(a, b)']_teamVars
<1>1. TeamTypeOK /\ [TeamNext]_teamVars
        => [\A a, b \in Players : Paired(a, b) /\ Calm => Paired(a, b)']_teamVars
  BY PairedStep
<1> QED
  BY <1>1, TeamTypeCorrect, PTL DEF TeamSpec

\* Agreement lasts: of what RolesSettle says comes about and stays, this is what
\* stays, in any order of the robots' updates.
THEOREM AgreementLasts == TeamSpec => [][Agreed /\ Calm => Agreed']_teamVars
<1>1. ASSUME TeamTypeOK, [TeamNext]_teamVars, Calm, Agreed PROVE Agreed'
  <2>1. Available' = Available
    <3>1. up' = up /\ out' = out
      BY <1>1, CalmStep DEF TeamUpdate, TeamTick, teamVars
    <3> QED
      BY <3>1 DEF Available
  <2>2. \A a \in Players : Settled(a) => Settled(a)'
    BY <1>1, SettledStep
  <2>3. \A a, b \in Players : Paired(a, b) => Paired(a, b)'
    BY <1>1, PairedStep
  <2> QED
    BY <1>1, <2>1, <2>2, <2>3 DEF Agreed
<1>2. TeamTypeOK /\ [TeamNext]_teamVars => [Agreed /\ Calm => Agreed']_teamVars
  BY <1>1
<1> QED
  BY <1>2, TeamTypeCorrect, PTL DEF TeamSpec

\* What robots that agree have: one attacker whenever a robot is available, one
\* defender whenever two are.
THEOREM OneOfEach ==
  Agreed => /\ Available # {} => Cardinality(Holds(Attack)) = 1
            /\ Cardinality(Available) > 1 => Cardinality(Holds(Defend)) = 1
<1>1. ASSUME NEW a \in Players, Settled(a) PROVE Holds(Attack) = {a}
  BY <1>1 DEF Settled, Holds, Available
<1>2. ASSUME NEW a \in Players, NEW b \in Players, Paired(a, b) PROVE Holds(Defend) = {b}
  BY <1>2 DEF Paired, Holds, Available
<1> QED
  BY <1>1, <1>2, FS_Singleton DEF Agreed
=============================================================================
