------------------------------ MODULE Shm_proofs ------------------------------
(***************************************************************************)
(* What is proved of the shared memory, for every number of segments,      *)
(* starts and commands and every width of the velocity: the types, that a  *)
(* player which found the DCM running shares its segments, and what a copy *)
(* made without a lock can and cannot hold - in the end the last command.  *)
(***************************************************************************)
EXTENDS Shm, TLAPS

Preparing == dcm \in {"destroy", "new", "keys"}

\* Where the DCM is, and which names there can be.
DcmPlace ==
  /\ Preparing => at \in Segs
  /\ dcm \in {"zero", "copy"} => at \in Elements
  /\ dcm = "pass" => at = 1
  /\ \A s \in Segs : named[s] # None => named[s] \in 0 .. start

\* Where the player is, and what it has mapped by then.
PlayerPlace ==
  /\ player = "open" => to \in Segs
  /\ player \in {"keys", "run"} => to = 1
  /\ player = "write" => to \in Elements
  /\ player = "open" => \A s \in Segs : s < to => mapped[s] \in 0 .. start
  /\ player \in {"keys", "run", "write"} => \A s \in Segs : mapped[s] \in 0 .. start

TypeInv == MemoryType /\ DcmType /\ PlayerType /\ CountType /\ DcmPlace /\ PlayerPlace

LEMMA InitType == Init => TypeInv
<1> SUFFICES ASSUME Init PROVE TypeInv
  OBVIOUS
<1> USE BoundAssumption DEF Segs, Elements, Vector
<1>0. heard \in BOOLEAN /\ torn \in BOOLEAN
  BY DEF Init
<1>1. MemoryType /\ DcmType /\ PlayerType /\ CountType
  <2>1. writes = 0 /\ settled = 0 /\ floor = 0 /\ found = 0 /\ start = 0 /\ quiet = "yes"
    BY DEF Init
  <2>2. CountType
    BY <1>0, <2>1 DEF CountType
  <2> QED
    BY <2>2 DEF Init, MemoryType, DcmType, PlayerType
<1>2. DcmPlace /\ PlayerPlace
  BY DEF Init, DcmPlace, PlayerPlace, Preparing
<1> QED
  BY <1>1, <1>2 DEF TypeInv

LEMMA NextType == TypeInv /\ [Next]_vars => TypeInv'
<1> SUFFICES ASSUME TypeInv, [Next]_vars PROVE TypeInv'
  OBVIOUS
<1> USE BoundAssumption DEF Segs, Elements, TypeInv, history
<1>1. CASE StartDcm
  <2>0. UNCHANGED <<named, ready, para, tmp, passed, floor, loads, player, to, mapped, writes>>
    BY <1>1 DEF StartDcm, memory, playerVars
  <2>1. MemoryType'
    BY <1>1, <2>0 DEF StartDcm, MemoryType, PlayerPlace, PlayerType, CountType, DcmType, DcmPlace, Preparing
  <2>2. DcmType'
    BY <1>1, <2>0 DEF StartDcm, DcmType, DcmPlace, Preparing, MemoryType
  <2>3. PlayerType'
    BY <1>1, <2>0 DEF StartDcm, PlayerType, PlayerPlace, MemoryType
  <2>4. CountType'
    <3>1. heard' \in BOOLEAN /\ torn' \in BOOLEAN
      BY <1>1 DEF StartDcm, CountType
    <3>2. /\ settled' = 0 /\ start' = start + 1 /\ UNCHANGED <<found, quiet>>
      BY <1>1 DEF StartDcm
    <3> QED
      BY <2>0, <3>1, <3>2 DEF CountType, DcmType
  <2>5. DcmPlace'
    BY <1>1, <2>0 DEF StartDcm, DcmPlace, DcmType, Preparing, MemoryType
  <2>6. PlayerPlace'
    <3>1. start \in Nat /\ start' = start + 1
      BY <1>1 DEF StartDcm, DcmType
    <3>2. \A x : x \in 0 .. start => x \in 0 .. start'
      BY <3>1
    <3> QED
      BY <2>0, <3>2 DEF PlayerPlace
  <2> QED
    BY <2>1, <2>2, <2>3, <2>4, <2>5, <2>6
<1>2. CASE Prepare
  <2>0. UNCHANGED <<para, start, tmp, passed, loads, player, to, mapped, writes, settled>>
    BY <1>2 DEF Prepare, playerVars
  <2>1. MemoryType'
    <3>1. at \in Segs /\ start \in 0 .. MaxStarts
      BY <1>2 DEF Prepare, DcmPlace, DcmType, Preparing
    <3>2. named' \in [Segs -> (0 .. MaxStarts) \cup {None}]
      BY <1>2, <3>1 DEF Prepare, MemoryType
    <3>3. ready' \subseteq (0 .. MaxStarts) \X Segs
      BY <1>2, <3>1 DEF Prepare, MemoryType
    <3> QED
      BY <2>0, <3>2, <3>3 DEF MemoryType
  <2>2. DcmType'
    <3>1. at \in Segs /\ at' \in Segs /\ dcm' \in {"new", "keys", "zero", "destroy"}
      BY <1>2 DEF Prepare, AllPrepared, DcmPlace, Preparing
    <3> QED
      BY <2>0, <3>1 DEF DcmType
  <2>3. PlayerType'
    BY <1>2, <2>0 DEF Prepare, AllPrepared, PlayerType, PlayerPlace, MemoryType
  <2>4. CountType'
    <3>1. UNCHANGED <<floor, found, quiet, heard, torn>>
      BY <1>2 DEF Prepare
    <3> QED
      BY <2>0, <3>1 DEF CountType
  <2>5. DcmPlace'
    <3>1. at \in Segs /\ start \in Nat
      BY <1>2 DEF Prepare, DcmPlace, DcmType, Preparing
    <3>2. \A s \in Segs : named'[s] # None => named'[s] \in 0 .. start
      <4>1. named' = named \/ \E g \in {None, start} : named' = [named EXCEPT ![at] = g]
        BY <1>2 DEF Prepare
      <4>2. \A s \in Segs : named'[s] \in {named[s], None, start}
        BY <4>1 DEF MemoryType
      <4> QED
        BY <3>1, <4>2 DEF DcmPlace
    <3>3. Preparing' => at' \in Segs
      BY <1>2, <3>1 DEF Prepare, Preparing, AllPrepared
    <3>4. dcm' = "zero" => at' \in Elements
      BY <1>2, <3>1 DEF Prepare, AllPrepared
    <3>5. dcm' \notin {"copy", "pass"}
      BY <1>2 DEF Prepare
    <3> QED
      BY <2>0, <3>2, <3>3, <3>4, <3>5 DEF DcmPlace
  <2>6. PlayerPlace'
    BY <1>2, <2>0 DEF Prepare, AllPrepared, PlayerPlace, PlayerType, DcmPlace, DcmType, MemoryType
  <2> QED
    BY <2>1, <2>2, <2>3, <2>4, <2>5, <2>6
<1>3. CASE Copy
  <2>0. UNCHANGED <<named, ready, para, start, passed, floor, loads, player, to, mapped, writes, settled>>
    BY <1>3 DEF Copy, memory, playerVars
  <2>1. MemoryType'
    BY <1>3, <2>0 DEF Copy, Copied, MemoryType, PlayerPlace, PlayerType, CountType, DcmType, DcmPlace, Preparing
  <2>2. DcmType'
    <3>1. at \in Elements /\ at' \in Elements /\ dcm' \in {"copy", "pass"}
      BY <1>3 DEF Copy, DcmPlace
    <3>2. para[start][at] \in 0 .. MaxWrites
      BY <3>1 DEF MemoryType, DcmType
    <3>3. tmp' \in [Elements -> 0 .. MaxWrites]
      BY <1>3, <3>1, <3>2 DEF Copy, Copied, DcmType
    <3> QED
      BY <2>0, <3>1, <3>3 DEF DcmType
  <2>3. PlayerType'
    BY <1>3, <2>0 DEF Copy, Copied, PlayerType, PlayerPlace, MemoryType
  <2>4. CountType'
    BY <1>3, <2>0 DEF Copy, Copied, CountType
  <2>5. DcmPlace'
    <3>1. /\ at' \in Elements /\ dcm' \in {"copy", "pass"}
          /\ dcm' = "pass" => at' = 1
      BY <1>3 DEF Copy, DcmPlace
    <3> QED
      BY <2>0, <3>1 DEF DcmPlace, Preparing
  <2>6. PlayerPlace'
    BY <1>3, <2>0 DEF Copy, Copied, PlayerPlace, PlayerType, DcmPlace, DcmType, MemoryType
  <2> QED
    BY <2>1, <2>2, <2>3, <2>4, <2>5, <2>6
<1>4. CASE Pass
  <2>0. UNCHANGED <<named, ready, para, start, at, tmp, loads, player, to, mapped, writes, settled>>
    BY <1>4 DEF Pass, memory, playerVars
  <2>1. MemoryType'
    BY <1>4, <2>0 DEF Pass, Again, MemoryType, PlayerPlace, PlayerType, CountType, DcmType, DcmPlace, Preparing
  <2>2. DcmType'
    BY <1>4, <2>0 DEF Pass, Again, DcmType, DcmPlace, Preparing, MemoryType
  <2>3. PlayerType'
    BY <1>4, <2>0 DEF Pass, Again, PlayerType, PlayerPlace, MemoryType
  <2>4. CountType'
    BY <1>4, <2>0 DEF Pass, CopyBegins, CountType
  <2>5. DcmPlace'
    BY <1>4, <2>0 DEF Pass, Again, DcmPlace, DcmType, Preparing, MemoryType
  <2>6. PlayerPlace'
    BY <1>4, <2>0 DEF Pass, Again, PlayerPlace, PlayerType, DcmPlace, DcmType, MemoryType
  <2> QED
    BY <2>1, <2>2, <2>3, <2>4, <2>5, <2>6
<1>5. CASE KillDcm
  <2>0. UNCHANGED <<named, ready, para, start, at, tmp, passed, floor, loads, player, to, mapped, writes, settled>>
    BY <1>5 DEF KillDcm, memory, playerVars
  <2>1. MemoryType'
    BY <1>5, <2>0 DEF KillDcm, MemoryType, PlayerPlace, PlayerType, CountType, DcmType, DcmPlace, Preparing
  <2>2. DcmType'
    BY <1>5, <2>0 DEF KillDcm, DcmType, DcmPlace, Preparing, MemoryType
  <2>3. PlayerType'
    BY <1>5, <2>0 DEF KillDcm, PlayerType, PlayerPlace, MemoryType
  <2>4. CountType'
    BY <1>5, <2>0 DEF KillDcm, CountType
  <2>5. DcmPlace'
    BY <1>5, <2>0 DEF KillDcm, DcmPlace, DcmType, Preparing, MemoryType
  <2>6. PlayerPlace'
    BY <1>5, <2>0 DEF KillDcm, PlayerPlace, PlayerType, DcmPlace, DcmType, MemoryType
  <2> QED
    BY <2>1, <2>2, <2>3, <2>4, <2>5, <2>6
<1>6. CASE StartPlayer
  <2>0. UNCHANGED <<named, ready, para, start, dcm, at, tmp, passed, floor, writes, settled>>
    BY <1>6 DEF StartPlayer, memory, dcmVars
  <2>1. MemoryType'
    BY <1>6, <2>0 DEF StartPlayer, MemoryType, PlayerPlace, PlayerType, CountType, DcmType, DcmPlace, Preparing
  <2>2. DcmType'
    BY <1>6, <2>0 DEF StartPlayer, DcmType, DcmPlace, Preparing, MemoryType
  <2>3. PlayerType'
    BY <1>6, <2>0 DEF StartPlayer, PlayerType, PlayerPlace, MemoryType
  <2>4. CountType'
    BY <1>6, <2>0 DEF StartPlayer, CountType
  <2>5. DcmPlace'
    BY <1>6, <2>0 DEF StartPlayer, DcmPlace, DcmType, Preparing, MemoryType
  <2>6. PlayerPlace'
    BY <1>6, <2>0 DEF StartPlayer, PlayerPlace, PlayerType, DcmPlace, DcmType, MemoryType
  <2> QED
    BY <2>1, <2>2, <2>3, <2>4, <2>5, <2>6
<1>7. CASE Open
  <2>0. UNCHANGED <<named, ready, para, start, dcm, at, tmp, passed, floor, loads, writes, settled>>
    BY <1>7 DEF Open, memory, dcmVars
  <2>1. MemoryType'
    BY <1>7, <2>0 DEF Open, MemoryType, PlayerPlace, PlayerType, CountType, DcmType, DcmPlace, Preparing
  <2>2. DcmType'
    BY <1>7, <2>0 DEF Open, DcmType, DcmPlace, Preparing, MemoryType
  <2>3. PlayerType'
    <3>1. to \in Segs /\ (named[to] # None => named[to] \in 0 .. MaxStarts)
      BY <1>7 DEF Open, PlayerPlace, MemoryType
    <3>2. CASE named[to] # None
      BY <1>7, <2>0, <3>1, <3>2 DEF Open, PlayerType
    <3>3. CASE named[to] = None
      BY <1>7, <2>0, <3>3 DEF Open, PlayerType
    <3> QED
      BY <3>2, <3>3
  <2>4. CountType'
    BY <1>7, <2>0 DEF Open, CountType, DcmType
  <2>5. DcmPlace'
    BY <1>7, <2>0 DEF Open, DcmPlace, DcmType, Preparing, MemoryType
  <2>6. PlayerPlace'
    <3>1. to \in Segs /\ (named[to] # None => named[to] \in 0 .. start)
      BY <1>7 DEF Open, PlayerPlace, DcmPlace
    <3>2. CASE named[to] # None
      <4>1. \A s \in Segs : s < to + 1 => mapped'[s] \in 0 .. start
        BY <1>7, <3>1, <3>2 DEF Open, PlayerPlace, PlayerType
      <4>2. IF to = S THEN player' = "keys" /\ to' = 1 ELSE player' = "open" /\ to' = to + 1
        BY <1>7, <3>2 DEF Open
      <4> QED
        BY <2>0, <3>1, <4>1, <4>2 DEF PlayerPlace
    <3>3. CASE named[to] = None
      BY <1>7, <3>3 DEF Open, PlayerPlace
    <3> QED
      BY <3>2, <3>3
  <2> QED
    BY <2>1, <2>2, <2>3, <2>4, <2>5, <2>6
<1>8. CASE Bind
  <2>0. UNCHANGED <<named, ready, para, start, dcm, at, tmp, passed, floor, loads, to, mapped, writes, settled>>
    BY <1>8 DEF Bind, memory, dcmVars
  <2>1. MemoryType'
    BY <1>8, <2>0 DEF Bind, MemoryType, PlayerPlace, PlayerType, CountType, DcmType, DcmPlace, Preparing
  <2>2. DcmType'
    BY <1>8, <2>0 DEF Bind, DcmType, DcmPlace, Preparing, MemoryType
  <2>3. PlayerType'
    BY <1>8, <2>0 DEF Bind, PlayerType, PlayerPlace, MemoryType
  <2>4. CountType'
    BY <1>8, <2>0 DEF Bind, CountType
  <2>5. DcmPlace'
    BY <1>8, <2>0 DEF Bind, DcmPlace, DcmType, Preparing, MemoryType
  <2>6. PlayerPlace'
    BY <1>8, <2>0 DEF Bind, PlayerPlace, PlayerType, DcmPlace, DcmType, MemoryType
  <2> QED
    BY <2>1, <2>2, <2>3, <2>4, <2>5, <2>6
<1>9. CASE Command
  <2>0. UNCHANGED <<named, ready, para, start, dcm, at, tmp, passed, floor, loads, mapped, settled>>
    BY <1>9 DEF Command, memory, dcmVars
  <2>1. MemoryType'
    BY <1>9, <2>0 DEF Command, MemoryType, PlayerPlace, PlayerType, CountType, DcmType, DcmPlace, Preparing
  <2>2. DcmType'
    BY <1>9, <2>0 DEF Command, DcmType, DcmPlace, Preparing, MemoryType
  <2>3. PlayerType'
    BY <1>9, <2>0 DEF Command, PlayerType, PlayerPlace, MemoryType
  <2>4. CountType'
    <3>1. heard' \in BOOLEAN /\ quiet' = "no" /\ UNCHANGED <<found, torn>>
      BY <1>9 DEF Command, Running
    <3>2. writes' = writes + 1 /\ writes' <= MaxWrites
      BY <1>9 DEF Command, CountType
    <3> QED
      BY <2>0, <3>1, <3>2 DEF CountType
  <2>5. DcmPlace'
    BY <1>9, <2>0 DEF Command, DcmPlace, DcmType, Preparing, MemoryType
  <2>6. PlayerPlace'
    BY <1>9, <2>0 DEF Command, PlayerPlace, PlayerType, DcmPlace, DcmType, MemoryType
  <2> QED
    BY <2>1, <2>2, <2>3, <2>4, <2>5, <2>6
<1>10. CASE Write
  <2>0. UNCHANGED <<named, ready, start, dcm, at, tmp, passed, floor, loads, mapped, writes>>
    BY <1>10 DEF Write, dcmVars
  <2>1. MemoryType'
    <3>1. writes \in 0 .. MaxWrites /\ para' = [para EXCEPT ![mapped[S]][to] = writes]
      BY <1>10 DEF Write, Stored, CountType
    <3>2. para' \in [0 .. MaxStarts -> [Elements -> 0 .. MaxWrites]]
      BY <3>1 DEF MemoryType
    <3> QED
      BY <2>0, <3>2 DEF MemoryType
  <2>2. DcmType'
    BY <1>10, <2>0 DEF Write, Stored, DcmType, DcmPlace, Preparing, MemoryType
  <2>3. PlayerType'
    BY <1>10, <2>0 DEF Write, Stored, PlayerType, PlayerPlace, MemoryType
  <2>4. CountType'
    <3>1. settled' \in {settled, writes} /\ torn' \in BOOLEAN /\ UNCHANGED <<floor, found, quiet, heard>>
      BY <1>10 DEF Write, CountType, dcmVars
    <3> QED
      BY <2>0, <3>1 DEF CountType
  <2>5. DcmPlace'
    BY <1>10, <2>0 DEF Write, Stored, DcmPlace, DcmType, Preparing, MemoryType
  <2>6. PlayerPlace'
    <3>1. /\ player' \in {"run", "write"} /\ to' \in Elements
          /\ player' = "run" => to' = 1
      BY <1>10 DEF Write, PlayerPlace
    <3> QED
      BY <1>10, <2>0, <3>1 DEF Write, PlayerPlace
  <2> QED
    BY <2>1, <2>2, <2>3, <2>4, <2>5, <2>6
<1>11. CASE KillPlayer
  <2>0. UNCHANGED <<named, ready, para, start, dcm, at, tmp, passed, floor, loads, to, mapped, writes, settled>>
    BY <1>11 DEF KillPlayer, memory, dcmVars
  <2>1. MemoryType'
    BY <1>11, <2>0 DEF KillPlayer, MemoryType, PlayerPlace, PlayerType, CountType, DcmType, DcmPlace, Preparing
  <2>2. DcmType'
    BY <1>11, <2>0 DEF KillPlayer, DcmType, DcmPlace, Preparing, MemoryType
  <2>3. PlayerType'
    BY <1>11, <2>0 DEF KillPlayer, PlayerType, PlayerPlace, MemoryType
  <2>4. CountType'
    BY <1>11, <2>0 DEF KillPlayer, CountType
  <2>5. DcmPlace'
    BY <1>11, <2>0 DEF KillPlayer, DcmPlace, DcmType, Preparing, MemoryType
  <2>6. PlayerPlace'
    BY <1>11, <2>0 DEF KillPlayer, PlayerPlace, PlayerType, DcmPlace, DcmType, MemoryType
  <2> QED
    BY <2>1, <2>2, <2>3, <2>4, <2>5, <2>6
<1>12. CASE UNCHANGED vars
  <2>0. UNCHANGED <<named, ready, para, start, dcm, at, tmp, passed, floor, loads, player, to,
                    mapped, writes, found, settled, quiet>>
    BY <1>12 DEF vars, memory, dcmVars, playerVars
  <2>1. MemoryType' /\ DcmType'
    BY <2>0 DEF MemoryType, DcmType
  <2>2. PlayerType' /\ CountType'
    BY <1>12, <2>0 DEF vars, PlayerType, CountType
  <2>3. DcmPlace'
    BY <2>0 DEF DcmPlace, Preparing
  <2>4. PlayerPlace'
    BY <2>0 DEF PlayerPlace
  <2> QED
    BY <2>1, <2>2, <2>3, <2>4
<1>13. CASE TestData
  <2>0. UNCHANGED <<named, ready, start, tmp, passed, loads, player, to, mapped, writes, found, heard, settled>>
    BY <1>13 DEF TestData, playerVars
  <2>1. /\ start \in 0 .. MaxStarts /\ at \in Elements /\ at' \in Elements
        /\ dcm' \in {"zero", "copy"} /\ floor' \in {floor, settled} /\ quiet' \in {quiet, "yes", "no"}
        /\ torn' \in BOOLEAN
    BY <1>13 DEF TestData, CopyBegins, DcmPlace, DcmType
  <2>2. MemoryType'
    <3>1. para' = [para EXCEPT ![start][at] = 0] /\ 0 \in 0 .. MaxWrites
      BY <1>13 DEF TestData
    <3>2. para' \in [0 .. MaxStarts -> [Elements -> 0 .. MaxWrites]]
      BY <2>1, <3>1 DEF MemoryType
    <3> QED
      BY <2>0, <3>2 DEF MemoryType
  <2>3. DcmType'
    BY <2>0, <2>1 DEF DcmType
  <2>4. PlayerType'
    BY <2>0 DEF PlayerType
  <2>5. CountType'
    BY <2>0, <2>1 DEF CountType
  <2>6. DcmPlace'
    BY <2>0, <2>1 DEF DcmPlace, Preparing
  <2>7. PlayerPlace'
    BY <2>0 DEF PlayerPlace
  <2> QED
    BY <2>2, <2>3, <2>4, <2>5, <2>6, <2>7
<1> QED
  BY <1>1, <1>2, <1>3, <1>4, <1>5, <1>6, <1>7, <1>8, <1>9, <1>10, <1>11, <1>12, <1>13 DEF Next

\* The types, strengthened to be inductive.
THEOREM TypeAlways == Spec => []TypeInv
  BY InitType, NextType, PTL DEF Spec

\* The values keep their types.
THEOREM TypeCorrect == Spec => []TypeOK
<1>1. TypeInv => TypeOK
  BY DEF TypeInv, TypeOK
<1> QED
  BY <1>1, TypeAlways, PTL

-----------------------------------------------------------------------------
(* One start.                                                              *)

\* Names the DCM has already given to this start, and what follows for a player
\* that found it running.
ShareInv ==
  /\ Running \/ dcm = "zero" => \A s \in Segs : named[s] = start
  /\ found > 0 /\ found = start =>
       /\ ~ Preparing
       /\ \A s \in Segs : named[s] = start
       /\ player = "open" => \A s \in Segs : s < to => mapped[s] = start
       /\ player \in {"keys", "run", "write"} => \A s \in Segs : mapped[s] = start
  /\ Preparing => \A s \in Segs : s < at => named[s] = start
  /\ dcm = "keys" => named[at] = start

LEMMA InitShare == Init => ShareInv
  BY DEF Init, ShareInv, Running, Preparing

LEMMA NextShare == TypeInv /\ ShareInv /\ [Next]_vars => ShareInv'
<1> SUFFICES ASSUME TypeInv, ShareInv, [Next]_vars PROVE ShareInv'
  OBVIOUS
<1> USE BoundAssumption DEF Segs
<1>0. /\ start \in Nat /\ found \in 0 .. start
      /\ Preparing => at \in Segs
      /\ player = "open" => to \in Segs
      /\ named \in [Segs -> (0 .. MaxStarts) \cup {None}]
      /\ mapped \in [Segs -> (0 .. MaxStarts) \cup {None}]
  BY DEF TypeInv, DcmType, CountType, DcmPlace, PlayerPlace, MemoryType, PlayerType
<1>1. CASE StartDcm
  BY <1>0, <1>1 DEF StartDcm, ShareInv, Running, Preparing
<1>2. CASE Prepare
  <2>1. Preparing /\ at \in Segs /\ ~ (found > 0 /\ found = start)
    BY <1>0, <1>2 DEF Prepare, Preparing, ShareInv
  <2>2. UNCHANGED <<start, found>>
    BY <1>2 DEF Prepare
  <2>3. CASE dcm = "destroy"
    BY <1>0, <1>2, <2>1, <2>2, <2>3 DEF Prepare, Preparing, Running, ShareInv
  <2>4. CASE dcm = "new"
    BY <1>0, <1>2, <2>1, <2>2, <2>4 DEF Prepare, Preparing, Running, ShareInv
  <2>5. CASE dcm = "keys"
    <3>1. \A s \in Segs : s <= at => named[s] = start
      BY <2>1, <2>5 DEF ShareInv
    <3> QED
      BY <1>2, <2>1, <2>2, <2>5, <3>1 DEF Prepare, AllPrepared, Preparing, Running, ShareInv
  <2> QED
    BY <2>1, <2>3, <2>4, <2>5 DEF Preparing
<1>3. CASE Copy
  BY <1>0, <1>3 DEF Copy, memory, playerVars, ShareInv, Running, Preparing
<1>4. CASE Pass
  BY <1>0, <1>4 DEF Pass, Again, memory, playerVars, ShareInv, Running, Preparing
<1>5. CASE KillDcm
  BY <1>0, <1>5 DEF KillDcm, memory, playerVars, ShareInv, Running, Preparing
<1>6. CASE StartPlayer
  BY <1>0, <1>6 DEF StartPlayer, memory, dcmVars, ShareInv, Running, Preparing
<1>7. CASE Open
  <2>1. UNCHANGED <<named, start, dcm, at>> /\ player = "open" /\ to \in Segs
    BY <1>0, <1>7 DEF Open, memory, dcmVars
  <2>2. ASSUME found' > 0, found' = start
        PROVE  /\ ~ Preparing /\ \A s \in Segs : named[s] = start
               /\ \A s \in Segs : s < to => mapped[s] = start
    BY <1>0, <1>7, <2>1, <2>2 DEF Open, ShareInv, Running, Preparing
  <2>3. CASE named[to] # None
    <3>1. ASSUME found' > 0, found' = start
          PROVE \A s \in Segs : s < to + 1 => mapped'[s] = start
      BY <1>0, <1>7, <2>1, <2>2, <2>3, <3>1 DEF Open
    <3>2. IF to = S THEN player' = "keys" ELSE player' = "open" /\ to' = to + 1
      BY <1>7, <2>3 DEF Open
    <3> QED
      BY <2>1, <2>2, <3>1, <3>2 DEF ShareInv, Running, Preparing
  <2>4. CASE named[to] = None
    BY <1>7, <2>1, <2>2, <2>4 DEF Open, ShareInv, Running, Preparing
  <2> QED
    BY <2>3, <2>4
<1>8. CASE Bind
  BY <1>0, <1>8 DEF Bind, memory, dcmVars, ShareInv, Running, Preparing
<1>9. CASE Command
  BY <1>0, <1>9 DEF Command, memory, dcmVars, ShareInv, Running, Preparing
<1>10. CASE Write
  BY <1>0, <1>10 DEF Write, dcmVars, ShareInv, Running, Preparing
<1>11. CASE KillPlayer
  BY <1>0, <1>11 DEF KillPlayer, memory, dcmVars, ShareInv, Running, Preparing
<1>12. CASE UNCHANGED vars
  BY <1>12 DEF vars, memory, dcmVars, playerVars, ShareInv, Running, Preparing
<1>13. CASE TestData
  <2>1. /\ UNCHANGED <<named, start, player, to, mapped, found>>
        /\ dcm = "zero" /\ dcm' \in {"zero", "copy"}
    BY <1>13 DEF TestData, playerVars
  <2> QED
    BY <2>1 DEF ShareInv, Running, Preparing
<1> QED
  BY <1>1, <1>2, <1>3, <1>4, <1>5, <1>6, <1>7, <1>8, <1>9, <1>10, <1>11, <1>12, <1>13 DEF Next

\* A player that found the DCM running shares every segment with it until the
\* DCM is started again: shm_init names them all before the first cycle.
THEOREM OneStartAlways == Spec => []OneStart
<1>1. Init => TypeInv /\ ShareInv
  BY InitType, InitShare
<1>2. TypeInv /\ ShareInv /\ [Next]_vars => (TypeInv /\ ShareInv)'
  BY NextType, NextShare
<1>3. ShareInv => OneStart
  BY DEF ShareInv, OneStart
<1> QED
  BY <1>1, <1>2, <1>3, PTL DEF Spec

-----------------------------------------------------------------------------
(* What a copy without a lock holds.                                       *)

\* The elements stored, and those copied, so far.  A command that counts began in
\* a cycle, after the last zero was stored.
AgeInv ==
  /\ UnderWay /\ heard => /\ Running \/ dcm = "off"
                          /\ \A i \in Elements : i < to => para[start][i] = writes
  /\ Preparing \/ dcm = "zero" => settled = 0
  /\ \A i \in Elements : para[start][i] >= settled
  /\ Running => floor <= settled
  /\ dcm = "copy" => \A i \in Elements : i < at => tmp[i] >= floor
  /\ dcm = "pass" => NoOldElement

LEMMA InitAge == Init => AgeInv
  BY BoundAssumption DEF Init, AgeInv, Running, Preparing, UnderWay, Vector, Elements

LEMMA NextAge == TypeInv /\ AgeInv /\ [Next]_vars => AgeInv'
<1> SUFFICES ASSUME TypeInv, AgeInv, [Next]_vars PROVE AgeInv'
  OBVIOUS
<1> USE BoundAssumption DEF Elements, history
<1>0. /\ start \in 0 .. MaxStarts /\ writes \in Nat /\ settled \in 0 .. writes /\ floor \in Nat
      /\ para \in [0 .. MaxStarts -> [Elements -> 0 .. MaxWrites]]
      /\ tmp \in [Elements -> 0 .. MaxWrites]
      /\ dcm \in {"zero", "copy"} => at \in Elements
      /\ player = "write" => to \in Elements
  BY DEF TypeInv, DcmType, CountType, DcmPlace, PlayerPlace, MemoryType
<1>m. player = "write" => mapped[S] \in 0 .. MaxStarts /\ mapped[S] <= start
  BY <1>0 DEF TypeInv, PlayerPlace, Segs
<1>n. \A g \in 0 .. MaxStarts : \A i \in Elements : para[g][i] \in Nat
  BY <1>0
<1>1. CASE StartDcm
  <2>1. /\ start' = start + 1 /\ start' \in 0 .. MaxStarts /\ settled' = 0 /\ dcm' = "destroy"
        /\ UNCHANGED <<para, player, mapped>>
    BY <1>0, <1>1 DEF StartDcm, memory, playerVars
  <2>2. \A i \in Elements : para'[start'][i] >= settled'
    BY <1>0, <2>1
  <2>3. ~ UnderWay'
    BY <1>0, <1>m, <2>1 DEF UnderWay
  <2> QED
    BY <2>1, <2>2, <2>3 DEF AgeInv, Running
<1>2. CASE Prepare
  <2>1. /\ UNCHANGED <<para, start, player, to, mapped, writes, heard, settled>>
        /\ Preparing /\ dcm' \notin {"copy", "pass", "off"}
    BY <1>2 DEF Prepare, AllPrepared, playerVars, Preparing
  <2>2. ~ (UnderWay /\ heard) /\ settled = 0
    BY <2>1 DEF AgeInv, Preparing, Running
  <2> QED
    BY <1>0, <2>1, <2>2 DEF AgeInv, Running, UnderWay
<1>3. CASE Copy
  <2>1. /\ UNCHANGED <<para, start, floor, player, to, mapped, writes, heard, settled>>
        /\ dcm = "copy" /\ tmp' = [tmp EXCEPT ![at] = para[start][at]]
        /\ IF at = Width THEN dcm' = "pass" ELSE dcm' = "copy" /\ at' = at + 1
    BY <1>3 DEF Copy, Copied, memory, playerVars
  <2>2. at \in Elements /\ para[start][at] \in Nat /\ para[start][at] >= floor
    <3>1. at \in Elements /\ start \in 0 .. MaxStarts
      BY <1>0, <2>1
    <3>2. para[start][at] >= settled /\ floor <= settled
      BY <2>1, <3>1 DEF AgeInv, Running
    <3>3. para[start][at] \in Nat
      BY <1>n, <3>1
    <3> QED
      <4>1. settled \in Nat /\ floor \in Nat
        BY <1>0
      <4> HIDE DEF Elements
      <4> QED
        BY <3>1, <3>2, <3>3, <4>1
  <2>3. \A i \in Elements : i < at + 1 => tmp'[i] >= floor
    BY <1>0, <2>1, <2>2 DEF AgeInv
  <2>4. dcm' = "copy" => \A i \in Elements : i < at' => tmp'[i] >= floor'
    BY <2>1, <2>3
  <2>5. dcm' = "pass" => \A i \in Elements : tmp'[i] >= floor'
    BY <2>1, <2>2, <2>3
  <2>6. /\ UnderWay' = UnderWay /\ Running /\ Running' /\ dcm' \in {"copy", "pass"}
    BY <2>1 DEF UnderWay, Running
  <2> QED
    BY <2>1, <2>4, <2>5, <2>6 DEF AgeInv, NoOldElement, Preparing
<1>4. CASE Pass
  <2>1. /\ UNCHANGED <<para, start, player, to, mapped, writes, heard, settled>>
        /\ dcm' = "copy" /\ at' = at /\ at = 1 /\ floor' = settled /\ Running /\ Running'
    BY <1>4 DEF Pass, CopyBegins, Again, memory, playerVars, TypeInv, DcmPlace, Running
  <2> QED
    BY <1>0, <2>1 DEF AgeInv, UnderWay, Preparing
<1>5. CASE KillDcm
  BY <1>5 DEF KillDcm, memory, playerVars, AgeInv, Running, Preparing, UnderWay
<1>6. CASE StartPlayer
  BY <1>6 DEF StartPlayer, memory, dcmVars, AgeInv, Running, Preparing, UnderWay, NoOldElement
<1>7. CASE Open
  <2>1. UNCHANGED <<para, start, dcm, at, tmp, floor, settled>> /\ player' # "write"
    BY <1>7 DEF Open, memory, dcmVars
  <2> QED
    BY <2>1 DEF AgeInv, Running, Preparing, UnderWay, NoOldElement
<1>8. CASE Bind
  <2>1. UNCHANGED <<para, start, dcm, at, tmp, floor, settled>> /\ player' # "write"
    BY <1>8 DEF Bind, memory, dcmVars
  <2> QED
    BY <2>1 DEF AgeInv, Running, Preparing, UnderWay, NoOldElement
<1>9. CASE Command
  <2>1. UNCHANGED <<para, start, dcm, at, tmp, floor, settled>> /\ to' = 1 /\ heard' = Running
    BY <1>9 DEF Command, memory, dcmVars
  <2>2. heard' => Running' \/ dcm' = "off"
    BY <2>1 DEF Running
  <2>3. \A i \in Elements : ~ (i < to')
    BY <2>1
  <2> QED
    BY <1>0, <2>1, <2>2, <2>3 DEF AgeInv, Running, Preparing, NoOldElement
<1>10. CASE Write
  <2>1. /\ UNCHANGED <<start, dcm, at, tmp, floor, mapped, writes, heard>> /\ player = "write"
        /\ para' = [para EXCEPT ![mapped[S]][to] = writes]
        /\ settled' = IF to = Width /\ mapped[S] = start /\ heard THEN writes ELSE settled
        /\ IF to = Width THEN player' = "run" ELSE player' = "write" /\ to' = to + 1
    BY <1>10 DEF Write, Stored, dcmVars
  <2>2. \A i \in Elements :
          para'[start][i] = IF start = mapped[S] /\ i = to THEN writes ELSE para[start][i]
    BY <1>0, <1>m, <2>1
  <2>3. UnderWay /\ heard => \A i \in Elements : i <= to => para'[start][i] = writes
    <3> SUFFICES ASSUME UnderWay, heard, NEW i \in Elements, i <= to PROVE para'[start][i] = writes
      OBVIOUS
    <3>1. CASE i = to
      BY <2>2, <3>1 DEF UnderWay
    <3>2. CASE i < to
      BY <2>2, <3>2 DEF AgeInv
    <3> QED
      BY <1>0, <2>1, <3>1, <3>2
  <2>4. settled' >= settled /\ writes >= settled
    BY <1>0, <2>1
  <2>5. \A i \in Elements : para'[start][i] >= settled'
    <3>1. CASE to = Width /\ mapped[S] = start /\ heard
      <4>1. settled' = writes /\ UnderWay /\ \A i \in Elements : i <= to
        BY <2>1, <3>1 DEF UnderWay
      <4>2. \A i \in Elements : para'[start][i] = writes
        BY <2>3, <3>1, <4>1
      <4>3. writes \in Nat
        BY <1>0
      <4>4. writes >= writes
        BY <4>3
      <4> HIDE DEF Elements
      <4> QED
        BY <4>1, <4>2, <4>4
    <3>2. CASE ~ (to = Width /\ mapped[S] = start /\ heard)
      <4>1. settled' = settled
        BY <2>1, <3>2
      <4>2. \A i \in Elements : para'[start][i] \in {writes, para[start][i]}
        BY <1>0, <2>2
      <4> QED
        BY <1>0, <1>n, <2>4, <4>1, <4>2 DEF AgeInv
    <3> QED
      BY <3>1, <3>2
  <2>6. UnderWay' /\ heard' => /\ Running' \/ dcm' = "off"
                               /\ \A i \in Elements : i < to' => para'[start'][i] = writes'
    <3> SUFFICES ASSUME UnderWay', heard'
                 PROVE  /\ Running' \/ dcm' = "off"
                        /\ \A i \in Elements : i < to' => para'[start'][i] = writes'
      OBVIOUS
    <3>1. UnderWay /\ heard /\ to' = to + 1 /\ to \in Nat
      BY <1>0, <2>1 DEF UnderWay
    <3>2. \A i \in Elements : i < to + 1 => i <= to
      BY <3>1
    <3>3. Running \/ dcm = "off"
      BY <3>1 DEF AgeInv
    <3> QED
      BY <2>1, <2>3, <3>1, <3>2, <3>3 DEF Running
  <2>7. Running' => floor' <= settled'
    BY <1>0, <2>1, <2>4 DEF AgeInv, Running
  <2>8. Preparing' \/ dcm' = "zero" => settled' = 0
    <3>1. Preparing \/ dcm = "zero" => ~ (UnderWay /\ heard)
      BY DEF AgeInv, Preparing, Running
    <3> QED
      BY <2>1, <3>1 DEF AgeInv, Preparing, UnderWay
  <2> QED
    BY <2>1, <2>5, <2>6, <2>7, <2>8 DEF AgeInv, NoOldElement
<1>11. CASE KillPlayer
  BY <1>11 DEF KillPlayer, memory, dcmVars, AgeInv, Running, Preparing, UnderWay, NoOldElement
<1>12. CASE UNCHANGED vars
  BY <1>12 DEF vars, memory, dcmVars, playerVars, AgeInv, Running, Preparing, UnderWay, NoOldElement
<1>13. CASE TestData
  <2>1. /\ UNCHANGED <<start, player, to, mapped, writes, heard, settled>> /\ dcm = "zero"
        /\ dcm' \in {"zero", "copy"} /\ (dcm' = "copy" => at' = 1 /\ floor' = settled)
    BY <1>13 DEF TestData, CopyBegins, playerVars
  <2>2. ~ (UnderWay /\ heard) /\ settled = 0
    BY <2>1 DEF AgeInv, Running
  <2>3. \A i \in Elements : para'[start][i] \in Nat
    <3>1. \A i \in Elements : para'[start][i] \in {0, para[start][i]}
      BY <1>0, <1>13, <2>1 DEF TestData
    <3>2. \A i \in Elements : para[start][i] \in Nat
      BY <1>0, <1>n
    <3> HIDE DEF Elements
    <3> QED
      BY <3>1, <3>2
  <2>4. ~ (UnderWay /\ heard)'
    BY <2>1, <2>2 DEF UnderWay
  <2>5. \A i \in Elements : para'[start'][i] >= settled'
    BY <2>1, <2>2, <2>3
  <2>6. ~ Preparing' /\ settled' = 0
    BY <2>1, <2>2 DEF Preparing
  <2>7. /\ Running' => floor' <= settled'
        /\ dcm' = "copy" => \A i \in Elements : i < at' => tmp'[i] >= floor'
        /\ dcm' # "pass"
    BY <1>0, <2>1, <2>2 DEF Running
  <2> QED
    BY <2>4, <2>5, <2>6, <2>7 DEF AgeInv
<1> QED
  BY <1>1, <1>2, <1>3, <1>4, <1>5, <1>6, <1>7, <1>8, <1>9, <1>10, <1>11, <1>12, <1>13 DEF Next

\* No element passed on is older than the last command begun in a cycle of the DCM
\* and complete when the copy began, although neither side locks.
THEOREM NoOldElementAlways == Spec => []NoOldElement
<1>1. Init => TypeInv /\ AgeInv
  BY InitType, InitAge
<1>2. TypeInv /\ AgeInv /\ [Next]_vars => (TypeInv /\ AgeInv)'
  BY NextType, NextAge
<1>3. AgeInv => NoOldElement
  BY DEF AgeInv, NoOldElement
<1> QED
  BY <1>1, <1>2, <1>3, PTL DEF Spec

Uniform == \A i, j \in Elements : para[start][i] = para[start][j]

\* While test_data stores its zeros: what it has stored stands, but for what a
\* command under way has stored over it.
ZeroInv ==
  dcm = "zero" /\ ~ torn =>
    \A i \in Elements : i < at => para[start][i] = 0 \/ (UnderWay /\ i < to)

\* In the cycles the vector is of one value, but for a command that has begun to store.
RestInv == Running /\ ~ torn /\ ~ (UnderWay /\ to > 1) => Uniform

\* A copy nobody disturbs agrees with the segment so far.
QuietInv ==
  Running /\ quiet = "yes" =>
    /\ ~ UnderWay /\ ~ torn
    /\ dcm = "copy" => \A i \in Elements : i < at => tmp[i] = para[start][i]
    /\ dcm = "pass" => \A i \in Elements : tmp[i] = para[start][i]

WholeInv == ZeroInv /\ RestInv /\ QuietInv

LEMMA InitWhole == Init => WholeInv
  BY DEF Init, WholeInv, ZeroInv, RestInv, QuietInv, Running

LEMMA NextWhole == TypeInv /\ AgeInv /\ WholeInv /\ [Next]_vars => WholeInv'
<1> SUFFICES ASSUME TypeInv, AgeInv, WholeInv, [Next]_vars PROVE WholeInv'
  OBVIOUS
<1> USE BoundAssumption DEF history
<1>0. /\ dcm \in {"zero", "copy"} => at \in Elements
      /\ start \in 0 .. MaxStarts /\ para \in [0 .. MaxStarts -> [Elements -> 0 .. MaxWrites]]
      /\ torn \in BOOLEAN
      /\ player = "write" => mapped[S] \in 0 .. MaxStarts /\ to \in Elements
  BY DEF TypeInv, DcmPlace, DcmType, MemoryType, CountType, PlayerPlace, Segs
<1>1. CASE StartDcm
  BY <1>1 DEF StartDcm, WholeInv, ZeroInv, RestInv, QuietInv, Running
<1>2. CASE Prepare
  <2>1. ~ Running' /\ (dcm' = "zero" => at' = 1)
    BY <1>2 DEF Prepare, AllPrepared, Running
  <2> QED
    BY <2>1 DEF WholeInv, ZeroInv, RestInv, QuietInv, Elements
<1>3. CASE Copy
  <2>1. /\ UNCHANGED <<para, start, player, to, mapped, torn, quiet>> /\ dcm = "copy"
        /\ tmp' = [tmp EXCEPT ![at] = para[start][at]]
        /\ IF at = Width THEN dcm' = "pass" ELSE dcm' = "copy" /\ at' = at + 1
    BY <1>3 DEF Copy, Copied, memory, playerVars
  <2>2. quiet = "yes" => \A i \in Elements : i <= at => tmp'[i] = para[start][i]
    <3>1. \A i \in Elements : i <= at => i < at \/ i = at
      BY <1>0, <2>1 DEF Elements
    <3>2. \A i \in Elements : tmp'[i] = IF i = at THEN para[start][at] ELSE tmp[i]
      BY <2>1 DEF TypeInv, DcmType
    <3> QED
      BY <2>1, <3>1, <3>2 DEF WholeInv, QuietInv, Running
  <2>3. /\ at = Width => \A i \in Elements : i <= at
        /\ \A i \in Elements : i < at + 1 => i <= at
    BY <1>0, <2>1 DEF Elements
  <2>4. UnderWay' = UnderWay /\ Running /\ Running' /\ Uniform' = Uniform
    BY <2>1 DEF UnderWay, Running, Uniform, Elements
  <2>5. ZeroInv' /\ RestInv'
    BY <2>1, <2>4 DEF WholeInv, ZeroInv, RestInv
  <2>6. QuietInv'
    BY <2>1, <2>2, <2>3, <2>4 DEF WholeInv, QuietInv, Elements
  <2> QED
    BY <2>5, <2>6 DEF WholeInv
<1>4. CASE Pass
  <2>1. /\ UNCHANGED <<para, start, player, to, mapped, torn, at>> /\ at = 1 /\ dcm' = "copy" /\ Running
        /\ quiet' = "yes" => ~ UnderWay /\ ~ torn
    BY <1>4 DEF Pass, CopyBegins, Again, memory, playerVars, TypeInv, DcmPlace, Running
  <2>2. UnderWay' = UnderWay /\ Uniform' = Uniform
    BY <2>1 DEF UnderWay, Uniform, Elements
  <2> QED
    BY <2>1, <2>2 DEF WholeInv, ZeroInv, RestInv, QuietInv, Elements
<1>5. CASE KillDcm
  BY <1>5 DEF KillDcm, WholeInv, ZeroInv, RestInv, QuietInv, Running
<1>6. CASE UNCHANGED <<para, start, dcm, at, tmp, torn, quiet>> /\ ~ UnderWay /\ ~ UnderWay'
  BY <1>6 DEF WholeInv, ZeroInv, RestInv, QuietInv, Running, Uniform, Elements
<1>7. StartPlayer \/ Open \/ Bind
        => UNCHANGED <<para, start, dcm, at, tmp, torn, quiet>> /\ ~ UnderWay /\ ~ UnderWay'
  BY DEF StartPlayer, Open, Bind, memory, dcmVars, UnderWay
<1>9. CASE Command
  <2>1. /\ UNCHANGED <<para, start, dcm, at, torn>> /\ ~ UnderWay /\ to' = 1 /\ quiet' = "no"
    BY <1>9 DEF Command, memory, dcmVars, UnderWay
  <2> QED
    BY <2>1 DEF WholeInv, ZeroInv, RestInv, QuietInv, Running, Uniform, Elements
<1>10. CASE Write
  <2>1. /\ UNCHANGED <<start, dcm, at, tmp, mapped, quiet, heard>> /\ player = "write"
        /\ para' = [para EXCEPT ![mapped[S]][to] = writes]
        /\ IF to = Width THEN player' = "run" ELSE player' = "write" /\ to' = to + 1
        /\ IF to = Width /\ mapped[S] = start THEN torn' = ~ heard ELSE torn' = torn
    BY <1>10 DEF Write, Stored, dcmVars
  <2>2. \A i \in Elements :
          para'[start][i] = IF start = mapped[S] /\ i = to THEN writes ELSE para[start][i]
    BY <1>0, <2>1
  <2>3. CASE mapped[S] # start
    <3>1. \A i \in Elements : para'[start][i] = para[start][i]
      BY <2>2, <2>3
    <3>2. ~ UnderWay /\ ~ UnderWay' /\ torn' = torn
      BY <2>1, <2>3 DEF UnderWay
    <3> QED
      BY <2>1, <3>1, <3>2 DEF WholeInv, ZeroInv, RestInv, QuietInv, Running, Uniform, Elements
  <2>4. CASE mapped[S] = start /\ to # Width
    <3>1. UnderWay /\ UnderWay' /\ to' = to + 1 /\ to' > 1 /\ to \in Nat /\ torn' = torn
      BY <1>0, <2>1, <2>4 DEF UnderWay, Elements
    <3>2. ZeroInv'
      <4>1. \A i \in Elements : (i = to => i < to') /\ (i < to => i < to')
        BY <3>1 DEF Elements
      <4> QED
        BY <2>1, <2>2, <3>1, <4>1 DEF WholeInv, ZeroInv, Elements
    <3>3. RestInv' /\ QuietInv'
      BY <2>1, <3>1 DEF WholeInv, RestInv, QuietInv, Running
    <3> QED
      BY <3>2, <3>3 DEF WholeInv
  <2>5. CASE mapped[S] = start /\ to = Width
    <3>1. UnderWay /\ torn' = ~ heard
      BY <2>1, <2>5 DEF UnderWay
    <3>2. QuietInv'
      BY <2>1, <3>1 DEF WholeInv, QuietInv, Running
    <3>3. heard => dcm # "zero" /\ Uniform'
      <4> SUFFICES ASSUME heard PROVE dcm # "zero" /\ Uniform'
        OBVIOUS
      <4>1. dcm # "zero" /\ \A i \in Elements : i < to => para[start][i] = writes
        BY <3>1 DEF AgeInv, Running
      <4>2. \A i \in Elements : i = to \/ i < to
        BY <2>5 DEF Elements
      <4>3. \A i \in Elements : para'[start][i] = writes
        BY <2>2, <2>5, <4>1, <4>2
      <4> QED
        BY <2>1, <4>1, <4>3 DEF Uniform, Elements
    <3> QED
      BY <2>1, <3>1, <3>2, <3>3 DEF WholeInv, ZeroInv, RestInv
  <2> QED
    BY <2>3, <2>4, <2>5
<1>11. CASE KillPlayer
  <2>1. /\ UNCHANGED <<para, start, dcm, at, tmp, quiet>> /\ ~ UnderWay'
        /\ torn' = (torn \/ (UnderWay /\ to > 1))
    BY <1>11 DEF KillPlayer, memory, dcmVars, UnderWay
  <2>2. ~ torn' => ~ torn /\ \A i \in Elements : ~ (UnderWay /\ i < to)
    <3>1. UnderWay => to \in Nat
      BY <1>0 DEF Elements, UnderWay
    <3>2. UnderWay => \A i \in Elements : i < to => to > 1
      BY <3>1 DEF Elements
    <3> QED
      BY <2>1, <3>2
  <2>3. ZeroInv'
    BY <2>1, <2>2 DEF WholeInv, ZeroInv, Elements
  <2>4. RestInv'
    BY <2>1 DEF WholeInv, RestInv, Running, Uniform, Elements
  <2>5. QuietInv'
    BY <2>1 DEF WholeInv, QuietInv, Running, Elements
  <2> QED
    BY <2>3, <2>4, <2>5 DEF WholeInv
<1>12. CASE UNCHANGED vars
  BY <1>12 DEF vars, memory, dcmVars, playerVars, WholeInv, ZeroInv, RestInv, QuietInv, Running, Uniform, UnderWay, Elements
<1>13. CASE TestData
  <2>1. /\ UNCHANGED <<start, player, to, mapped>> /\ dcm = "zero" /\ at \in Elements
        /\ para' = [para EXCEPT ![start][at] = 0]
        /\ torn' = (at > 1 /\ torn)
        /\ IF at = Width THEN dcm' = "copy" /\ at' = 1 /\ (quiet' = "yes" => ~ UnderWay /\ ~ torn')
                         ELSE dcm' = "zero" /\ at' = at + 1
    BY <1>0, <1>13 DEF TestData, CopyBegins, playerVars
  <2>2. UnderWay' = UnderWay
    BY <2>1 DEF UnderWay
  <2>3. ~ torn' => \A i \in Elements : i <= at => para'[start][i] = 0 \/ (UnderWay /\ i < to)
    <3> SUFFICES ASSUME ~ torn', NEW i \in Elements, i <= at
                 PROVE  para'[start][i] = 0 \/ (UnderWay /\ i < to)
      OBVIOUS
    <3>1. para'[start][i] = IF i = at THEN 0 ELSE para[start][i]
      BY <1>0, <2>1
    <3>2. CASE i < at
      <4>1. at > 1
        BY <2>1, <3>2 DEF Elements
      <4> QED
        BY <2>1, <3>1, <3>2, <4>1 DEF WholeInv, ZeroInv, Elements
    <3> QED
      BY <2>1, <3>1, <3>2 DEF Elements
  <2>4. CASE at = Width
    <3>1. \A i \in Elements : i <= at /\ ~ (i < at')
      BY <2>1, <2>4 DEF Elements
    <3>2. RestInv'
      <4> SUFFICES ASSUME ~ torn', ~ (UnderWay /\ to > 1) PROVE Uniform'
        BY <2>1, <2>2 DEF RestInv
      <4>1. \A i \in Elements : ~ (UnderWay /\ i < to)
        BY <1>0 DEF Elements, UnderWay
      <4>2. \A i \in Elements : para'[start][i] = 0
        BY <2>3, <3>1, <4>1
      <4> QED
        BY <2>1, <4>2 DEF Uniform, Elements
    <3> QED
      BY <2>1, <2>2, <2>4, <3>1, <3>2 DEF WholeInv, ZeroInv, QuietInv, Elements
  <2>5. CASE at # Width
    <3>1. \A i \in Elements : i < at' => i <= at
      BY <2>1, <2>5 DEF Elements
    <3> QED
      BY <2>1, <2>2, <2>3, <2>5, <3>1 DEF WholeInv, ZeroInv, RestInv, QuietInv, Running, Elements
  <2> QED
    BY <2>4, <2>5
<1> QED
  BY <1>1, <1>2, <1>3, <1>4, <1>5, <1>6, <1>7, <1>9, <1>10, <1>11, <1>12, <1>13 DEF Next

\* A velocity passed on is mixed only when a command was under way during the copy,
\* or the last in that segment was cut off or met the zeros of test_data.
THEOREM MixedOnlyByOverlapAlways == Spec => []MixedOnlyByOverlap
<1>1. Init => TypeInv /\ AgeInv /\ WholeInv
  BY InitType, InitAge, InitWhole
<1>2. TypeInv /\ AgeInv /\ WholeInv /\ [Next]_vars => (TypeInv /\ AgeInv /\ WholeInv)'
  BY NextType, NextAge, NextWhole
<1>3. WholeInv => MixedOnlyByOverlap
  BY DEF WholeInv, RestInv, QuietInv, MixedOnlyByOverlap, Uniform, Running
<1> QED
  BY <1>1, <1>2, <1>3, PTL DEF Spec

-----------------------------------------------------------------------------
(* The last command.                                                       *)

\* No value is newer than the last command.
NewestInv ==
  /\ \A g \in 0 .. MaxStarts : \A i \in Elements : para[g][i] <= writes
  /\ \A i \in Elements : tmp[i] <= writes

LEMMA InitNewest == Init => NewestInv
  BY BoundAssumption DEF Init, NewestInv, Vector, Elements

LEMMA NextNewest == TypeInv /\ NewestInv /\ [Next]_vars => NewestInv'
<1> SUFFICES ASSUME TypeInv, NewestInv, [Next]_vars PROVE NewestInv'
  OBVIOUS
<1>0. /\ start \in 0 .. MaxStarts /\ writes \in Nat
      /\ para \in [0 .. MaxStarts -> [Elements -> 0 .. MaxWrites]]
      /\ tmp \in [Elements -> 0 .. MaxWrites]
      /\ player = "write" => mapped[S] \in 0 .. MaxStarts
  BY BoundAssumption
     DEF TypeInv, DcmType, CountType, PlayerPlace, MemoryType, Segs
<1>1. CASE Copy
  <2>1. tmp' = [tmp EXCEPT ![at] = para[start][at]] /\ UNCHANGED <<para, writes>>
    BY <1>1 DEF Copy, Copied, memory, playerVars
  <2> QED
    BY <1>0, <2>1 DEF NewestInv
<1>2. CASE Write
  <2>1. /\ player = "write" /\ UNCHANGED <<tmp, writes>>
        /\ para' = [para EXCEPT ![mapped[S]][to] = writes]
    BY <1>2 DEF Write, Stored, dcmVars
  <2>2. \A g \in 0 .. MaxStarts : \A i \in Elements : para'[g][i] \in {writes, para[g][i]}
    BY <1>0, <2>1
  <2> QED
    BY <1>0, <2>1, <2>2 DEF NewestInv
<1>3. CASE Command
  <2>1. UNCHANGED <<para, tmp>> /\ writes' = writes + 1
    BY <1>3 DEF Command, memory, dcmVars
  <2>2. \A k \in Nat : k <= writes => k <= writes + 1
    BY <1>0
  <2>3. \A g \in 0 .. MaxStarts : \A i \in Elements : para[g][i] \in Nat
    BY <1>0
  <2>4. \A i \in Elements : tmp[i] \in Nat
    BY <1>0
  <2> QED
    BY <2>1, <2>2, <2>3, <2>4 DEF NewestInv
<1>4. CASE UNCHANGED <<para, tmp, writes>>
  BY <1>4 DEF NewestInv
<1>8. CASE TestData
  <2>1. UNCHANGED <<tmp, writes>> /\ para' = [para EXCEPT ![start][at] = 0]
    BY <1>8 DEF TestData, playerVars
  <2>2. \A g \in 0 .. MaxStarts : \A i \in Elements : para'[g][i] \in {0, para[g][i]}
    BY <1>0, <2>1
  <2> QED
    BY <1>0, <2>1, <2>2 DEF NewestInv
<1>5. StartDcm \/ Prepare \/ Pass \/ KillDcm => UNCHANGED <<para, tmp, writes>>
  BY DEF StartDcm, Prepare, Pass, KillDcm, memory, playerVars
<1>6. StartPlayer \/ Open \/ Bind \/ KillPlayer => UNCHANGED <<para, tmp, writes>>
  BY DEF StartPlayer, Open, Bind, KillPlayer, memory, dcmVars
<1>7. UNCHANGED vars => UNCHANGED <<para, tmp, writes>>
  BY DEF vars, memory, dcmVars, playerVars
<1> QED
  BY <1>1, <1>2, <1>3, <1>4, <1>5, <1>6, <1>7, <1>8 DEF Next

\* What holds of the values at every moment.
ValueInv == TypeInv /\ AgeInv /\ NewestInv

LEMMA ValuesAlways == Spec => []ValueInv
<1>1. Init => ValueInv
  BY InitType, InitAge, InitNewest DEF ValueInv
<1>2. ValueInv /\ [Next]_vars => ValueInv'
  BY NextType, NextAge, NextNewest DEF ValueInv
<1> QED
  BY <1>1, <1>2, PTL DEF Spec

\* Once the last command, begun in a cycle of the DCM, is complete in the segment the
\* DCM uses, that segment holds it whole: nothing an earlier player left half written,
\* no zero of test_data and nothing an earlier start left shows through.
THEOREM LastCommandStands == Spec => [](settled = writes => para[start] = Vector(writes))
<1>1. ValueInv => (settled = writes => para[start] = Vector(writes))
  <2> SUFFICES ASSUME ValueInv, settled = writes PROVE para[start] = Vector(writes)
    OBVIOUS
  <2>1. /\ start \in 0 .. MaxStarts /\ writes \in Nat
        /\ para[start] \in [Elements -> 0 .. MaxWrites]
    BY DEF ValueInv, TypeInv, DcmType, CountType, MemoryType
  <2>2. \A i \in Elements : para[start][i] >= writes /\ para[start][i] <= writes
    BY <2>1 DEF ValueInv, AgeInv, NewestInv
  <2>3. \A i \in Elements : para[start][i] = writes
    BY <2>1, <2>2
  <2> QED
    BY <2>1, <2>3 DEF Vector
<1> QED
  BY <1>1, ValuesAlways, PTL

\* And once a copy has begun after that, every velocity passed on is that
\* command, whole, until another is given or the DCM stops: what LastCommandPassed
\* leaves to fairness is only that copies are made.
THEOREM LastCommandHolds ==
  Spec => [][Running /\ floor = writes /\ writes' = writes /\ Running'
               => floor' = writes' /\ (Pass => passed' = Vector(writes))]_vars
<1>1. ASSUME ValueInv, [Next]_vars, Running, floor = writes, writes' = writes, Running'
      PROVE  floor' = writes' /\ (Pass => passed' = Vector(writes))
  <2>0. settled = writes
    BY <1>1 DEF ValueInv, AgeInv, TypeInv, CountType
  <2>1. CASE Pass
    <3>1. passed' = tmp /\ floor' = settled /\ dcm = "pass"
      BY <2>1 DEF Pass, CopyBegins
    <3>2. writes \in Nat /\ tmp \in [Elements -> 0 .. MaxWrites]
      BY <1>1 DEF ValueInv, TypeInv, CountType, DcmType
    <3>3. \A i \in Elements : tmp[i] >= writes /\ tmp[i] <= writes
      BY <1>1, <3>1 DEF ValueInv, AgeInv, NoOldElement, NewestInv
    <3>4. \A i \in Elements : tmp[i] = writes
      BY <3>2, <3>3
    <3>5. tmp = Vector(writes)
      BY <3>2, <3>4 DEF Vector
    <3> QED
      BY <1>1, <2>0, <3>1, <3>5
  <2>2. ~ Pass => floor' = floor
    <3>1. ~ Prepare /\ ~ StartDcm /\ ~ TestData
      BY <1>1 DEF Running, Prepare, StartDcm, TestData
    <3>2. Copy \/ KillDcm \/ UNCHANGED dcmVars => floor' = floor
      BY DEF Copy, KillDcm, dcmVars
    <3>3. StartPlayer \/ Open \/ Bind \/ Command \/ Write \/ KillPlayer => UNCHANGED dcmVars
      BY DEF StartPlayer, Open, Bind, Command, Write, KillPlayer
    <3>4. UNCHANGED vars => UNCHANGED dcmVars
      BY DEF vars
    <3> QED
      BY <1>1, <3>1, <3>2, <3>3, <3>4 DEF Next
  <2> QED
    BY <1>1, <2>1, <2>2
<1>2. ValueInv /\ [Next]_vars
        => [Running /\ floor = writes /\ writes' = writes /\ Running'
              => floor' = writes' /\ (Pass => passed' = Vector(writes))]_vars
  BY <1>1
<1> QED
  BY <1>2, ValuesAlways, PTL DEF Spec
=============================================================================
