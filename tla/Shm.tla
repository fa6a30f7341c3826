---------------------------------- MODULE Shm ----------------------------------
(***************************************************************************)
(* The shared memory between the device process (DCM) and the player, as a *)
(* thing that outlives both.  The DCM removes and creates its segments one *)
(* after the other when it starts (shm_init) and keeps pointers into them; *)
(* the player opens them by name, one after the other, when it loads       *)
(* dcm.lua, and keeps pointers too.  A removed segment loses its name, not *)
(* its memory: who has it mapped goes on using it.                         *)
(*                                                                         *)
(* The last segment, dcmParameter, holds the velocity: the player stores   *)
(* its elements one by one, the DCM copies them one by one and passes the  *)
(* copy on, in every cycle.  Before the first cycle the DCM stores zeros   *)
(* in it (test_data), over whatever a player that has bound by then has    *)
(* stored.  There is no lock.  Either process may be killed and started    *)
(* again at any time.  The head position beside the velocity, and the      *)
(* level settings of dcmState that test_data switches on, are left out.    *)
(***************************************************************************)
EXTENDS Naturals, FiniteSets

CONSTANTS
  S,          \* segments; the last is dcmParameter
  Width,      \* elements of the velocity
  None,
  MaxStarts,  \* bound: starts of the DCM
  MaxLoads,   \* bound: starts of the player
  MaxWrites   \* bound: velocities commanded

ASSUME BoundAssumption == /\ S \in Nat \ {0} /\ Width \in Nat \ {0}
                          /\ MaxStarts \in Nat /\ MaxLoads \in Nat /\ MaxWrites \in Nat

VARIABLES
  named,     \* what each name stands for: the start that created it, or None
  ready,     \* the segments that have all their keys: <<start, segment>>
  para,      \* velocity in the dcmParameter of each start
  start,     \* starts of the DCM; 0 created what an earlier run left
  dcm,       \* "off", "destroy", "new", "keys", "zero", "copy", "pass"
  at,        \* the segment it prepares, or the element it stores or copies
  tmp,       \* paratmp
  passed,    \* the velocity last passed to the DSP
  loads,     \* starts of the player
  player,    \* "off", "open", "keys", "run", "write"
  to,        \* the segment it opens, or the element it writes
  mapped,    \* the start whose segments it has mapped
  writes,    \* velocities commanded: the number is the value
  found,     \* history: the start the player found running at its first open, or 0
  heard,     \* history: the command under way, or the last one, began in a cycle of the DCM
  settled,   \* history: the last of those completed in the segment of the DCM
  floor,     \* history: settled, when the copy began
  torn,      \* history: a command was cut off in that segment, or met test_data, and none completed since
  quiet      \* history: "yes" unless a command was under way, or the segment torn, during the copy

memory == <<named, ready, para>>
dcmVars == <<start, dcm, at, tmp, passed, floor>>
playerVars == <<loads, player, to, mapped, writes>>
history == <<heard, settled, torn>>
vars == <<memory, dcmVars, playerVars, found, history, quiet>>

Segs == 1 .. S
Elements == 1 .. Width
Vector(v) == [i \in Elements |-> v]

\* Segments of an earlier run may be left.
Init ==
  /\ \E g \in {None, 0} : named = [s \in Segs |-> g]
  /\ ready = {0} \X Segs
  /\ para = [g \in 0 .. MaxStarts |-> Vector(0)]
  /\ start = 0 /\ dcm = "off" /\ at = 1 /\ tmp = Vector(0) /\ passed = Vector(0)
  /\ loads = 0 /\ player = "off" /\ to = 1 /\ mapped = [s \in Segs |-> None] /\ writes = 0
  /\ found = 0 /\ heard = FALSE /\ settled = 0 /\ floor = 0 /\ torn = FALSE /\ quiet = "yes"

-----------------------------------------------------------------------------
(* The DCM.                                                                *)

Running == dcm \in {"copy", "pass"}

\* A command is under way in the segment the DCM uses.
UnderWay == player = "write" /\ mapped[S] = start

\* Copying begins: what is settled by then, and whether the vector is whole and at rest.
CopyBegins(mixed) ==
  floor' = settled /\ quiet' = IF UnderWay \/ mixed THEN "no" ELSE "yes"

\* run_dcm.lua: entry().
StartDcm ==
  /\ dcm = "off" /\ start < MaxStarts
  /\ start' = start + 1 /\ dcm' = "destroy" /\ at' = 1
  /\ settled' = 0 /\ torn' = FALSE
  /\ UNCHANGED <<memory, tmp, passed, floor, playerVars, found, heard, quiet>>

\* Mutant of AllPrepared: the last segment is forgotten.
AllPreparedEarly == at >= S - 1

\* Mutant of AllPrepared: one segment too many.
AllPreparedLate == at > S

\* The segments the player opens are prepared; dcmParameterTemp follows, which
\* only the DCM uses.
AllPrepared == at = S

\* shm.destroy, shm.new, and the assignments that construct the keys.  After the
\* destroy, open_or_create creates.
Prepare ==
  /\ \/ /\ dcm = "destroy" /\ dcm' = "new"
        /\ named' = [named EXCEPT ![at] = None]
        /\ UNCHANGED <<ready, at>>
     \/ /\ dcm = "new" /\ dcm' = "keys"
        /\ named' = [named EXCEPT ![at] = start]
        /\ UNCHANGED <<ready, at>>
     \/ /\ dcm = "keys"
        /\ ready' = ready \cup {<<start, at>>}
        /\ dcm' = IF AllPrepared THEN "zero" ELSE "destroy"
        /\ at' = IF AllPrepared THEN 1 ELSE at + 1
        /\ UNCHANGED named
  /\ UNCHANGED <<para, start, tmp, passed, floor, playerVars, found, history, quiet>>

\* test_data: one element.  A command that is under way now, or completes before
\* the last element is stored, is overwritten, all of it or in part.
TestData ==
  /\ dcm = "zero"
  /\ para' = [para EXCEPT ![start][at] = 0]
  /\ torn' = (at > 1 /\ torn)
  /\ IF at = Width
     THEN dcm' = "copy" /\ at' = 1 /\ CopyBegins(torn')
     ELSE dcm' = "zero" /\ at' = at + 1 /\ UNCHANGED <<floor, quiet>>
  /\ UNCHANGED <<named, ready, start, tmp, passed, playerVars, found, heard, settled>>

\* Mutant of Copied: the last element is forgotten.
CopiedButLast(i) == IF i < Width THEN para[start][i] ELSE tmp[i]

\* paraCtrl: one element.
Copied(i) == para[start][i]

Copy ==
  /\ dcm = "copy"
  /\ tmp' = [tmp EXCEPT ![at] = Copied(at)]
  /\ IF at = Width THEN dcm' = "pass" /\ at' = 1 ELSE dcm' = "copy" /\ at' = at + 1
  /\ UNCHANGED <<memory, start, passed, floor, playerVars, found, history, quiet>>

\* Mutant of Again: paraCtrl is not called again.
AgainWithoutCopy == "pass"

Again == "copy"

\* DspPacket.pass_para, and the next cycle begins.
Pass ==
  /\ dcm = "pass"
  /\ passed' = tmp /\ dcm' = Again
  /\ CopyBegins(torn)
  /\ UNCHANGED <<memory, start, at, tmp, playerVars, found, history>>

KillDcm ==
  /\ dcm # "off" /\ dcm' = "off"
  /\ UNCHANGED <<memory, start, at, tmp, passed, floor, playerVars, found, history, quiet>>

-----------------------------------------------------------------------------
(* The player.                                                             *)

StartPlayer ==
  /\ player = "off" /\ loads < MaxLoads
  /\ loads' = loads + 1 /\ player' = "open" /\ to' = 1
  /\ mapped' = [s \in Segs |-> None]
  /\ UNCHANGED <<memory, dcmVars, writes, found, history, quiet>>

\* shm.open: it throws when the name is not there, and the player ends.
Open ==
  /\ player = "open"
  /\ found' = IF to > 1 THEN found ELSE IF Running THEN start ELSE 0
  /\ IF named[to] # None
     THEN /\ mapped' = [mapped EXCEPT ![to] = named[to]]
          /\ player' = IF to = S THEN "keys" ELSE "open"
          /\ to' = IF to = S THEN 1 ELSE to + 1
     ELSE player' = "off" /\ UNCHANGED <<mapped, to>>
  /\ UNCHANGED <<memory, dcmVars, loads, writes, history, quiet>>

\* One accessor for each key that is there now: what is missing makes its first
\* use fail, and the player ends.
Bind ==
  /\ player = "keys"
  /\ player' = IF \A s \in Segs : <<mapped[s], s>> \in ready THEN "run" ELSE "off"
  /\ UNCHANGED <<memory, dcmVars, loads, to, mapped, writes, found, history, quiet>>

\* set_para_velocity begins.
Command ==
  /\ player = "run" /\ writes < MaxWrites
  /\ writes' = writes + 1 /\ player' = "write" /\ to' = 1
  /\ heard' = Running /\ quiet' = "no"
  /\ UNCHANGED <<memory, dcmVars, loads, mapped, found, settled, torn>>

\* Mutant of Stored: the last element is forgotten.
StoredButLast(i) == IF i < Width THEN writes ELSE para[mapped[S]][i]

Stored(i) == writes

\* para.velocity[i] = val[i], in the segment the player has mapped.
Write ==
  /\ player = "write"
  /\ para' = [para EXCEPT ![mapped[S]][to] = Stored(to)]
  /\ IF to = Width THEN player' = "run" /\ to' = 1 ELSE player' = "write" /\ to' = to + 1
  /\ IF to = Width /\ mapped[S] = start
     THEN settled' = (IF heard THEN writes ELSE settled) /\ torn' = ~ heard
     ELSE UNCHANGED <<settled, torn>>
  /\ UNCHANGED <<named, ready, dcmVars, loads, mapped, writes, found, heard, quiet>>

KillPlayer ==
  /\ player # "off" /\ player' = "off"
  /\ torn' = (torn \/ (UnderWay /\ to > 1))
  /\ UNCHANGED <<memory, dcmVars, loads, to, mapped, writes, found, heard, settled, quiet>>

Next == StartDcm \/ Prepare \/ TestData \/ Copy \/ Pass \/ KillDcm
        \/ StartPlayer \/ Open \/ Bind \/ Command \/ Write \/ KillPlayer

Spec == Init /\ [][Next]_vars

\* Both processes run while they are alive.
FairSpec == Spec /\ WF_vars(Prepare \/ TestData \/ Copy \/ Pass) /\ WF_vars(Open \/ Bind \/ Write)

-----------------------------------------------------------------------------
(* Properties.                                                             *)

MemoryType ==
  /\ named \in [Segs -> (0 .. MaxStarts) \cup {None}]
  /\ ready \subseteq (0 .. MaxStarts) \X Segs
  /\ para \in [0 .. MaxStarts -> [Elements -> 0 .. MaxWrites]]

DcmType ==
  /\ start \in 0 .. MaxStarts /\ dcm \in {"off", "destroy", "new", "keys", "zero", "copy", "pass"}
  /\ at \in Segs \cup Elements
  /\ tmp \in [Elements -> 0 .. MaxWrites] /\ passed \in [Elements -> 0 .. MaxWrites]

PlayerType ==
  /\ loads \in 0 .. MaxLoads /\ player \in {"off", "open", "keys", "run", "write"}
  /\ to \in Segs \cup Elements /\ mapped \in [Segs -> (0 .. MaxStarts) \cup {None}]

CountType ==
  /\ writes \in 0 .. MaxWrites /\ settled \in 0 .. writes /\ floor \in 0 .. writes
  /\ found \in 0 .. start /\ quiet \in {"yes", "no"}
  /\ heard \in BOOLEAN /\ torn \in BOOLEAN

\* The types; settled and floor never pass the commands there were.
TypeOK == MemoryType /\ DcmType /\ PlayerType /\ CountType

\* A player that found the DCM running shares all segments with it, until the
\* DCM is started again.  One that was loaded while the DCM started may have
\* sensors of one start and commands of another, and never notice.
OneStart ==
  player \in {"run", "write"} /\ found > 0 /\ found = start => \A s \in Segs : mapped[s] = start

\* No element of a velocity passed on is older than the last command that was
\* begun in a cycle of the DCM and complete, in the segment the DCM uses, when the
\* copy began.  One begun before, while the DCM was starting, may be overwritten
\* with zeros (CommandSurvivesStart).
NoOldElement == dcm = "pass" => \A i \in Elements : tmp[i] >= floor

\* A velocity mixed of two commands, or of a command and zeros, is passed on only
\* when one was under way during the copy, or the last was cut off by the end of a
\* player or met test_data.
MixedOnlyByOverlap ==
  dcm = "pass" /\ quiet = "yes" => \A i, j \in Elements : tmp[i] = tmp[j]

\* When the last command was begun in a cycle of a DCM that goes on running, and
\* completed in its segment, the DSP is given that velocity, whole, in the end and
\* from then on: whatever was half written or half copied before.
LastCommandPassed ==
  <>[](Running /\ settled = writes) => <>[](passed = Vector(writes))

\* Not so: what a player has stored in the segment of the DCM is overwritten only
\* by a later command.  test_data comes after the keys a player binds to.
CommandSurvivesStart ==
  [][\A i \in Elements : start' = start /\ para[start][i] > 0 => para'[start][i] >= para[start][i]]_vars
=============================================================================
