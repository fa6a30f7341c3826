------------------------------ MODULE TeamRoles ------------------------------
(***************************************************************************)
(* How the robots of a team divide attack, defence and support among them  *)
(* (TeamBasic).  Ten times a second each robot broadcasts its state, reads *)
(* what came in, and chooses its own role from the latest message of each  *)
(* player; nobody confirms anything, and broadcasts get lost.  The robots' *)
(* loops run at the same rate but in no order: a tick is one turn of each. *)
(*                                                                         *)
(* The goalie (player 1) never changes its role and is kept out of every   *)
(* comparison, so it is not a player here.  Player 5 is not one either: no *)
(* loop of update() goes beyond 4.                                         *)
(***************************************************************************)
EXTENDS Naturals, FiniteSets

CONSTANTS
  Players,    \* player IDs other than the goalie's
  Etas,       \* what a robot may take to get to the ball, its own view
  Distances,  \* how far from its goal a robot may stand
  Unit,       \* a message carries an ETA in multiples of Unit ("%.2f")
  NonAttackerPenalty,
  NonDefenderPenalty,
  Timeout,    \* msgTimeout, in ticks
  NoMsg,      \* no message
  MaxChanges  \* bound: changes and losses, before things settle

Attack == 1
Defend == 2
Support == 3
Roles == {Attack, Defend, Support}

ASSUME PlayerAssumption == Players \subseteq 2 .. 4
ASSUME EtaAssumption == Etas \subseteq Nat /\ Etas # {} /\ Unit \in Nat \ {0}
ASSUME DistanceAssumption == Distances \subseteq Nat /\ Distances # {}
ASSUME PenaltyAssumption == NonAttackerPenalty \in Nat /\ NonDefenderPenalty \in Nat \ {0}
ASSUME TimeAssumption == Timeout \in Nat \ {0} /\ MaxChanges \in Nat

Rounded(e) == ((e + Unit \div 2) \div Unit) * Unit

Messages == [role : Roles, far : {Rounded(e) : e \in Etas}, out : BOOLEAN]
Ages == 0 .. Timeout + 1
Entries == [role : Roles, far : {Rounded(e) : e \in Etas}, out : BOOLEAN, age : Ages]

\* A robot's entry for itself, not rounded.
Exact == [role : Roles, far : Etas, out : BOOLEAN, age : Ages]

ASSUME NoMsgAssumption == NoMsg \notin Messages \cup Entries \cup Exact

VARIABLES
  role,     \* the role of each player
  far,      \* its ETA to the ball
  depth,    \* its distance from its own goal
  out,      \* it is penalised
  up,       \* its cognition process runs
  view,     \* view[r][s]: r's states[s], with its age
  air,      \* air[s][r]: the message of s that r has not read yet
  due,      \* the robots that have yet to update in this tick
  changes   \* changes and losses so far

teamVars == <<role, far, depth, out, up, view, air, due, changes>>

\* Mutant of FirstRole: the ID itself.
FirstRoleOfId(r) == r
\* set_role(playerID-1), when the module is loaded.
FirstRole(r) == r - 1

TeamInit ==
  /\ role = [r \in Players |-> FirstRole(r)]
  /\ far \in [Players -> Etas] /\ depth \in [Players -> Distances]
  /\ out = [r \in Players |-> FALSE] /\ up = [r \in Players |-> TRUE]
  /\ view = [r \in Players |-> [s \in Players |-> NoMsg]]
  /\ air = [s \in Players |-> [r \in Players |-> NoMsg]]
  /\ due = Players /\ changes = 0

-----------------------------------------------------------------------------
(* The choice of a role.  An entry is a message with its age.              *)

\* A player that can be chosen; the others have an ETA and a distance of huge.
Counts(e) == e # NoMsg /\ ~e.out /\ e.age <= Timeout

Eta(e) == e.far + IF e.role # Attack THEN NonAttackerPenalty ELSE 0

\* d is the distance of the robot that computes it, whoever's entry e is.
Ddefend(e, d) == d + IF e.role # Defend THEN NonDefenderPenalty ELSE 0

\* min(eta): the first of the smallest, or 0 if nobody counts.
Attacker(v) ==
  LET C == {s \in Players : Counts(v[s])}
  IN IF C = {} THEN 0
     ELSE CHOOSE s \in C : \A t \in C \ {s} :
            Eta(v[s]) < Eta(v[t]) \/ (Eta(v[s]) = Eta(v[t]) /\ s < t)

\* Mutant of Defender: the attacker is compared as well.
DefenderOfAll(v, d) ==
  LET C == {s \in Players : Counts(v[s])}
  IN IF C = {} THEN 4
     ELSE CHOOSE s \in C : \A t \in C \ {s} :
            \/ Ddefend(v[s], d) < Ddefend(v[t], d)
            \/ Ddefend(v[s], d) = Ddefend(v[t], d) /\ s > t

\* The last of the smallest; 4 if nobody counts, there or not.
Defender(v, d) ==
  LET C == {s \in Players : Counts(v[s])} \ {Attacker(v)}
  IN IF C = {} THEN IF Attacker(v) = 4 THEN 3 ELSE 4
     ELSE CHOOSE s \in C : \A t \in C \ {s} :
            \/ Ddefend(v[s], d) < Ddefend(v[t], d)
            \/ Ddefend(v[s], d) = Ddefend(v[t], d) /\ s > t

Choice(r, v, d) ==
  CASE Attacker(v) = r -> Attack
    [] Attacker(v) # r /\ Defender(v, d) = r -> Defend
    [] OTHER -> Support

-----------------------------------------------------------------------------
\* Something happens around the robots, or to a message.
Change == changes < MaxChanges /\ changes' = changes + 1

(* One update() of player r.                                               *)

Message(r) == [role |-> role[r], far |-> Rounded(far[r]), out |-> out[r]]
Entry(m, age) == [role |-> m.role, far |-> m.far, out |-> m.out, age |-> age]
Older(e) ==
  IF e = NoMsg THEN NoMsg ELSE [e EXCEPT !.age = IF @ > Timeout THEN @ ELSE @ + 1]

\* What r chooses from: its own state, not rounded, and the latest messages.
Known(r) ==
  [s \in Players |->
     CASE s = r -> Entry([Message(r) EXCEPT !.far = far[r]], 0)
       [] s # r /\ air[s][r] # NoMsg -> Entry(air[s][r], 0)
       [] OTHER -> view[r][s]]

\* Broadcast, receive, choose.  A message that goes out takes the place of an
\* older one that has not been read, or is lost itself.
TeamUpdate(r) ==
  /\ up[r] /\ r \in due
  /\ role' = [role EXCEPT ![r] = Choice(r, Known(r), depth[r])]
  /\ view' = [view EXCEPT ![r] = [Known(r) EXCEPT ![r] = NoMsg]]
  /\ \E lost \in SUBSET (Players \ {r}) :
       /\ (lost # {} /\ Change) \/ (lost = {} /\ UNCHANGED changes)
       /\ air' = [s \in Players |-> [t \in Players |->
            CASE s = r /\ t # r /\ t \notin lost -> Message(r)
              [] t = r -> NoMsg
              [] OTHER -> air[s][t]]]
  /\ due' = due \ {r}
  /\ UNCHANGED <<far, depth, out, up>>

\* Every running robot has had its turn: all entries get older.
TeamTick ==
  /\ \A r \in due : ~up[r]
  /\ due' = Players
  /\ view' = [r \in Players |-> [s \in Players |-> Older(view[r][s])]]
  /\ UNCHANGED <<role, far, depth, out, up, air, changes>>

-----------------------------------------------------------------------------
(* What goes on around them.                                               *)

Moves(r) ==
  /\ Change
  /\ \E e \in Etas \ {far[r]} : far' = [far EXCEPT ![r] = e]
  /\ UNCHANGED <<role, depth, out, up, view, air, due>>

\* The referee takes a robot out or lets it in again.
Penalty(r) ==
  /\ Change
  /\ out' = [out EXCEPT ![r] = ~@]
  /\ UNCHANGED <<role, far, depth, up, view, air, due>>

Crash(r) ==
  /\ Change
  /\ up[r] /\ up' = [up EXCEPT ![r] = FALSE]
  /\ UNCHANGED <<role, far, depth, out, view, air, due>>

Restart(r) ==
  /\ ~up[r] /\ up' = [up EXCEPT ![r] = TRUE]
  /\ role' = [role EXCEPT ![r] = FirstRole(r)]
  /\ view' = [view EXCEPT ![r] = [s \in Players |-> NoMsg]]
  /\ air' = [s \in Players |-> [air[s] EXCEPT ![r] = NoMsg]]
  /\ UNCHANGED <<far, depth, out, due, changes>>

TeamNext ==
  \/ \E r \in Players : TeamUpdate(r) \/ Moves(r) \/ Penalty(r) \/ Crash(r) \/ Restart(r)
  \/ TeamTick

TeamSpec == TeamInit /\ [][TeamNext]_teamVars

\* Time goes on, and the cognition loop of every robot with it: tick after tick
\* begins and comes to its end.
TeamFairSpec ==
  TeamSpec /\ []<>(due = Players) /\ []<>(\A r \in due : ~up[r])
-----------------------------------------------------------------------------
(* Properties.                                                             *)

TeamTypeOK ==
  /\ role \in [Players -> Roles]
  /\ far \in [Players -> Etas] /\ depth \in [Players -> Distances]
  /\ out \in [Players -> BOOLEAN] /\ up \in [Players -> BOOLEAN]
  /\ view \in [Players -> [Players -> Entries \cup {NoMsg}]]
  /\ air \in [Players -> [Players -> Messages \cup {NoMsg}]]
  /\ due \subseteq Players /\ changes \in 0 .. MaxChanges

Available == {r \in Players : up[r] /\ ~out[r]}

Lead == {r \in Available : \A s \in Available : far[r] <= far[s]}

\* Another robot is about as near to the ball as the nearest one, and rounding
\* may show each of them the other before or behind itself.
NearTie ==
  \E r \in Lead, s \in Available :
    /\ r # s /\ far[s] < far[r] + Unit
    /\ Rounded(far[r]) # far[r] \/ Rounded(far[s]) # far[s]

Holds(x) == {r \in Available : role[r] = x}

\* The entries that r may choose by as the state of s, read or still in the air.
Heeded(r, s) ==
  {e \in {view[r][s]} \cup {Entry(m, 0) : m \in {air[s][r]} \ {NoMsg}} :
     e # NoMsg /\ e.age <= Timeout}

\* r has heard of s as lately as one may who loses no message.
Heard(r, s) == \E e \in Heeded(r, s) : e.age <= IF s \in due THEN 1 ELSE 0

\* A player s that does not attack and needs f comes behind a, as r sees a.
Behind(a, r, s, f) ==
  LET g == IF r = a THEN far[a] ELSE Rounded(far[a])
  IN  g < f + NonAttackerPenalty \/ (g = f + NonAttackerPenalty /\ a < s)

\* a attacks, and whoever chooses next finds it the nearest.
Settled(a) ==
  /\ a \in Available /\ role[a] = Attack
  /\ \A r \in Players \ {a} : up[r] =>
       /\ Heard(r, a) /\ role[r] # Attack
       /\ \A e \in Heeded(r, a) : e.role = Attack /\ ~e.out /\ e.far = Rounded(far[a])
       /\ out[r] \/ Behind(a, r, r, far[r])
  /\ \A r \in Players, s \in Players \ {a} : up[r] /\ s # r =>
       /\ \A e \in Heeded(r, s) : e.out \/ (e.role # Attack /\ Behind(a, r, s, e.far))
       /\ up[s] => out[s] \/ Behind(a, r, s, Rounded(far[s]))

\* Beside it b defends, and whoever chooses next finds it the only one to.
Paired(a, b) ==
  /\ Settled(a) /\ b # a /\ b \in Available /\ role[b] = Defend
  /\ \A r \in Players \ {b} : up[r] =>
       /\ Heard(r, b) /\ role[r] # Defend
       /\ \A e \in Heeded(r, b) : e.role = Defend /\ ~e.out
  /\ \A r \in Players, s \in Players \ {a, b} : up[r] /\ s # r =>
       \A e \in Heeded(r, s) : e.out \/ e.role # Defend

\* One attacks and, if there are two of them, one defends, and nobody will
\* choose otherwise.
Agreed ==
  /\ Available # {} => \E a \in Players : Settled(a)
  /\ Cardinality(Available) > 1 => \E a, b \in Players : Paired(a, b)

\* Once nothing changes and nothing is lost the robots agree for good, from
\* whatever roles and stale views they come: a penalised or silent robot is
\* replaced, two attackers do not persist, nor does none, nor two defenders.
\* The one exception is a near tie.
RolesSettle == <>[](NearTie \/ Agreed)

\* TeamBasic.lua:155: "furthest player back is defender" - of the players heard
\* of but for the attacker, and with who defends already preferred.  Refuted:
\* the distance that is compared is the robot's own, for every player.
FurthestBackDefends ==
  [][\A r \in Players : TeamUpdate(r) /\ role'[r] = Defend =>
       \A s \in {t \in Players : Counts(Known(r)[t])} \ {Attacker(Known(r))} :
         depth[r] <= depth[s] + NonDefenderPenalty]_teamVars
=============================================================================
