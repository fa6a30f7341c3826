---------------------------- MODULE ConnectRegions ----------------------------
(***************************************************************************)
(* ConnectRegions: the connected regions of a labelled image, on which the *)
(* detection of ball, goal posts and spots rests.  One scan gives each     *)
(* pixel a provisional label and notes which labels belong together in an  *)
(* equivalence table; the table is then flattened and renumbered, and the  *)
(* regions measured and sorted.                                            *)
(*                                                                         *)
(* The image is read as the scan goes, so a state holds no pixel that has  *)
(* not been looked at.  Entries of the static label_array left by an       *)
(* earlier call are never read as long as the image is no higher than wide.*)
(***************************************************************************)
EXTENDS Integers, Sequences, FiniteSets, FiniteSetsExt, Functions

CONSTANTS
  Shapes,   \* sizes <<m, n>>: columns and rows
  NMax      \* sides of label_array

ASSUME ShapeAssumption ==
  \A s \in Shapes : s[1] \in Nat \ {0} /\ s[2] \in Nat \ {0} /\ s[2] <= s[1]
ASSUME SideAssumption == NMax \in Nat

VARIABLES
  shape,    \* <<m, n>>
  col, row, \* i and j, the pixel the scan comes to next
  label,    \* label_array, where it has been written; 0 is background
  table,    \* m_table of equiv_table
  nlabel,   \* next new label during the scan, then the number of regions
  pc,       \* "scan" (a refused image stays there), "measure", "done"
  regions   \* what is returned

vars == <<shape, col, row, label, table, nlabel, pc, regions>>

m == shape[1]
n == shape[2]
Pixels == (0 .. m - 1) \X (0 .. n - 1)
Labels == 0 .. m * n

\* An image that label_array cannot hold: the call returns -1 at once, nothing
\* is scanned and no region returned.
Refused == m > NMax \/ n > NMax

\* equiv_table.ensureAllocated(nlabel) after clear(): labels 0 and 1.
Init ==
  /\ shape \in Shapes /\ col = 0 /\ row = 0
  /\ label = <<>> /\ table = [i \in 0 .. 1 |-> i] /\ nlabel = 1
  /\ pc = "scan" /\ regions = <<>>

-----------------------------------------------------------------------------
(* The equivalence table: each label points at a label of its region.      *)

Root(t, l) == LET root[x \in DOMAIN t] == IF t[x] = x THEN x ELSE root[t[x]]
              IN  root[l]

\* Mutant of AddEquivalence: the label itself is redirected, not its root.
AddEquivalenceAtLabel(t, l1, l2) ==
  LET r1 == Root(t, l1) IN
  IF r1 < l2 THEN [t EXCEPT ![l2] = r1] ELSE [t EXCEPT ![r1] = l2]

AddEquivalence(t, l1, l2) ==
  LET r1 == Root(t, l1)
      r2 == Root(t, l2)
  IN  IF r1 < r2 THEN [t EXCEPT ![r2] = r1] ELSE [t EXCEPT ![r1] = r2]

\* Mutant of EnsureAllocated: the table does not grow.
EnsureAllocatedNot(t, l) == t

EnsureAllocated(t, l) ==
  [i \in DOMAIN t \cup 0 .. l |-> IF i \in DOMAIN t THEN t[i] ELSE i]

\* In place, in ascending order: an entry below i has its final value.
TraverseLinks(t) ==
  LET new[i \in DOMAIN t] == IF t[i] < i THEN new[t[i]] ELSE t[t[i]] IN new

\* In place as well: roots are numbered in order, the others take the number
\* of the label they point at.
RemoveGaps(t) ==
  LET new[i \in DOMAIN t] ==
        IF t[i] = i THEN Cardinality({r \in DOMAIN t : r < i /\ t[r] = r})
        ELSE IF t[i] < i THEN new[t[i]] ELSE t[t[i]]
  IN  new

-----------------------------------------------------------------------------
(* The scan.                                                               *)

\* The neighbours of the pixel, in the code's order.
Neighbour ==
  <<<<col - 1, row>>, <<col, row - 1>>, <<col - 1, row - 1>>, <<col + 1, row - 1>>>>

Lit(p) == p \in DOMAIN label /\ label[p] # 0

\* Those that have a label.  The last test is on the column against the number
\* of rows.
Looked == {k \in 1 .. 4 : Lit(Neighbour[k]) /\ (k = 4 => col < n - 1)}

\* The labels l and those of the neighbours become one.
Merged(t, l) ==
  LET Join(u, k) == IF k \in Looked /\ label[Neighbour[k]] # l
                    THEN AddEquivalence(u, l, label[Neighbour[k]]) ELSE u
  IN  Join(Join(Join(Join(t, 1), 2), 3), 4)

\* One pixel, in row order; on says whether it has the colour.
Scan(on) ==
  LET least == Min({nlabel} \cup {label[Neighbour[k]] : k \in Looked})
      Set(l) == label' = [p \in DOMAIN label \cup {<<col, row>>} |->
                            IF p = <<col, row>> THEN l ELSE label[p]]
  IN  /\ pc = "scan" /\ row < n /\ ~ Refused
      /\ IF col < m - 1 THEN col' = col + 1 /\ row' = row
                        ELSE col' = 0 /\ row' = row + 1
      /\ \/ /\ ~ on /\ Set(0)
            /\ UNCHANGED <<table, nlabel>>
         \/ /\ on /\ Looked # {} /\ Set(least)
            /\ table' = Merged(table, least)
            /\ UNCHANGED nlabel
         \/ /\ on /\ Looked = {} /\ Set(nlabel)
            /\ nlabel' = nlabel + 1
            /\ table' = EnsureAllocated(table, nlabel)
      /\ UNCHANGED <<shape, pc, regions>>

\* traverseLinks, removeGaps, numLabel: label 0 is numbered, and not counted.
CleanUp ==
  /\ pc = "scan" /\ row = n
  /\ table' = RemoveGaps(TraverseLinks(table))
  /\ nlabel' = Cardinality({i \in DOMAIN table : table[i] = i}) - 1
  /\ pc' = "measure"
  /\ UNCHANGED <<shape, col, row, label, regions>>

\* RegionProps of a set of pixels (an empty one keeps its limits).
Measure(S) ==
  IF S = {} THEN [area |-> 0]
  ELSE LET I == {p[1] : p \in S}
           J == {p[2] : p \in S}
       IN  [area |-> Cardinality(S),
            box  |-> <<Min(I), Max(I), Min(J), Max(J)>>,
            sum  |-> <<MapThenSumSet(LAMBDA p : p[1], S), MapThenSumSet(LAMBDA p : p[2], S)>>]

\* Mutant of Largest: the smallest region comes first.
Smallest(r) == \A a, b \in DOMAIN r : a < b => r[a].area <= r[b].area

Largest(r) == \A a, b \in DOMAIN r : a < b => r[a].area >= r[b].area

\* Measured, and sorted by area, equal areas in any order.  The one region of
\* an image without any pixel has no area, and is not returned.
Return ==
  LET Of(l) == Measure({p \in Pixels : table[label[p]] = l})
  IN  /\ pc = "measure" /\ pc' = "done"
      /\ \E order \in Bijection(1 .. nlabel, 1 .. nlabel) :
           LET props == [r \in 1 .. nlabel |-> Of(order[r])]
           IN  /\ Largest(props)
               /\ regions' = IF props[1].area > 0 THEN props ELSE <<>>
      /\ UNCHANGED <<shape, col, row, label, table, nlabel>>

Next == (\E on \in BOOLEAN : Scan(on)) \/ CleanUp \/ Return

Spec == Init /\ [][Next]_vars

-----------------------------------------------------------------------------
(* Properties.                                                             *)

Coloured == {p \in DOMAIN label : label[p] # 0}

Touch(p, q) == p[1] - q[1] \in -1 .. 1 /\ p[2] - q[2] \in -1 .. 1

\* What the scan tests: all pairs that touch, but for the pairs down-left of a
\* column from n on.
Linked(p, q) ==
  Touch(p, q) /\ ~ \E a, b \in {p, q} : /\ a[1] = b[1] + 1 /\ b[2] = a[2] + 1
                                        /\ b[1] >= n - 1

\* The pixels of S that a chain of related pixels joins to p.
Component(S, R(_, _), p) ==
  LET grown[k \in 0 .. Cardinality(S)] ==
        IF k = 0 THEN {p}
        ELSE LET C == grown[k - 1] IN C \cup {q \in S \ C : \E s \in C : R(s, q)}
  IN  grown[Cardinality(S)]

Components(R(_, _)) == {Component(Coloured, R, p) : p \in Coloured}

Region == [area : 1 .. m * n, box : Seq(Labels), sum : Seq(Nat)]

\* The types.
TypeOK ==
  /\ shape \in Shapes /\ col \in 0 .. m - 1 /\ row \in 0 .. n
  /\ DOMAIN label \subseteq Pixels /\ \A p \in DOMAIN label : label[p] \in DOMAIN table
  /\ DOMAIN table \subseteq Labels \cup {1} /\ \A i \in DOMAIN table : table[i] \in DOMAIN table
  /\ nlabel \in 1 .. m * n + 1
  /\ pc \in {"scan", "measure", "done"}
  /\ regions \in Seq(Region)

\* A link always leads to a smaller label: the chains end, and a pass in
\* ascending order flattens them whatever their depth.
LinksLeadDown == \A i \in DOMAIN table : table[i] <= i

\* The table is a forest with its links down, and at every pixel two labels
\* have the same root just when the pixels read so far join them: merging labels
\* whose trees are already deep neither misses nor adds a connection.
RootsAreRegions ==
  /\ LinksLeadDown
  /\ pc = "scan" =>
       \A r \in {i \in DOMAIN table : table[i] = i} :
         LET S == {p \in Coloured : Root(table, label[p]) = r}
         IN  S # {} => S = Component(Coloured, Linked, CHOOSE p \in S : TRUE)

\* What is returned is each region once, with its own area, box and centroid,
\* the largest first.
RegionsReturned ==
  pc = "done" =>
    /\ \A r \in Range(regions) :
         Cardinality({k \in DOMAIN regions : regions[k] = r})
           = Cardinality({C \in Components(Linked) : Measure(C) = r})
    /\ Len(regions) = Cardinality(Components(Linked))
    /\ \A k \in DOMAIN regions : regions[k].area <= regions[1].area

\* The comment of the code: "Check 8-connected neighboring pixels".
EightConnected == pc = "done" => Len(regions) = Cardinality(Components(Touch))
=============================================================================
