------------------------ MODULE ConnectRegions_proofs ------------------------
(***************************************************************************)
(* What holds of ConnectRegions for images of every size.  The argument,   *)
(* from the scan to what is returned:                                      *)
(*                                                                         *)
(* - The table is a forest with its links down, so every label has a root. *)
(*   addEquivalence hangs one root below the other, which joins the two    *)
(*   trees and changes no other one, however deep they are.                *)
(* - While the image is read, linked pixels have the same root (Together), *)
(*   and any set of pixels that contains one of a root and is closed under *)
(*   links contains them all (Apart).  The pixel read next is linked to    *)
(*   the neighbours it looks at and to no other pixel read before it.      *)
(* - The flattened and numbered table gives a label the rank of its root,  *)
(*   and ranks are one for each root, without a gap, from 0, which is the  *)
(*   background's.                                                         *)
(* - A component is the least closed set around a pixel, so Together and   *)
(*   Apart say that the pixels of a number are one component.              *)
(***************************************************************************)
EXTENDS ConnectRegions, FiniteSetTheorems, WellFoundedInduction, TLAPS

-----------------------------------------------------------------------------
(* Recursion.  A recursive definition is a CHOOSE: that a function with its *)
(* equation exists is shown by the least index to which none reaches.      *)

LEMMA LeastNumber ==
  ASSUME NEW T \in SUBSET Nat, T # {}
  PROVE  \E x \in T : \A y \in T : x <= y
<1> DEFINE R == OpToRel(<, Nat)
<1>1. IsWellFoundedOn(R, Nat)
  BY NatLessThanWellFounded
<1>2. \E x \in T : \A y \in T : <<y, x>> \notin R
  <2> HIDE DEF R
  <2> QED
    BY <1>1, WFMin
<1>3. \A x, y \in Nat : x < y => <<x, y>> \in R
  BY DEF OpToRel
<1> HIDE DEF R
<1>4. PICK x \in T : \A y \in T : <<y, x>> \notin R
  BY <1>2
<1>5. ASSUME NEW y \in T PROVE x <= y
  <2>1. x \in Nat /\ y \in Nat /\ ~ (y < x)
    BY <1>3, <1>4
  <2> QED
    BY <2>1
<1> QED
  BY <1>5

\* A table of the labels 0 .. N whose links lead down, and never to the
\* background's label 0 from another.
Forest(t, N) ==
  /\ N \in Nat /\ t \in [0 .. N -> 0 .. N]
  /\ \A x \in 0 .. N : t[x] <= x /\ (x >= 1 => t[x] >= 1)

\* f follows the links of t as far as label k, and has the values of g at
\* the roots.
Follows(f, t, g, k) ==
  \A x \in 0 .. k : f[x] = IF t[x] = x THEN g[x] ELSE f[t[x]]

LEMMA FollowsExtends ==
  ASSUME NEW N, NEW t, Forest(t, N), NEW g, NEW k \in Nat, k + 1 <= N,
         NEW f, Follows(f, t, g, k)
  PROVE  \E h : Follows(h, t, g, k + 1)
<1> DEFINE h == [x \in 0 .. k + 1 |->
                   IF x # k + 1 THEN f[x]
                   ELSE IF t[x] = x THEN g[x] ELSE f[t[x]]]
<1>1. ASSUME NEW x \in 0 .. k + 1
      PROVE  h[x] = IF t[x] = x THEN g[x] ELSE h[t[x]]
  <2>1. x \in 0 .. N /\ t[x] \in 0 .. N /\ t[x] <= x
    BY DEF Forest
  <2>2. CASE x = k + 1
    BY <2>1, <2>2
  <2>3. CASE x # k + 1
    <3>1. x \in 0 .. k /\ t[x] \in 0 .. k
      BY <2>1, <2>3
    <3>2. f[x] = IF t[x] = x THEN g[x] ELSE f[t[x]]
      BY <3>1 DEF Follows
    <3> QED
      BY <3>1, <3>2
  <2> QED
    BY <2>2, <2>3
<1> HIDE DEF h
<1> QED
  BY <1>1 DEF Follows

LEMMA FollowsExists ==
  ASSUME NEW N, NEW t, Forest(t, N), NEW g
  PROVE  \E f : f = [x \in DOMAIN t |-> IF t[x] = x THEN g[x] ELSE f[t[x]]]
<1> DEFINE T == {k \in 0 .. N : ~ \E f : Follows(f, t, g, k)}
<1>1. N \in Nat /\ DOMAIN t = 0 .. N /\ \A x \in 0 .. N : t[x] \in 0 .. N
  BY DEF Forest
<1>2. T = {}
  <2>1. SUFFICES ASSUME T # {} PROVE FALSE
    OBVIOUS
  <2>2. PICK k \in T : \A y \in T : k <= y
    <3>1. T \in SUBSET Nat
      BY <1>1
    <3> HIDE DEF T
    <3> QED
      BY <2>1, <3>1, LeastNumber
  <2>3. k \in 0 .. N /\ ~ \E f : Follows(f, t, g, k)
    BY <2>2
  <2>4. CASE k = 0
    <3>1. \A x \in 0 .. 0 : t[x] = x
      BY <1>1 DEF Forest
    <3>2. Follows([x \in 0 .. 0 |-> g[x]], t, g, 0)
      BY <3>1 DEF Follows
    <3> QED
      BY <2>3, <2>4, <3>2
  <2>5. CASE k # 0
    <3>1. k - 1 \in 0 .. N /\ k - 1 \in Nat /\ ~ (k <= k - 1) /\ (k - 1) + 1 = k
      BY <1>1, <2>3, <2>5
    <3>2. k - 1 \notin T
      <4> HIDE DEF T
      <4> QED
        BY <2>2, <3>1
    <3>3. PICK f : Follows(f, t, g, k - 1)
      BY <3>1, <3>2
    <3>4. (k - 1) + 1 <= N
      BY <1>1, <2>3, <3>1
    <3>5. \E h : Follows(h, t, g, (k - 1) + 1)
      BY <3>1, <3>3, <3>4, FollowsExtends
    <3> QED
      BY <2>3, <3>1, <3>5
  <2> QED
    BY <2>4, <2>5
<1>3. PICK h : Follows(h, t, g, N)
  <2>1. N \in 0 .. N
    BY <1>1
  <2> QED
    BY <1>2, <2>1
<1> DEFINE f == [x \in 0 .. N |-> h[x]]
<1>4. f = [x \in DOMAIN t |-> IF t[x] = x THEN g[x] ELSE f[t[x]]]
  <2>1. \A x \in 0 .. N : f[x] = IF t[x] = x THEN g[x] ELSE f[t[x]]
    BY <1>1, <1>3 DEF Follows
  <2> QED
    BY <1>1, <2>1
<1> QED
  BY <1>4

-----------------------------------------------------------------------------
(* Roots.                                                                  *)

LEMMA RootUnfolds ==
  ASSUME NEW N, NEW t, Forest(t, N), NEW l \in 0 .. N
  PROVE  Root(t, l) = IF t[l] = l THEN l ELSE Root(t, t[l])
<1> DEFINE Rec(f) == f = [x \in DOMAIN t |-> IF t[x] = x THEN x ELSE f[t[x]]]
           g == [x \in 0 .. N |-> x]
           root == CHOOSE f : Rec(f)
<1>1. DOMAIN t = 0 .. N /\ t[l] \in 0 .. N
  BY DEF Forest
<1>2. \E f : Rec(f)
  <2>1. PICK f : f = [x \in DOMAIN t |-> IF t[x] = x THEN g[x] ELSE f[t[x]]]
    <3> HIDE DEF g, Rec, root
    <3> QED
      BY FollowsExists
  <2>2. Rec(f)
    BY <1>1, <2>1
  <2> QED
    BY <2>2
<1>3. Rec(root)
  <2> HIDE DEF Rec
  <2> QED
    BY <1>2
<1>4. \A x \in 0 .. N : Root(t, x) = root[x]
  BY DEF Root
<1> HIDE DEF root
<1>5. root[l] = IF t[l] = l THEN l ELSE root[t[l]]
  BY <1>1, <1>3
<1> QED
  BY <1>1, <1>4, <1>5

LEMMA RootFacts ==
  ASSUME NEW N, NEW t, Forest(t, N), NEW l \in 0 .. N
  PROVE  /\ Root(t, l) \in 0 .. l /\ Root(t, l) \in 0 .. N
         /\ t[Root(t, l)] = Root(t, l)
         /\ l >= 1 => Root(t, l) >= 1
<1> DEFINE Good(x) == /\ Root(t, x) \in 0 .. x /\ Root(t, x) \in 0 .. N
                      /\ t[Root(t, x)] = Root(t, x)
                      /\ x >= 1 => Root(t, x) >= 1
           T == {x \in 0 .. N : ~ Good(x)}
<1>1. N \in Nat
  BY DEF Forest
<1>2. T = {}
  <2>1. SUFFICES ASSUME T # {} PROVE FALSE
    OBVIOUS
  <2>2. PICK x \in T : \A y \in T : x <= y
    <3>1. T \in SUBSET Nat
      BY <1>1
    <3> HIDE DEF T
    <3> QED
      BY <2>1, <3>1, LeastNumber
  <2>3. x \in 0 .. N /\ ~ Good(x)
    BY <2>2
  <2>4. Root(t, x) = IF t[x] = x THEN x ELSE Root(t, t[x])
    BY <2>3, RootUnfolds
  <2>5. t[x] # x
    BY <1>1, <2>3, <2>4
  <2>6. t[x] \in 0 .. N /\ ~ (x <= t[x]) /\ (x >= 1 => t[x] >= 1)
    BY <1>1, <2>3, <2>5 DEF Forest
  <2>7. Good(t[x])
    <3>1. t[x] \notin T
      <4> HIDE DEF T
      <4> QED
        BY <2>2, <2>6
    <3> QED
      BY <2>6, <3>1
  <2> QED
    BY <1>1, <2>3, <2>4, <2>5, <2>6, <2>7
<1> QED
  BY <1>2

Redirected(t, hi, lo) == [t EXCEPT ![hi] = lo]

\* A root is made to point at a lower one.
LEMMA RootsLinked ==
  ASSUME NEW N, NEW t, Forest(t, N), NEW lo \in 1 .. N, NEW hi \in 1 .. N,
         t[lo] = lo, t[hi] = hi, lo <= hi
  PROVE  /\ Forest(Redirected(t, hi, lo), N)
         /\ \A x \in 0 .. N :
              Root(Redirected(t, hi, lo), x)
                = IF Root(t, x) = hi THEN lo ELSE Root(t, x)
<1> DEFINE u == Redirected(t, hi, lo)
<1>1. N \in Nat /\ hi \in 0 .. N /\ lo \in 0 .. N
  BY DEF Forest
<1>2. u \in [0 .. N -> 0 .. N] /\ \A x \in 0 .. N : u[x] = IF x = hi THEN lo ELSE t[x]
  BY <1>1 DEF Forest, Redirected
<1> HIDE DEF u
<1>3. Forest(u, N)
  <2>1. ASSUME NEW x \in 0 .. N PROVE u[x] <= x /\ (x >= 1 => u[x] >= 1)
    <3>1. t[x] <= x /\ (x >= 1 => t[x] >= 1)
      BY DEF Forest
    <3>2. u[x] = lo \/ u[x] = t[x]
      BY <1>2
    <3>3. x = hi \/ u[x] = t[x]
      BY <1>2
    <3> QED
      BY <1>1, <1>2, <3>1, <3>2, <3>3
  <2> QED
    BY <1>1, <1>2, <2>1 DEF Forest
<1> DEFINE Good(x) == Root(u, x) = IF Root(t, x) = hi THEN lo ELSE Root(t, x)
           T == {x \in 0 .. N : ~ Good(x)}
<1>4. T = {}
  <2>1. SUFFICES ASSUME T # {} PROVE FALSE
    OBVIOUS
  <2>2. PICK x \in T : \A y \in T : x <= y
    <3>1. T \in SUBSET Nat
      BY <1>1
    <3> HIDE DEF T
    <3> QED
      BY <2>1, <3>1, LeastNumber
  <2>3. x \in 0 .. N /\ ~ Good(x)
    BY <2>2
  <2>4. Root(t, x) = IF t[x] = x THEN x ELSE Root(t, t[x])
    BY <2>3, RootUnfolds
  <2>5. /\ Root(u, x) = IF u[x] = x THEN x ELSE Root(u, u[x])
        /\ Root(u, lo) = IF u[lo] = lo THEN lo ELSE Root(u, u[lo])
    <3>1. \A y \in 0 .. N : Root(u, y) = IF u[y] = y THEN y ELSE Root(u, u[y])
      <4> HIDE DEF u
      <4> QED
        BY <1>3, RootUnfolds
    <3> HIDE DEF u
    <3> QED
      BY <1>1, <2>3, <3>1
  <2>6. CASE t[x] = x
    <3>1. u[lo] = lo
      BY <1>1, <1>2
    <3>2. Root(u, lo) = lo
      BY <2>5, <3>1
    <3> QED
      BY <1>2, <2>3, <2>4, <2>5, <2>6, <3>2
  <2>7. CASE t[x] # x
    <3>1. u[x] = t[x] /\ x # hi
      BY <1>2, <2>3, <2>7
    <3>2. t[x] \in 0 .. N /\ ~ (x <= t[x])
      BY <1>1, <2>3, <2>7 DEF Forest
    <3>3. Good(t[x])
      <4>1. t[x] \notin T
        <5> HIDE DEF T
        <5> QED
          BY <2>2, <3>2
      <4> QED
        BY <3>2, <4>1
    <3> QED
      BY <2>3, <2>4, <2>5, <2>7, <3>1, <3>3
  <2> QED
    BY <2>6, <2>7
<1> QED
  BY <1>3, <1>4 DEF u

\* Label x is in a tree with one of A.
Among(t, x, A) == \E a \in A : Root(t, x) = Root(t, a)

\* u has the trees of t, those with a label of A made one.
Joined(t, u, A, N) ==
  \A x, y \in 0 .. N :
    Root(u, x) = Root(u, y)
      <=> Root(t, x) = Root(t, y) \/ (Among(t, x, A) /\ Among(t, y, A))

LEMMA AddEquivalenceJoins ==
  ASSUME NEW N, NEW t, Forest(t, N), NEW l1 \in 1 .. N, NEW l2 \in 1 .. N
  PROVE  LET u == AddEquivalence(t, l1, l2)
         IN  Forest(u, N) /\ Joined(t, u, {l1, l2}, N)
<1> DEFINE u == AddEquivalence(t, l1, l2)
           r1 == Root(t, l1)
           r2 == Root(t, l2)
           lo == IF r1 < r2 THEN r1 ELSE r2
           hi == IF r1 < r2 THEN r2 ELSE r1
<1>1. N \in Nat /\ l1 \in 0 .. N /\ l2 \in 0 .. N
  BY DEF Forest
<1>2. r1 \in 1 .. N /\ r2 \in 1 .. N /\ t[r1] = r1 /\ t[r2] = r2
  BY <1>1, RootFacts
<1>3. u = Redirected(t, hi, lo)
  BY DEF AddEquivalence, Redirected
<1>4. lo \in 1 .. N /\ hi \in 1 .. N /\ t[lo] = lo /\ t[hi] = hi /\ lo <= hi
  BY <1>2
<1>5. {lo, hi} = {r1, r2}
  OBVIOUS
<1> HIDE DEF u, lo, hi
<1>6. /\ Forest(u, N)
      /\ \A x \in 0 .. N : Root(u, x) = IF Root(t, x) = hi THEN lo ELSE Root(t, x)
  BY <1>3, <1>4, RootsLinked
<1>7. \A x : Among(t, x, {l1, l2}) <=> Root(t, x) \in {lo, hi}
  BY <1>5 DEF Among
<1> QED
  BY <1>6, <1>7 DEF Joined, u

LEMMA JoinedAgain ==
  ASSUME NEW N, NEW t, NEW u, NEW v, NEW A \in SUBSET (0 .. N),
         NEW l \in A, NEW b \in 0 .. N,
         Joined(t, u, A, N), Joined(u, v, {l, b}, N)
  PROVE  Joined(t, v, A \cup {b}, N)
<1>1. \A x \in 0 .. N : Among(u, x, {l, b}) <=> Among(t, x, A \cup {b})
  <2> TAKE x \in 0 .. N
  <2>1. Root(u, x) = Root(u, l) <=> Among(t, x, A)
    <3>1. Among(t, l, A)
      BY DEF Among
    <3>2. Root(t, x) = Root(t, l) => Among(t, x, A)
      BY DEF Among
    <3> QED
      BY <3>1, <3>2 DEF Joined
  <2>2. Root(u, x) = Root(u, b)
          <=> Root(t, x) = Root(t, b) \/ (Among(t, x, A) /\ Among(t, b, A))
    BY DEF Joined
  <2>3. Among(t, x, A \cup {b}) <=> Among(t, x, A) \/ Root(t, x) = Root(t, b)
    BY DEF Among
  <2>4. Among(u, x, {l, b}) <=> Root(u, x) = Root(u, l) \/ Root(u, x) = Root(u, b)
    BY DEF Among
  <2> QED
    BY <2>1, <2>2, <2>3, <2>4
<1>2. \A x : Among(t, x, A) => Among(t, x, A \cup {b})
  BY DEF Among
<1> QED
  BY <1>1, <1>2 DEF Joined

\* What the scan does to the table when the pixel has labelled neighbours.
Near == {label[Neighbour[k]] : k \in Looked}

LEMMA MergedJoins ==
  ASSUME NEW N, NEW t, Forest(t, N), NEW l \in 1 .. N,
         \A k \in Looked : label[Neighbour[k]] \in 1 .. N
  PROVE  Forest(Merged(t, l), N) /\ Joined(t, Merged(t, l), Near \cup {l}, N)
<1> DEFINE Join(u, k) == IF k \in Looked /\ label[Neighbour[k]] # l
                         THEN AddEquivalence(u, l, label[Neighbour[k]]) ELSE u
           A(K) == {l} \cup {label[Neighbour[k]] : k \in {k \in Looked : k <= K}}
           P(u, K) == Forest(u, N) /\ Joined(t, u, A(K), N)
<1>1. N \in Nat /\ 1 .. N \in SUBSET (0 .. N)
  BY DEF Forest
<1>2. Looked \in SUBSET (1 .. 4)
  BY DEF Looked
<1>3. P(t, 0)
  <2>1. A(0) = {l}
    BY <1>2
  <2> HIDE DEF A
  <2> QED
    BY <2>1 DEF Joined, Among
<1>4. ASSUME NEW u, NEW K \in 0 .. 3, P(u, K) PROVE P(Join(u, K + 1), K + 1)
  <2>1. CASE K + 1 \in Looked /\ label[Neighbour[K + 1]] # l
    <3> DEFINE b == label[Neighbour[K + 1]]
               v == AddEquivalence(u, l, b)
    <3>1. b \in 1 .. N
      BY <2>1
    <3>2. A(K + 1) = A(K) \cup {b}
      BY <1>2, <2>1
    <3>3. Join(u, K + 1) = v
      BY <2>1
    <3>4. A(K) \in SUBSET (0 .. N) /\ l \in A(K)
      BY <1>1
    <3> HIDE DEF A, b, v, Join
    <3>5. Forest(v, N) /\ Joined(u, v, {l, b}, N)
      BY <3>1, <1>4, AddEquivalenceJoins DEF v
    <3>6. Joined(t, v, A(K) \cup {b}, N)
      BY <1>1, <1>4, <3>1, <3>4, <3>5, JoinedAgain
    <3> QED
      BY <3>2, <3>3, <3>5, <3>6
  <2>2. CASE ~ (K + 1 \in Looked /\ label[Neighbour[K + 1]] # l)
    <3>1. A(K + 1) = A(K)
      BY <1>2, <2>2
    <3>2. Join(u, K + 1) = u
      BY <2>2
    <3> HIDE DEF A, Join
    <3> QED
      BY <1>4, <3>1, <3>2
  <2> QED
    BY <2>1, <2>2
<1>5. Merged(t, l) = Join(Join(Join(Join(t, 1), 2), 3), 4)
  BY DEF Merged
<1>6. A(4) = Near \cup {l}
  BY <1>2 DEF Near
<1> HIDE DEF P, Join, A
<1>7. P(Join(t, 1), 1)
  BY <1>3, <1>4
<1>8. P(Join(Join(t, 1), 2), 2)
  BY <1>4, <1>7
<1>9. P(Join(Join(Join(t, 1), 2), 3), 3)
  BY <1>4, <1>8
<1>10. P(Join(Join(Join(Join(t, 1), 2), 3), 4), 4)
  BY <1>4, <1>9
<1> QED
  BY <1>5, <1>6, <1>10 DEF P

-----------------------------------------------------------------------------
(* Components.                                                             *)

\* Nothing of D is related to a coloured pixel outside it.
Closed(D) ==
  /\ D \in SUBSET Coloured
  /\ \A s \in D, q \in Coloured : Linked(s, q) => q \in D

Grow(C) == C \cup {q \in Coloured \ C : \E s \in C : Linked(s, q)}

Grows(g, p, k) == g[0] = {p} /\ \A i \in 1 .. k : g[i] = Grow(g[i - 1])

LEMMA GrowsExists ==
  ASSUME NEW p, NEW K \in Nat
  PROVE  \E g : Grows(g, p, K)
<1> DEFINE T == {k \in Nat : ~ \E g : Grows(g, p, k)}
<1>1. T = {}
  <2>1. SUFFICES ASSUME T # {} PROVE FALSE
    OBVIOUS
  <2>2. PICK k \in T : \A y \in T : k <= y
    <3>1. T \in SUBSET Nat
      OBVIOUS
    <3> HIDE DEF T
    <3> QED
      BY <2>1, <3>1, LeastNumber
  <2>3. k \in Nat /\ ~ \E g : Grows(g, p, k)
    BY <2>2
  <2>4. CASE k = 0
    <3>1. Grows([i \in 0 .. 0 |-> {p}], p, 0)
      BY DEF Grows
    <3> QED
      BY <2>3, <2>4, <3>1
  <2>5. CASE k # 0
    <3>1. k - 1 \in Nat /\ ~ (k <= k - 1)
      BY <2>3, <2>5
    <3>2. k - 1 \notin T
      <4> HIDE DEF T
      <4> QED
        BY <2>2, <3>1
    <3>3. PICK g : Grows(g, p, k - 1)
      BY <3>1, <3>2
    <3> DEFINE h == [i \in 0 .. k |-> IF i = k THEN Grow(g[k - 1]) ELSE g[i]]
    <3>4. h[0] = {p}
      BY <2>3, <2>5, <3>3 DEF Grows
    <3>5. ASSUME NEW i \in 1 .. k PROVE h[i] = Grow(h[i - 1])
      <4>1. h[i - 1] = g[i - 1]
        BY <2>3
      <4>2. CASE i = k
        BY <2>3, <4>1, <4>2
      <4>3. CASE i # k
        <5>1. i \in 1 .. k - 1 /\ i \in 0 .. k
          BY <2>3, <4>3
        <5> QED
          BY <3>3, <4>1, <4>3, <5>1 DEF Grows
      <4> QED
        BY <4>2, <4>3
    <3>6. Grows(h, p, k)
      <4> HIDE DEF h
      <4> QED
        BY <3>4, <3>5 DEF Grows
    <3> QED
      BY <2>3, <3>6
  <2> QED
    BY <2>4, <2>5
<1> QED
  BY <1>1

LEMMA ComponentGrows ==
  ASSUME NEW p, IsFiniteSet(Coloured)
  PROVE  \E g : /\ Grows(g, p, Cardinality(Coloured))
                /\ Component(Coloured, Linked, p) = g[Cardinality(Coloured)]
<1> DEFINE K == Cardinality(Coloured)
           Rec(f) == f = [k \in 0 .. K |->
                            IF k = 0 THEN {p}
                            ELSE LET C == f[k - 1]
                                 IN  C \cup {q \in Coloured \ C : \E s \in C : Linked(s, q)}]
           grown == CHOOSE f : Rec(f)
<1>1. K \in Nat
  BY FS_CardinalityType
<1>2. \E f : Rec(f)
  <2>1. PICK g : Grows(g, p, K)
    BY <1>1, GrowsExists
  <2> DEFINE f == [k \in 0 .. K |-> g[k]]
  <2>2. ASSUME NEW k \in 0 .. K
        PROVE  f[k] = IF k = 0 THEN {p} ELSE Grow(f[k - 1])
    <3>1. k = 0 \/ (k \in 1 .. K /\ k - 1 \in 0 .. K)
      BY <1>1
    <3> QED
      BY <2>1, <3>1 DEF Grows
  <2>3. Rec(f)
    BY <2>2 DEF Grow
  <2> QED
    BY <2>3
<1>3. Rec(grown)
  <2> HIDE DEF Rec
  <2> QED
    BY <1>2
<1>4. Component(Coloured, Linked, p) = grown[K]
  BY DEF Component
<1>5. Grows(grown, p, K)
  <2> HIDE DEF grown
  <2>1. 0 \in 0 .. K /\ \A i \in 1 .. K : i \in 0 .. K /\ i # 0
    BY <1>1
  <2>2. grown[0] = {p}
    BY <1>3, <2>1
  <2>3. \A i \in 1 .. K : grown[i] = Grow(grown[i - 1])
    BY <1>3, <2>1 DEF Grow
  <2> QED
    BY <2>2, <2>3 DEF Grows
<1> QED
  BY <1>4, <1>5

LEMMA GrowStep ==
  ASSUME IsFiniteSet(Coloured), NEW C \in SUBSET Coloured
  PROVE  /\ Grow(C) \in SUBSET Coloured /\ C \subseteq Grow(C)
         /\ Closed(C) => Closed(Grow(C))
         /\ ~ Closed(C) => Cardinality(Grow(C)) >= Cardinality(C) + 1
         /\ \A D : Closed(D) /\ C \subseteq D => Grow(C) \subseteq D
<1>1. Grow(C) \in SUBSET Coloured /\ C \subseteq Grow(C)
  BY DEF Grow
<1>2. Closed(C) => Grow(C) = C
  BY DEF Grow, Closed
<1>3. ASSUME ~ Closed(C) PROVE Cardinality(Grow(C)) >= Cardinality(C) + 1
  <2>1. PICK q \in Coloured \ C : \E s \in C : Linked(s, q)
    BY <1>3 DEF Closed
  <2>2. C \cup {q} \subseteq Grow(C)
    BY <2>1 DEF Grow
  <2>3. IsFiniteSet(C) /\ IsFiniteSet(Grow(C))
    BY <1>1, FS_Subset
  <2>4. Cardinality(C \cup {q}) = Cardinality(C) + 1
    BY <2>1, <2>3, FS_AddElement
  <2>5. Cardinality(C \cup {q}) <= Cardinality(Grow(C))
    BY <2>2, <2>3, FS_Subset
  <2>6. Cardinality(C) \in Nat /\ Cardinality(Grow(C)) \in Nat
    BY <2>3, FS_CardinalityType
  <2> QED
    BY <2>4, <2>5, <2>6
<1>4. \A D : Closed(D) /\ C \subseteq D => Grow(C) \subseteq D
  BY DEF Grow, Closed
<1> QED
  BY <1>1, <1>2, <1>3, <1>4

\* The component of a pixel is the least closed set it is in.
LEMMA ComponentIsLeast ==
  ASSUME IsFiniteSet(Coloured), NEW p \in Coloured
  PROVE  LET C == Component(Coloured, Linked, p)
         IN  /\ p \in C /\ Closed(C)
             /\ \A D : Closed(D) /\ p \in D => C \subseteq D
<1> DEFINE K == Cardinality(Coloured)
<1>1. K \in Nat
  BY FS_CardinalityType
<1>2. PICK g : Grows(g, p, K) /\ Component(Coloured, Linked, p) = g[K]
  BY ComponentGrows
<1> DEFINE Good(k) == /\ g[k] \in SUBSET Coloured /\ p \in g[k]
                      /\ Closed(g[k]) \/ Cardinality(g[k]) >= k + 1
                      /\ \A D : Closed(D) /\ p \in D => g[k] \subseteq D
           T == {k \in 0 .. K : ~ Good(k)}
<1>3. T = {}
  <2>1. SUFFICES ASSUME T # {} PROVE FALSE
    OBVIOUS
  <2>2. PICK k \in T : \A y \in T : k <= y
    <3>1. T \in SUBSET Nat
      BY <1>1
    <3> HIDE DEF T
    <3> QED
      BY <2>1, <3>1, LeastNumber
  <2>3. k \in 0 .. K /\ ~ Good(k)
    BY <2>2
  <2>4. CASE k = 0
    <3>1. g[0] = {p} /\ Cardinality({p}) = 1
      BY <1>2, FS_Singleton DEF Grows
    <3>2. Good(0)
      BY <3>1
    <3> QED
      BY <2>3, <2>4, <3>2
  <2>5. CASE k # 0
    <3>1. k - 1 \in 0 .. K /\ k \in 1 .. K /\ ~ (k <= k - 1)
      BY <1>1, <2>3, <2>5
    <3>2. Good(k - 1)
      <4>1. k - 1 \notin T
        <5> HIDE DEF T
        <5> QED
          BY <2>2, <3>1
      <4> QED
        BY <3>1, <4>1
    <3> DEFINE C == g[k - 1]
    <3>3. g[k] = Grow(C)
      BY <1>2, <3>1 DEF Grows
    <3>4. C \in SUBSET Coloured
      BY <3>2
    <3>5. Cardinality(C) \in Nat /\ Cardinality(Grow(C)) \in Nat
      <4>1. Grow(C) \in SUBSET Coloured
        BY <3>4 DEF Grow
      <4> HIDE DEF C
      <4> QED
        BY <3>4, <4>1, FS_Subset, FS_CardinalityType
    <3>6. /\ Grow(C) \in SUBSET Coloured /\ C \subseteq Grow(C)
          /\ Closed(C) => Closed(Grow(C))
          /\ ~ Closed(C) => Cardinality(Grow(C)) >= Cardinality(C) + 1
          /\ \A D : Closed(D) /\ C \subseteq D => Grow(C) \subseteq D
      <4> HIDE DEF C
      <4> QED
        BY <3>4, GrowStep
    <3>7. Closed(C) \/ Cardinality(C) >= (k - 1) + 1
      BY <3>2
    <3>8. Closed(Grow(C)) \/ Cardinality(Grow(C)) >= k + 1
      <4> HIDE DEF C
      <4> QED
        BY <2>3, <3>5, <3>6, <3>7
    <3>9. Good(k)
      BY <3>2, <3>3, <3>6, <3>8
    <3> QED
      BY <2>3, <3>9
  <2> QED
    BY <2>4, <2>5
<1>4. Good(K)
  <2>1. K \in 0 .. K
    BY <1>1
  <2> QED
    BY <1>3, <2>1
<1>5. Closed(g[K])
  <2>1. Cardinality(g[K]) <= K /\ Cardinality(g[K]) \in Nat
    BY <1>4, FS_Subset, FS_CardinalityType
  <2> HIDE DEF K
  <2> QED
    BY <1>1, <1>4, <2>1
<1> QED
  BY <1>2, <1>4, <1>5

-----------------------------------------------------------------------------
(* The invariant of the scan.                                              *)

\* The region a pixel is in: while the table is a forest, the root of its
\* label; once it is numbered, the number.
Id(p) == IF pc = "scan" THEN Root(table, label[p]) ELSE table[label[p]]

\* The pixels read so far, in row order.
Read == {p \in Pixels : p[2] < row \/ (p[2] = row /\ p[1] < col)}

\* The last label of the table.
Last == IF nlabel = 1 THEN 1 ELSE nlabel - 1

Counters ==
  /\ shape \in Shapes /\ col \in 0 .. m - 1 /\ row \in 0 .. n
  /\ row = n => col = 0
  /\ nlabel \in Nat \ {0}
  /\ pc \in {"scan", "measure", "done"}

\* Every label given is a pixel's, and the table knows them all.
Labelled ==
  /\ DOMAIN label = Read
  /\ pc = "scan" =>
       /\ Forest(table, Last)
       /\ \A p \in Read : label[p] \in 0 .. nlabel - 1
       /\ \A l \in 1 .. nlabel - 1 : \E p \in Read : label[p] = l
       /\ nlabel <= row * m + col + 1

\* Linked pixels are of one region,
Together == \A p, q \in Coloured : Linked(p, q) => Id(p) = Id(q)

\* and a set that nothing links to the rest has no region in common with it.
Apart ==
  \A D \in SUBSET Coloured :
    Closed(D) => \A p \in D, q \in Coloured : Id(p) = Id(q) => q \in D

RegionInv == Together /\ Apart

-----------------------------------------------------------------------------
(* The geometry of the scan.                                               *)

Here == <<col, row>>

LEMMA ShapeFacts ==
  ASSUME shape \in Shapes
  PROVE  m \in Nat \ {0} /\ n \in Nat \ {0} /\ n <= m
BY ShapeAssumption DEF m, n

LEMMA HereIsNew ==
  ASSUME Counters, row < n
  PROVE  Here \in Pixels /\ Here \notin Read
<1>1. m \in Nat \ {0} /\ n \in Nat \ {0} /\ col \in 0 .. m - 1 /\ row \in 0 .. n - 1
  BY ShapeFacts DEF Counters
<1>2. Here \in Pixels
  BY <1>1 DEF Here, Pixels
<1>3. Here[1] = col /\ Here[2] = row
  BY DEF Here
<1> QED
  BY <1>1, <1>2, <1>3 DEF Read

LEMMA PixelFacts ==
  ASSUME shape \in Shapes, NEW p \in Pixels
  PROVE  p[1] \in 0 .. m - 1 /\ p[2] \in 0 .. n - 1 /\ p = <<p[1], p[2]>>
BY DEF Pixels

\* The next pixel.
Advance ==
  /\ shape' = shape
  /\ IF col < m - 1 THEN col' = col + 1 /\ row' = row ELSE col' = 0 /\ row' = row + 1

LEMMA ReadGrows ==
  ASSUME Counters, row < n, Advance
  PROVE  Read' = Read \cup {Here}
<1>1. m \in Nat \ {0} /\ n \in Nat \ {0} /\ col \in 0 .. m - 1 /\ row \in 0 .. n - 1
  BY ShapeFacts DEF Counters
<1>2. m' = m /\ n' = n /\ Pixels' = Pixels
  BY DEF Advance, m, n, Pixels
<1>3. ASSUME NEW p \in Pixels
      PROVE  (p[2] < row' \/ (p[2] = row' /\ p[1] < col'))
               <=> (p[2] < row \/ (p[2] = row /\ p[1] < col)) \/ p = Here
  <2>1. p[1] \in 0 .. m - 1 /\ p[2] \in 0 .. n - 1 /\ p = <<p[1], p[2]>>
    BY <1>3, PixelFacts DEF Counters
  <2>2. p = Here <=> p[1] = col /\ p[2] = row
    BY <2>1 DEF Here
  <2>3. CASE col < m - 1
    BY <1>1, <2>1, <2>2, <2>3 DEF Advance
  <2>4. CASE ~ (col < m - 1)
    BY <1>1, <2>1, <2>2, <2>4 DEF Advance
  <2> QED
    BY <2>3, <2>4
<1>4. Here \in Pixels
  BY HereIsNew
<1> QED
  BY <1>2, <1>3, <1>4 DEF Read

LEMMA LinkedSymmetric ==
  ASSUME shape \in Shapes, NEW p \in Pixels, NEW q \in Pixels
  PROVE  Linked(p, q) <=> Linked(q, p)
<1>1. /\ p[1] \in 0 .. m - 1 /\ p[2] \in 0 .. n - 1
      /\ q[1] \in 0 .. m - 1 /\ q[2] \in 0 .. n - 1
      /\ m \in Nat /\ n \in Nat
  BY PixelFacts, ShapeFacts
<1>2. Touch(p, q) <=> Touch(q, p)
  BY <1>1 DEF Touch
<1>3. {p, q} = {q, p}
  OBVIOUS
<1> QED
  BY <1>2, <1>3 DEF Linked

\* Two pixels, the second above or left of the first, are linked just when it
\* is one of the four neighbours looked at.
LEMMA LinkedIsLooked ==
  ASSUME Counters, row < n, DOMAIN label = Read, NEW y \in Coloured
  PROVE  Linked(Here, y) <=> \E k \in Looked : Neighbour[k] = y
<1>1. m \in Nat \ {0} /\ n \in Nat \ {0} /\ col \in 0 .. m - 1 /\ row \in 0 .. n - 1
  BY ShapeFacts DEF Counters
<1>2. y \in Read /\ y \in Pixels /\ Lit(y)
  BY DEF Coloured, Lit, Read
<1>3. y[1] \in 0 .. m - 1 /\ y[2] \in 0 .. n - 1 /\ y = <<y[1], y[2]>>
  BY <1>2, PixelFacts DEF Counters
<1>4. y[2] < row \/ (y[2] = row /\ y[1] < col)
  BY <1>2 DEF Read
<1>5. Here[1] = col /\ Here[2] = row
  BY DEF Here
<1>6. Touch(Here, y) <=> col - y[1] \in -1 .. 1 /\ row - y[2] \in -1 .. 1
  BY <1>5 DEF Touch
<1>7. (\E a, b \in {Here, y} : a[1] = b[1] + 1 /\ b[2] = a[2] + 1 /\ b[1] >= n - 1)
        <=> y[1] = col + 1 /\ row = y[2] + 1 /\ col >= n - 1
  BY <1>1, <1>3, <1>4, <1>5
<1>8. Linked(Here, y)
        <=> \/ y[1] = col - 1 /\ y[2] = row
            \/ y[1] = col /\ y[2] = row - 1
            \/ y[1] = col - 1 /\ y[2] = row - 1
            \/ y[1] = col + 1 /\ y[2] = row - 1 /\ col < n - 1
  BY <1>1, <1>3, <1>4, <1>6, <1>7 DEF Linked
<1>9. \A a, b : y = <<a, b>> <=> y[1] = a /\ y[2] = b
  BY <1>3
<1>10. /\ Neighbour[1] = y <=> y[1] = col - 1 /\ y[2] = row
       /\ Neighbour[2] = y <=> y[1] = col /\ y[2] = row - 1
       /\ Neighbour[3] = y <=> y[1] = col - 1 /\ y[2] = row - 1
       /\ Neighbour[4] = y <=> y[1] = col + 1 /\ y[2] = row - 1
  BY <1>9 DEF Neighbour
<1>11. (\E k \in Looked : Neighbour[k] = y)
         <=> \/ Neighbour[1] = y \/ Neighbour[2] = y \/ Neighbour[3] = y
             \/ Neighbour[4] = y /\ col < n - 1
  BY <1>2 DEF Looked
<1> QED
  BY <1>8, <1>10, <1>11

-----------------------------------------------------------------------------
(* One more pixel.                                                         *)

LEMMA ColouredAreRead ==
  ASSUME Counters, Labelled
  PROVE  Coloured \in SUBSET Read /\ Coloured \in SUBSET Pixels
BY DEF Coloured, Labelled, Read

\* Written(l): the pixel gets the label l.
Written(l) ==
  label' = [p \in DOMAIN label \cup {Here} |-> IF p = Here THEN l ELSE label[p]]

LEMMA WrittenFacts ==
  ASSUME Counters, Labelled, row < n, NEW l, Written(l)
  PROVE  /\ DOMAIN label' = Read \cup {Here} /\ Here \notin Read
         /\ label'[Here] = l /\ \A p \in Read : label'[p] = label[p]
         /\ Coloured' = IF l = 0 THEN Coloured ELSE Coloured \cup {Here}
<1>1. Here \notin Read
  BY HereIsNew
<1>2. DOMAIN label = Read
  BY DEF Labelled
<1>3. DOMAIN label' = Read \cup {Here}
  BY <1>2 DEF Written
<1>4. label'[Here] = l /\ \A p \in Read : label'[p] = label[p]
  BY <1>1, <1>2 DEF Written
<1>5. Coloured' = {p \in Read \cup {Here} : label'[p] # 0}
  BY <1>3 DEF Coloured
<1>6. Coloured = {p \in Read : label[p] # 0}
  BY <1>2 DEF Coloured
<1> QED
  BY <1>1, <1>3, <1>4, <1>5, <1>6

LEMMA LinkedKept ==
  ASSUME shape' = shape, NEW p, NEW q
  PROVE  Linked(p, q)' <=> Linked(p, q)
BY DEF Linked, Touch, n

\* The pixel x joins the regions of B, the coloured pixels linked to it.
LEMMA RegionsJoin ==
  ASSUME Counters, Labelled, RegionInv, shape' = shape,
         NEW x \in Pixels, x \notin Coloured, Coloured' = Coloured \cup {x},
         NEW B \in SUBSET Coloured,
         \A y \in Coloured : Linked(x, y) <=> y \in B,
         \A p, q \in Coloured :
           Id(p)' = Id(q)'
             <=> Id(p) = Id(q) \/ ((\E b \in B : Id(p) = Id(b)) /\ (\E b \in B : Id(q) = Id(b))),
         \A q \in Coloured : Id(x)' = Id(q)' <=> \E b \in B : Id(q) = Id(b)
  PROVE  RegionInv'
<1> DEFINE Nearby(p) == \E b \in B : Id(p) = Id(b)
<1>1. \A p, q : Linked(p, q)' <=> Linked(p, q)
  BY LinkedKept
<1>2. \A y \in Coloured : Linked(y, x) <=> y \in B
  BY LinkedSymmetric, ColouredAreRead DEF Counters
<1>3. \A b \in B : Nearby(b)
  OBVIOUS
<1>4. ASSUME NEW p \in Coloured', NEW q \in Coloured', Linked(p, q)
      PROVE  Id(p)' = Id(q)'
  <2>1. CASE p \in Coloured /\ q \in Coloured
    BY <1>4, <2>1 DEF RegionInv, Together
  <2>2. CASE p = x /\ q \in Coloured
    BY <1>3, <1>4, <2>2
  <2>3. CASE p \in Coloured /\ q = x
    BY <1>2, <1>3, <1>4, <2>3
  <2>4. CASE p = x /\ q = x
    BY <2>4
  <2> QED
    BY <2>1, <2>2, <2>3, <2>4
<1>5. ASSUME NEW E \in SUBSET Coloured', Closed(E)',
             NEW p \in E, NEW q \in Coloured', Id(p)' = Id(q)'
      PROVE  q \in E
  <2> DEFINE D == E \ {x}
  <2>1. \A s \in E, r \in Coloured' : Linked(s, r) => r \in E
    BY <1>1, <1>5 DEF Closed
  <2>2. D \in SUBSET Coloured /\ Closed(D)
    BY <2>1 DEF Closed
  <2>3. \A s \in D, r \in Coloured : Id(s) = Id(r) => r \in D
    <3> HIDE DEF D
    <3> QED
      BY <2>2 DEF RegionInv, Apart
  <2>4. \A b \in B : b \in D <=> x \in E
    BY <1>2, <2>1
  <2>5. \A s \in Coloured : Nearby(s) => (s \in D <=> x \in E)
    <3> SUFFICES ASSUME NEW s \in Coloured, Nearby(s) PROVE s \in D <=> x \in E
      OBVIOUS
    <3>1. PICK b \in B : Id(s) = Id(b)
      OBVIOUS
    <3>2. s \in D <=> b \in D
      <4> HIDE DEF D
      <4> QED
        BY <2>3, <3>1
    <3> QED
      BY <2>4, <3>2
  <2>6. CASE p \in Coloured /\ q \in Coloured
    <3>1. p \in D
      BY <2>6
    <3>2. Id(p) = Id(q) \/ (Nearby(p) /\ Nearby(q))
      BY <1>5, <2>6
    <3> HIDE DEF D, Nearby
    <3>3. q \in D
      BY <2>3, <2>5, <2>6, <3>1, <3>2
    <3> QED
      BY <3>3 DEF D
  <2>7. CASE p = x /\ q \in Coloured
    <3>1. Nearby(q)
      BY <1>5, <2>7
    <3> HIDE DEF Nearby
    <3> QED
      BY <2>5, <2>7, <3>1
  <2>8. CASE p \in Coloured /\ q = x
    <3>1. Nearby(p)
      BY <1>5, <2>8
    <3> HIDE DEF Nearby
    <3> QED
      BY <2>5, <2>8, <3>1
  <2>9. CASE p = x /\ q = x
    BY <2>9
  <2> QED
    BY <2>6, <2>7, <2>8, <2>9
<1>6. Together'
  BY <1>1, <1>4 DEF Together
<1>7. Apart'
  BY <1>5 DEF Apart
<1> QED
  BY <1>6, <1>7 DEF RegionInv

\* A pixel that has not the colour is in no region.
LEMMA RegionsStay ==
  ASSUME RegionInv, shape' = shape, Coloured' = Coloured,
         \A p, q \in Coloured : Id(p)' = Id(q)' <=> Id(p) = Id(q)
  PROVE  RegionInv'
<1>1. \A p, q : Linked(p, q)' <=> Linked(p, q)
  BY LinkedKept
<1>2. \A D \in SUBSET Coloured : Closed(D)' => Closed(D)
  BY <1>1 DEF Closed
<1>3. Together'
  BY <1>1 DEF Together, RegionInv
<1>4. Apart'
  BY <1>2 DEF Apart, RegionInv
<1> QED
  BY <1>3, <1>4 DEF RegionInv

-----------------------------------------------------------------------------
(* The table grows by one label.                                           *)

LEMMA TableGrows ==
  ASSUME NEW N, NEW t, Forest(t, N), NEW k \in Nat \ {0}, N = k - 1 \/ N = k,
         NEW u, u = EnsureAllocated(t, k), N = k => t[k] = k
  PROVE  /\ Forest(u, k) /\ Root(u, k) = k
         /\ \A x \in 0 .. N : Root(u, x) = Root(t, x)
<1>1. N \in Nat /\ DOMAIN t = 0 .. N /\ 0 .. N \cup 0 .. k = 0 .. k
  BY DEF Forest
<1>2. u = [x \in 0 .. k |-> IF x \in 0 .. N THEN t[x] ELSE x]
  BY <1>1 DEF EnsureAllocated
<1>3. u[k] = k /\ \A x \in 0 .. N : u[x] = t[x]
  BY <1>1, <1>2
<1>4. Forest(u, k)
  <2>1. ASSUME NEW x \in 0 .. k
        PROVE  u[x] \in 0 .. k /\ u[x] <= x /\ (x >= 1 => u[x] >= 1)
    <3>1. CASE x \in 0 .. N
      <4>1. t[x] \in 0 .. N /\ t[x] <= x /\ (x >= 1 => t[x] >= 1) /\ u[x] = t[x]
        BY <1>3, <3>1 DEF Forest
      <4> QED
        BY <1>1, <3>1, <4>1
    <3>2. CASE x \notin 0 .. N
      <4>1. u[x] = x
        BY <1>2, <3>2
      <4> QED
        BY <4>1
    <3> QED
      BY <3>1, <3>2
  <2>2. u \in [0 .. k -> 0 .. k]
    BY <1>2, <2>1
  <2> QED
    BY <2>1, <2>2 DEF Forest
<1>5. Root(u, k) = k
  BY <1>3, <1>4, RootUnfolds
<1> DEFINE Good(x) == Root(u, x) = Root(t, x)
           T == {x \in 0 .. N : ~ Good(x)}
<1>6. T = {}
  <2>1. SUFFICES ASSUME T # {} PROVE FALSE
    OBVIOUS
  <2>2. PICK x \in T : \A y \in T : x <= y
    <3>1. T \in SUBSET Nat
      BY <1>1
    <3> HIDE DEF T
    <3> QED
      BY <2>1, <3>1, LeastNumber
  <2>3. x \in 0 .. N /\ ~ Good(x) /\ x \in 0 .. k
    BY <1>1, <2>2
  <2>4. Root(t, x) = IF t[x] = x THEN x ELSE Root(t, t[x])
    BY <2>3, RootUnfolds
  <2>5. Root(u, x) = IF u[x] = x THEN x ELSE Root(u, u[x])
    BY <1>4, <2>3, RootUnfolds
  <2>6. u[x] = t[x]
    BY <1>3, <2>3
  <2>7. t[x] # x
    BY <2>3, <2>4, <2>5, <2>6
  <2>8. t[x] \in 0 .. N /\ ~ (x <= t[x])
    BY <1>1, <2>3, <2>7 DEF Forest
  <2>9. Good(t[x])
    <3>1. t[x] \notin T
      <4> HIDE DEF T
      <4> QED
        BY <2>2, <2>8
    <3> QED
      BY <2>8, <3>1
  <2> QED
    BY <2>3, <2>4, <2>5, <2>6, <2>7, <2>9
<1> QED
  BY <1>4, <1>5, <1>6

-----------------------------------------------------------------------------
(* The scan keeps the invariant.                                           *)

LEMMA MinFacts ==
  ASSUME NEW S \in SUBSET Nat, S # {}
  PROVE  Min(S) \in S /\ \A y \in S : Min(S) <= y
<1>1. \E x \in S : \A y \in S : x <= y
  BY LeastNumber
<1> QED
  BY <1>1 DEF Min

LEMMA CountersAdvance ==
  ASSUME Counters, row < n, Advance, nlabel' \in Nat \ {0}, pc' = "scan"
  PROVE  Counters' /\ row' * m' + col' = row * m + col + 1
<1>1. m \in Nat \ {0} /\ n \in Nat \ {0} /\ col \in 0 .. m - 1 /\ row \in 0 .. n - 1
  BY ShapeFacts DEF Counters
<1>2. m' = m /\ n' = n
  BY DEF Advance, m, n
<1>3. (row + 1) * m = row * m + m /\ row * m \in Nat /\ 0 * m = 0
  BY <1>1
<1>4. CASE col < m - 1
  BY <1>1, <1>2, <1>3, <1>4 DEF Advance, Counters
<1>5. CASE ~ (col < m - 1)
  <2>1. col' = 0 /\ row' = row + 1 /\ m = col + 1
    BY <1>1, <1>5 DEF Advance
  <2>2. row' * m' + col' = row * m + col + 1
    BY <1>1, <1>2, <1>3, <2>1
  <2> QED
    BY <1>1, <1>2, <2>1, <2>2 DEF Advance, Counters
<1> QED
  BY <1>4, <1>5

\* The pixel is not of the colour.
LEMMA ScanOff ==
  ASSUME Counters, Labelled, RegionInv, pc = "scan", row < n,
         Advance, Written(0), UNCHANGED <<table, nlabel, pc>>
  PROVE  Counters' /\ Labelled' /\ RegionInv'
<1>1. Counters' /\ row' * m' + col' = row * m + col + 1
  BY CountersAdvance DEF Counters
<1>2. /\ DOMAIN label' = Read \cup {Here} /\ Here \notin Read
      /\ label'[Here] = 0 /\ \A p \in Read : label'[p] = label[p]
      /\ Coloured' = Coloured
  BY WrittenFacts
<1>3. Read' = Read \cup {Here}
  BY ReadGrows
<1>4. Labelled'
  <2>1. Forest(table, Last)' /\ nlabel' <= row' * m' + col' + 1
    <3>1. row * m + col + 1 \in Nat
      BY ShapeFacts DEF Counters
    <3> HIDE DEF Here
    <3> QED
      BY <1>1, <3>1 DEF Labelled, Last, Counters
  <2>2. \A p \in Read' : label'[p] \in 0 .. nlabel' - 1
    BY <1>2, <1>3 DEF Labelled, Counters
  <2>3. \A l \in 1 .. nlabel' - 1 : \E p \in Read' : label'[p] = l
    BY <1>2, <1>3 DEF Labelled
  <2> QED
    BY <1>2, <1>3, <2>1, <2>2, <2>3 DEF Labelled
<1>5. \A p \in Coloured : Id(p)' = Id(p)
  BY <1>2, ColouredAreRead DEF Id
<1>6. RegionInv'
  BY <1>2, <1>5, RegionsStay DEF Advance
<1> QED
  BY <1>1, <1>4, <1>6

\* It is, and has labelled neighbours.
LEMMA ScanMerge ==
  ASSUME Counters, Labelled, RegionInv, pc = "scan", row < n,
         Advance, Looked # {}, NEW l, l = Min({nlabel} \cup Near), Written(l),
         table' = Merged(table, l), UNCHANGED <<nlabel, pc>>
  PROVE  Counters' /\ Labelled' /\ RegionInv'
<1> DEFINE N == nlabel - 1
<1>0. PICK x, B : x = Here /\ B = {Neighbour[k] : k \in Looked}
  OBVIOUS
<1>1. Counters' /\ row' * m' + col' = row * m + col + 1
  BY CountersAdvance DEF Counters
<1>2. \A k \in Looked : Neighbour[k] \in Coloured
  BY DEF Looked, Lit, Coloured
<1>3. \A p \in Coloured : label[p] \in 1 .. N
  <2> SUFFICES ASSUME NEW p \in Coloured PROVE label[p] \in 1 .. N
    OBVIOUS
  <2>1. label[p] \in 0 .. nlabel - 1 /\ label[p] # 0
    BY ColouredAreRead DEF Labelled, Coloured
  <2> QED
    BY <2>1
<1>4. Near \in SUBSET (1 .. N) /\ Near # {}
  BY <1>2, <1>3 DEF Near
<1>5. l \in Near
  <2>1. {nlabel} \cup Near \in SUBSET Nat
    BY <1>4 DEF Counters
  <2>2. l \in {nlabel} \cup Near /\ \A y \in {nlabel} \cup Near : l <= y
    BY <2>1, MinFacts
  <2>3. \E y \in Near : y < nlabel
    <3>1. PICK y \in Near : TRUE
      BY <1>4
    <3>2. y \in 1 .. N /\ nlabel \in Nat
      BY <1>4 DEF Counters
    <3> QED
      BY <3>2
  <2> QED
    BY <2>1, <2>2, <2>3
<1>6. Last = N /\ Last' = N /\ N \in Nat
  <2>1. nlabel # 1
    <3>1. PICK y \in Near : TRUE
      BY <1>4
    <3>2. y \in 1 .. N
      BY <1>4
    <3> QED
      BY <3>2
  <2> QED
    BY <2>1 DEF Last, Counters
<1>7. Forest(table, N)
  BY <1>6 DEF Labelled
<1>8. Forest(table', N) /\ Joined(table, table', Near, N)
  <2>1. l \in 1 .. N /\ \A k \in Looked : label[Neighbour[k]] \in 1 .. N
    BY <1>2, <1>3, <1>4, <1>5
  <2>2. Near \cup {l} = Near
    BY <1>5
  <2> HIDE DEF N
  <2>3. Forest(Merged(table, l), N) /\ Joined(table, Merged(table, l), Near \cup {l}, N)
    BY <1>7, <2>1, MergedJoins
  <2> QED
    BY <2>2, <2>3
<1>9. /\ DOMAIN label' = Read \cup {Here} /\ Here \notin Read
      /\ label'[Here] = l /\ \A p \in Read : label'[p] = label[p]
      /\ Coloured' = Coloured \cup {Here}
  <2>1. l # 0
    BY <1>4, <1>5
  <2> QED
    BY <2>1, WrittenFacts
<1>10. Read' = Read \cup {Here}
  BY ReadGrows
<1>11. Labelled'
  <2>1. Forest(table, Last)' /\ nlabel' <= row' * m' + col' + 1
    <3>1. row * m + col + 1 \in Nat
      BY ShapeFacts DEF Counters
    <3> QED
      BY <1>1, <1>6, <1>8, <3>1 DEF Labelled, Counters
  <2>2. \A p \in Read' : label'[p] \in 0 .. nlabel' - 1
    <3>1. l \in 0 .. nlabel - 1
      BY <1>4, <1>5
    <3> QED
      BY <1>9, <1>10, <3>1 DEF Labelled
  <2>3. \A k \in 1 .. nlabel' - 1 : \E p \in Read' : label'[p] = k
    BY <1>9, <1>10 DEF Labelled
  <2> QED
    BY <1>9, <1>10, <2>1, <2>2, <2>3 DEF Labelled
<1>12. \A y \in Coloured : Linked(x, y) <=> y \in B
  BY <1>0, LinkedIsLooked DEF Labelled
<1>13. \A p \in Coloured : (\E b \in B : Id(p) = Id(b)) <=> Among(table, label[p], Near)
  BY <1>0 DEF Id, Among, Near
<1>14. \A p \in Coloured : Id(p)' = Root(table', label[p]) /\ Id(p) = Root(table, label[p])
  <2>1. \A p \in Coloured : label'[p] = label[p]
    BY <1>9, ColouredAreRead
  <2>2. pc' = "scan"
    OBVIOUS
  <2> QED
    BY <2>1, <2>2 DEF Id
<1>15. Id(x)' = Root(table', l)
  <2>1. pc' = "scan"
    OBVIOUS
  <2> QED
    BY <1>0, <1>9, <2>1 DEF Id
<1>16. Among(table, l, Near)
  BY <1>5 DEF Among
<1>17. \A p, q \in Coloured :
         Id(p)' = Id(q)'
           <=> Id(p) = Id(q) \/ ((\E b \in B : Id(p) = Id(b)) /\ (\E b \in B : Id(q) = Id(b)))
  <2> HIDE DEF N
  <2>1. \A p \in Coloured : label[p] \in 0 .. N
    BY <1>3, <1>6
  <2> QED
    BY <1>8, <1>13, <1>14, <2>1 DEF Joined
<1>18. \A q \in Coloured : Id(x)' = Id(q)' <=> \E b \in B : Id(q) = Id(b)
  <2> HIDE DEF N
  <2>1. l \in 0 .. N /\ \A p \in Coloured : label[p] \in 0 .. N
    BY <1>3, <1>4, <1>5, <1>6
  <2>2. \A q \in Coloured : Root(table, l) = Root(table, label[q]) => Among(table, label[q], Near)
    BY <1>5 DEF Among
  <2> QED
    BY <1>8, <1>13, <1>14, <1>15, <1>16, <2>1, <2>2 DEF Joined
<1>19. RegionInv'
  <2>1. B \in SUBSET Coloured
    BY <1>0, <1>2
  <2>2. x \in Pixels /\ x \notin Coloured /\ Coloured' = Coloured \cup {x}
    BY <1>0, <1>9, HereIsNew, ColouredAreRead
  <2>3. shape' = shape
    BY DEF Advance
  <2> HIDE DEF N
  <2> QED
    BY <1>12, <1>17, <1>18, <2>1, <2>2, <2>3, RegionsJoin
<1> QED
  BY <1>1, <1>11, <1>19

\* It is, and has none: a new label.
LEMMA ScanNew ==
  ASSUME Counters, Labelled, RegionInv, pc = "scan", row < n,
         Advance, Looked = {}, Written(nlabel),
         nlabel' = nlabel + 1, table' = EnsureAllocated(table, nlabel), pc' = pc
  PROVE  Counters' /\ Labelled' /\ RegionInv'
<1>0. PICK x : x = Here
  OBVIOUS
<1>1. Counters' /\ row' * m' + col' = row * m + col + 1
  BY CountersAdvance DEF Counters
<1>2. \A p \in Coloured : label[p] \in 0 .. nlabel - 1 /\ label[p] \in 0 .. Last
  <2> SUFFICES ASSUME NEW p \in Coloured
               PROVE  label[p] \in 0 .. nlabel - 1 /\ label[p] \in 0 .. Last
    OBVIOUS
  <2>1. label[p] \in 0 .. nlabel - 1
    BY ColouredAreRead DEF Labelled, Coloured
  <2> QED
    BY <2>1 DEF Last, Counters
<1>3. Forest(table, Last) /\ (Last = nlabel - 1 \/ Last = nlabel)
      /\ (Last = nlabel => table[nlabel] = nlabel)
  <2>1. Forest(table, Last)
    BY DEF Labelled
  <2>2. Last = nlabel => nlabel = 1 /\ Last = 1
    BY DEF Last, Counters
  <2>3. Last = 1 => table[1] = 1
    <3>1. Last = 1 => table[1] <= 1 /\ table[1] >= 1 /\ table[1] \in Nat
      BY <2>1 DEF Forest
    <3> QED
      BY <3>1
  <2> QED
    BY <2>1, <2>2, <2>3 DEF Last, Counters
<1>4. /\ Forest(table', nlabel) /\ Root(table', nlabel) = nlabel
      /\ \A k \in 0 .. Last : Root(table', k) = Root(table, k)
  <2>1. nlabel \in Nat \ {0}
    BY DEF Counters
  <2> QED
    BY <1>3, <2>1, TableGrows
<1>5. Last' = nlabel
  BY DEF Last, Counters
<1>6. /\ DOMAIN label' = Read \cup {Here} /\ Here \notin Read
      /\ label'[Here] = nlabel /\ \A p \in Read : label'[p] = label[p]
      /\ Coloured' = Coloured \cup {Here}
  <2>1. nlabel # 0
    BY DEF Counters
  <2> QED
    BY <2>1, WrittenFacts
<1>7. Read' = Read \cup {Here}
  BY ReadGrows
<1>8. Labelled'
  <2>1. Forest(table, Last)' /\ nlabel' <= row' * m' + col' + 1
    <3>1. row * m + col + 1 \in Nat
      BY ShapeFacts DEF Counters
    <3> QED
      BY <1>1, <1>4, <1>5, <3>1 DEF Labelled, Counters
  <2>2. \A p \in Read' : label'[p] \in 0 .. nlabel' - 1
    BY <1>6, <1>7 DEF Labelled, Counters
  <2>3. \A k \in 1 .. nlabel' - 1 : \E p \in Read' : label'[p] = k
    <3> SUFFICES ASSUME NEW k \in 1 .. nlabel' - 1 PROVE \E p \in Read' : label'[p] = k
      OBVIOUS
    <3>1. k = nlabel \/ k \in 1 .. nlabel - 1
      BY DEF Counters
    <3> QED
      BY <1>6, <1>7, <3>1 DEF Labelled
  <2> QED
    BY <1>6, <1>7, <2>1, <2>2, <2>3 DEF Labelled
<1>9. \A y \in Coloured : Linked(x, y) <=> y \in {}
  BY <1>0, LinkedIsLooked DEF Labelled
<1>10. \A p \in Coloured : Id(p)' = Id(p)
  <2>1. \A p \in Coloured : label'[p] = label[p]
    BY <1>6, ColouredAreRead
  <2>2. pc' = "scan"
    OBVIOUS
  <2> QED
    BY <1>2, <1>4, <2>1, <2>2 DEF Id
<1>11. \A q \in Coloured : Id(x)' # Id(q)'
  <2>1. Id(x)' = nlabel
    <3>1. pc' = "scan"
      OBVIOUS
    <3> QED
      BY <1>0, <1>4, <1>6, <3>1 DEF Id
  <2>2. ASSUME NEW q \in Coloured PROVE Id(q) # nlabel
    <3>1. Root(table, label[q]) \in 0 .. label[q] /\ label[q] \in 0 .. nlabel - 1
      BY <1>2, <1>3, RootFacts
    <3>2. nlabel \in Nat
      BY DEF Counters
    <3> QED
      BY <3>1, <3>2 DEF Id
  <2> QED
    BY <1>10, <2>1, <2>2
<1>12. RegionInv'
  <2>1. x \in Pixels /\ x \notin Coloured /\ Coloured' = Coloured \cup {x}
    BY <1>0, <1>6, HereIsNew, ColouredAreRead
  <2>2. \A p, q \in Coloured :
          Id(p)' = Id(q)'
            <=> Id(p) = Id(q) \/ ((\E b \in {} : Id(p) = Id(b)) /\ (\E b \in {} : Id(q) = Id(b)))
    BY <1>10
  <2>3. \A q \in Coloured : Id(x)' = Id(q)' <=> \E b \in {} : Id(q) = Id(b)
    BY <1>11
  <2>4. shape' = shape
    BY DEF Advance
  <2> QED
    BY <1>9, <2>1, <2>2, <2>3, <2>4, RegionsJoin
<1> QED
  BY <1>1, <1>8, <1>12

LEMMA ScanStep ==
  ASSUME Counters, Labelled, RegionInv, NEW on \in BOOLEAN, Scan(on)
  PROVE  Counters' /\ Labelled' /\ RegionInv'
<1> DEFINE least == Min({nlabel} \cup {label[Neighbour[k]] : k \in Looked})
<1>1. pc = "scan" /\ row < n /\ Advance /\ pc' = pc
  BY DEF Scan, Advance
<1>2. CASE ~ on /\ Written(0) /\ UNCHANGED <<table, nlabel>>
  BY <1>1, <1>2, ScanOff
<1>3. CASE /\ on /\ Looked # {} /\ Written(least)
           /\ table' = Merged(table, least) /\ UNCHANGED nlabel
  <2>1. least = Min({nlabel} \cup Near)
    BY DEF Near
  <2> HIDE DEF least
  <2> QED
    BY <1>1, <1>3, <2>1, ScanMerge
<1>4. CASE /\ on /\ Looked = {} /\ Written(nlabel)
           /\ nlabel' = nlabel + 1 /\ table' = EnsureAllocated(table, nlabel)
  BY <1>1, <1>4, ScanNew
<1> QED
  BY <1>2, <1>3, <1>4 DEF Scan, Written, Here

-----------------------------------------------------------------------------
(* Flattening and numbering the table.                                     *)

\* A function that follows the links has at a label the value of its root.
LEMMA FollowsRoot ==
  ASSUME NEW N, NEW t, Forest(t, N), NEW g, NEW f,
         \A x \in 0 .. N : f[x] = IF t[x] = x THEN g[x] ELSE f[t[x]]
  PROVE  \A x \in 0 .. N : f[x] = g[Root(t, x)]
<1> DEFINE Good(x) == f[x] = g[Root(t, x)]
           T == {x \in 0 .. N : ~ Good(x)}
<1>1. N \in Nat
  BY DEF Forest
<1>2. T = {}
  <2>1. SUFFICES ASSUME T # {} PROVE FALSE
    OBVIOUS
  <2>2. PICK x \in T : \A y \in T : x <= y
    <3>1. T \in SUBSET Nat
      BY <1>1
    <3> HIDE DEF T
    <3> QED
      BY <2>1, <3>1, LeastNumber
  <2>3. x \in 0 .. N /\ ~ Good(x)
    BY <2>2
  <2>4. Root(t, x) = IF t[x] = x THEN x ELSE Root(t, t[x])
    BY <2>3, RootUnfolds
  <2>5. f[x] = IF t[x] = x THEN g[x] ELSE f[t[x]]
    BY <2>3
  <2>6. t[x] # x
    BY <2>3, <2>4, <2>5
  <2>7. t[x] \in 0 .. N /\ ~ (x <= t[x])
    BY <1>1, <2>3, <2>6 DEF Forest
  <2>8. Good(t[x])
    <3>1. t[x] \notin T
      <4> HIDE DEF T
      <4> QED
        BY <2>2, <2>7
    <3> QED
      BY <2>7, <3>1
  <2> QED
    BY <2>3, <2>4, <2>5, <2>6, <2>8
<1> QED
  BY <1>2

\* traverseLinks makes every label point at its root, however deep its tree.
LEMMA TraverseFacts ==
  ASSUME NEW N, NEW t, Forest(t, N)
  PROVE  TraverseLinks(t) = [x \in 0 .. N |-> Root(t, x)]
<1> DEFINE Rec(f) == f = [i \in DOMAIN t |-> IF t[i] < i THEN f[t[i]] ELSE t[t[i]]]
           new == CHOOSE f : Rec(f)
           g == [x \in 0 .. N |-> x]
<1>1. N \in Nat /\ DOMAIN t = 0 .. N
  BY DEF Forest
<1>2. \A i \in 0 .. N : (t[i] < i <=> t[i] # i) /\ (t[i] = i => t[t[i]] = i)
  BY <1>1 DEF Forest
<1>3. \E f : Rec(f)
  <2>1. PICK f : f = [x \in DOMAIN t |-> IF t[x] = x THEN g[x] ELSE f[t[x]]]
    <3> HIDE DEF g, Rec, new
    <3> QED
      BY FollowsExists
  <2>2. \A x \in 0 .. N : f[x] = IF t[x] < x THEN f[t[x]] ELSE t[t[x]]
    BY <1>1, <1>2, <2>1
  <2>3. f = [x \in 0 .. N |-> f[x]]
    BY <1>1, <2>1
  <2>4. Rec(f)
    BY <1>1, <2>2, <2>3
  <2> QED
    BY <2>4
<1>4. Rec(new)
  <2> HIDE DEF Rec
  <2> QED
    BY <1>3
<1>5. TraverseLinks(t) = new
  BY DEF TraverseLinks
<1> HIDE DEF new
<1>6. \A x \in 0 .. N : new[x] = IF t[x] = x THEN g[x] ELSE new[t[x]]
  BY <1>1, <1>2, <1>4
<1>7. \A x \in 0 .. N : new[x] = g[Root(t, x)]
  <2> HIDE DEF g, Rec
  <2> QED
    BY <1>6, FollowsRoot
<1>8. \A x \in 0 .. N : g[Root(t, x)] = Root(t, x)
  BY RootFacts
<1>9. new = [x \in 0 .. N |-> new[x]]
  BY <1>1, <1>4
<1> QED
  BY <1>5, <1>7, <1>8, <1>9

\* The number of a root: how many roots there are below it.
Rank(t, r) == Cardinality({s \in DOMAIN t : s < r /\ t[s] = s})

LEMMA RemoveGapsFacts ==
  ASSUME NEW N, NEW t, Forest(t, N)
  PROVE  /\ DOMAIN RemoveGaps(t) = 0 .. N
         /\ \A x \in 0 .. N : RemoveGaps(t)[x] = Rank(t, Root(t, x))
<1> DEFINE Rec(f) == f = [i \in DOMAIN t |->
                            IF t[i] = i THEN Cardinality({r \in DOMAIN t : r < i /\ t[r] = r})
                            ELSE IF t[i] < i THEN f[t[i]] ELSE t[t[i]]]
           new == CHOOSE f : Rec(f)
           g == [x \in 0 .. N |-> Rank(t, x)]
<1>1. N \in Nat /\ DOMAIN t = 0 .. N
  BY DEF Forest
<1>2. \A i \in 0 .. N : t[i] < i <=> t[i] # i
  BY <1>1 DEF Forest
<1>3. \A f, i : Cardinality({r \in DOMAIN t : r < i /\ t[r] = r}) = Rank(t, i)
  BY DEF Rank
<1>4. \E f : Rec(f)
  <2>1. PICK f : f = [x \in DOMAIN t |-> IF t[x] = x THEN g[x] ELSE f[t[x]]]
    <3> HIDE DEF g, Rec, new
    <3> QED
      BY FollowsExists
  <2>2. \A x \in 0 .. N : f[x] = IF t[x] = x THEN Rank(t, x)
                                 ELSE IF t[x] < x THEN f[t[x]] ELSE t[t[x]]
    BY <1>1, <1>2, <2>1
  <2>3. f = [x \in 0 .. N |-> f[x]]
    BY <1>1, <2>1
  <2>4. f = [i \in DOMAIN t |-> IF t[i] = i THEN Rank(t, i)
                                ELSE IF t[i] < i THEN f[t[i]] ELSE t[t[i]]]
    BY <1>1, <2>2, <2>3
  <2>5. Rec(f)
    BY <2>4 DEF Rank
  <2> QED
    BY <2>5
<1>5. Rec(new)
  <2> HIDE DEF Rec
  <2> QED
    BY <1>4
<1>6. RemoveGaps(t) = new
  BY DEF RemoveGaps
<1> HIDE DEF new
<1>7. new = [i \in DOMAIN t |-> IF t[i] = i THEN Rank(t, i)
                                ELSE IF t[i] < i THEN new[t[i]] ELSE t[t[i]]]
  BY <1>5 DEF Rank
<1> HIDE DEF Rec
<1>8. \A x \in 0 .. N : new[x] = IF t[x] = x THEN g[x] ELSE new[t[x]]
  BY <1>1, <1>2, <1>7
<1>9. \A x \in 0 .. N : new[x] = g[Root(t, x)]
  <2> HIDE DEF g
  <2> QED
    BY <1>8, FollowsRoot
<1>10. \A x \in 0 .. N : g[Root(t, x)] = Rank(t, Root(t, x))
  BY RootFacts
<1>11. DOMAIN new = 0 .. N
  BY <1>1, <1>7
<1> QED
  BY <1>6, <1>9, <1>10, <1>11

LEMMA CleanTable ==
  ASSUME NEW N, NEW t, Forest(t, N)
  PROVE  LET v == RemoveGaps(TraverseLinks(t))
         IN  /\ DOMAIN v = 0 .. N
             /\ \A x \in 0 .. N : v[x] = Rank(t, Root(t, x))
<1> DEFINE u == TraverseLinks(t)
<1>1. N \in Nat /\ DOMAIN t = 0 .. N
  BY DEF Forest
<1>2. u = [x \in 0 .. N |-> Root(t, x)]
  BY TraverseFacts
<1> HIDE DEF u
<1>3. \A x \in 0 .. N : /\ Root(t, x) \in 0 .. N /\ Root(t, x) <= x
                        /\ t[Root(t, x)] = Root(t, x)
                        /\ x >= 1 => Root(t, x) >= 1
  BY <1>1, RootFacts
<1>4. \A x \in 0 .. N : Root(t, x) = x <=> t[x] = x
  BY <1>3, RootUnfolds
<1>5. Forest(u, N)
  BY <1>1, <1>2, <1>3 DEF Forest
<1>6. \A x \in 0 .. N : Root(u, x) = Root(t, x)
  <2> SUFFICES ASSUME NEW x \in 0 .. N PROVE Root(u, x) = Root(t, x)
    OBVIOUS
  <2>1. Root(u, x) = IF u[x] = x THEN x ELSE Root(u, u[x])
    BY <1>5, RootUnfolds
  <2>2. u[x] \in 0 .. N /\ u[u[x]] = u[x]
    BY <1>2, <1>3, <1>4
  <2>3. Root(u, u[x]) = u[x]
    BY <1>5, <2>2, RootUnfolds
  <2> QED
    BY <1>2, <2>1, <2>3
<1>7. \A r : Rank(u, r) = Rank(t, r)
  <2>1. \A r : {s \in DOMAIN u : s < r /\ u[s] = s} = {s \in DOMAIN t : s < r /\ t[s] = s}
    BY <1>1, <1>2, <1>4
  <2> QED
    BY <2>1 DEF Rank
<1>8. DOMAIN RemoveGaps(u) = 0 .. N /\ \A x \in 0 .. N : RemoveGaps(u)[x] = Rank(u, Root(u, x))
  BY <1>5, RemoveGapsFacts
<1> QED
  BY <1>6, <1>7, <1>8 DEF u

-----------------------------------------------------------------------------
(* The numbers of the roots are the numbers from 0 without a gap.          *)

Roots(t) == {i \in DOMAIN t : t[i] = i}

LEMMA RankFacts ==
  ASSUME NEW N, NEW t, Forest(t, N)
  PROVE  /\ IsFiniteSet(Roots(t)) /\ Cardinality(Roots(t)) \in 1 .. N + 1
         /\ \A r \in Roots(t) : /\ Rank(t, r) \in 0 .. Cardinality(Roots(t)) - 1
                                /\ Rank(t, r) <= r
         /\ \A r, s \in Roots(t) : r < s => Rank(t, r) < Rank(t, s)
         /\ 0 \in Roots(t) /\ Rank(t, 0) = 0
<1> DEFINE R == Roots(t)
           Below(r) == {s \in R : s < r}
<1>1. N \in Nat /\ DOMAIN t = 0 .. N
  BY DEF Forest
<1>2. 0 \in R
  <2>1. 0 \in 0 .. N
    BY <1>1
  <2>2. t[0] <= 0 /\ t[0] \in 0 .. N
    BY <2>1 DEF Forest
  <2> QED
    BY <1>1, <2>1, <2>2 DEF Roots
<1>3. R \in SUBSET (0 .. N) /\ IsFiniteSet(0 .. N) /\ Cardinality(0 .. N) = N + 1
  BY <1>1, FS_Interval DEF Roots
<1>4. IsFiniteSet(R) /\ Cardinality(R) <= N + 1 /\ Cardinality(R) \in Nat
  <2> HIDE DEF R
  <2> QED
    BY <1>3, FS_Subset, FS_CardinalityType
<1>5. \A r : Rank(t, r) = Cardinality(Below(r))
  <2>1. \A r : Below(r) = {s \in DOMAIN t : s < r /\ t[s] = s}
    BY DEF Roots
  <2> HIDE DEF Below
  <2> QED
    BY <2>1 DEF Rank
<1>6. \A r : IsFiniteSet(Below(r)) /\ Cardinality(Below(r)) \in Nat
  <2>1. \A r : Below(r) \in SUBSET R
    OBVIOUS
  <2> HIDE DEF R, Below
  <2> QED
    BY <1>4, <2>1, FS_Subset, FS_CardinalityType
<1>7. \A r \in R : Cardinality(Below(r) \cup {r}) = Cardinality(Below(r)) + 1
  <2>1. \A r \in R : r \notin Below(r)
    BY <1>1, <1>3
  <2> HIDE DEF R, Below
  <2> QED
    BY <1>6, <2>1, FS_AddElement
<1>8. ASSUME NEW r \in R, NEW s \in R, r < s PROVE Rank(t, r) < Rank(t, s)
  <2>1. Below(r) \cup {r} \in SUBSET Below(s)
    BY <1>1, <1>3, <1>8
  <2>2. Cardinality(Below(r) \cup {r}) <= Cardinality(Below(s))
    <3> HIDE DEF R, Below
    <3> QED
      BY <1>6, <2>1, FS_Subset
  <2> HIDE DEF R, Below
  <2> QED
    BY <1>5, <1>6, <1>7, <2>2
<1>9. ASSUME NEW r \in R PROVE Rank(t, r) \in 0 .. Cardinality(R) - 1
  <2>1. Below(r) \cup {r} \in SUBSET R
    OBVIOUS
  <2>2. Cardinality(Below(r) \cup {r}) <= Cardinality(R)
    <3> HIDE DEF R, Below
    <3> QED
      BY <1>4, <2>1, FS_Subset
  <2> HIDE DEF R, Below
  <2> QED
    BY <1>4, <1>5, <1>6, <1>7, <2>2
<1>10. ASSUME NEW r \in R PROVE Rank(t, r) <= r
  <2>1. r \in Nat /\ Below(r) \in SUBSET (0 .. r - 1)
    BY <1>1, <1>3
  <2>2. IsFiniteSet(0 .. r - 1) /\ Cardinality(0 .. r - 1) = r
    <3>1. 0 \in Int /\ r - 1 \in Int
      BY <2>1
    <3>2. /\ IsFiniteSet(0 .. r - 1)
          /\ Cardinality(0 .. r - 1) = IF 0 > r - 1 THEN 0 ELSE (r - 1) - 0 + 1
      BY <3>1, FS_Interval
    <3> QED
      BY <2>1, <3>2
  <2>3. Cardinality(Below(r)) <= Cardinality(0 .. r - 1)
    <3> HIDE DEF R, Below
    <3> QED
      BY <2>1, <2>2, FS_Subset
  <2> HIDE DEF R, Below
  <2> QED
    BY <1>5, <2>2, <2>3
<1>11. Rank(t, 0) = 0
  <2>1. Rank(t, 0) \in Nat /\ Rank(t, 0) <= 0
    <3> HIDE DEF R, Below
    <3> QED
      BY <1>2, <1>5, <1>6, <1>10
  <2> QED
    BY <2>1
<1>12. Cardinality(R) \in 1 .. N + 1
  <2>1. Cardinality(R) # 0
    <3> HIDE DEF R
    <3> QED
      BY <1>2, <1>4, FS_EmptySet
  <2> HIDE DEF R
  <2> QED
    BY <1>1, <1>4, <2>1
<1> QED
  BY <1>2, <1>4, <1>8, <1>9, <1>10, <1>11, <1>12

\* Every number is a root's.
LEMMA RankOnto ==
  ASSUME NEW N, NEW t, Forest(t, N), NEW k \in 0 .. Cardinality(Roots(t)) - 1
  PROVE  \E r \in Roots(t) : Rank(t, r) = k
<1> DEFINE R == Roots(t)
           K == Cardinality(R)
           f == [r \in R |-> Rank(t, r)]
<1>1. /\ IsFiniteSet(R) /\ K \in Nat /\ K # 0
      /\ \A r \in R : Rank(t, r) \in 0 .. K - 1
      /\ \A r, s \in R : r < s => Rank(t, r) < Rank(t, s)
  <2>1. N \in Nat
    BY DEF Forest
  <2> QED
    BY <2>1, RankFacts
<1>2. R \in SUBSET Nat
  BY DEF Forest, Roots
<1>3. f \in Injection(R, 0 .. K - 1)
  <2>1. f \in [R -> 0 .. K - 1]
    BY <1>1
  <2>2. ASSUME NEW r \in R, NEW s \in R, f[r] = f[s] PROVE r = s
    <3>1. Rank(t, r) = Rank(t, s) /\ Rank(t, r) \in 0 .. K - 1 /\ r \in Nat /\ s \in Nat
      BY <1>1, <1>2, <2>2
    <3>2. ~ (r < s) /\ ~ (s < r)
      <4> HIDE DEF K, R, f
      <4> QED
        BY <1>1, <3>1
    <3> QED
      BY <3>1, <3>2
  <2>3. DOMAIN f = R
    OBVIOUS
  <2> HIDE DEF f, R, K
  <2> QED
    BY <2>1, <2>2, <2>3 DEF Injection, IsInjective
<1>4. IsFiniteSet(0 .. K - 1) /\ Cardinality(0 .. K - 1) = K
  <2> HIDE DEF K
  <2>1. 0 \in Int /\ K - 1 \in Int
    BY <1>1
  <2>2. /\ IsFiniteSet(0 .. K - 1)
        /\ Cardinality(0 .. K - 1) = IF 0 > K - 1 THEN 0 ELSE (K - 1) - 0 + 1
    BY <2>1, FS_Interval
  <2> QED
    BY <1>1, <2>2
<1>5. f \in Surjection(R, 0 .. K - 1)
  <2>1. Cardinality(R) = Cardinality(0 .. K - 1)
    BY <1>4
  <2> HIDE DEF f, R, K
  <2> QED
    BY <1>3, <1>4, <2>1, FS_Injection
<1> QED
  BY <1>5 DEF Surjection

-----------------------------------------------------------------------------
(* The image has been scanned.                                             *)

\* The numbers are those from 1 to nlabel, each of some region; 0 is the
\* background.  The links still lead down.
Numbered ==
  pc # "scan" =>
    /\ row = n /\ nlabel \in 1 .. m * n
    /\ \E N \in 1 .. m * n : DOMAIN table = 0 .. N
    /\ \A i \in DOMAIN table : table[i] \in 0 .. i
    /\ \A p \in Pixels : /\ label[p] \in DOMAIN table
                         /\ table[label[p]] \in 0 .. nlabel
                         /\ table[label[p]] = 0 <=> label[p] = 0
    /\ Coloured = {} => nlabel = 1
    /\ Coloured # {} => \A k \in 1 .. nlabel : \E p \in Coloured : table[label[p]] = k

\* What is returned is what was measured.
Of(l) == Measure({p \in Pixels : table[label[p]] = l})

Measures(order) == [r \in 1 .. nlabel |-> Of(order[r])]

Returned ==
  IF pc # "done" THEN regions = <<>>
  ELSE \E order \in Bijection(1 .. nlabel, 1 .. nlabel) :
         LET props == Measures(order)
         IN  Largest(props) /\ regions = IF props[1].area > 0 THEN props ELSE <<>>

LEMMA AllRead ==
  ASSUME Counters, row = n
  PROVE  Read = Pixels
<1>1. ASSUME NEW p \in Pixels PROVE p[2] < row
  BY PixelFacts, ShapeFacts DEF Counters
<1> QED
  BY <1>1 DEF Read

LEMMA CleanUpStep ==
  ASSUME Counters, Labelled, RegionInv, Returned, CleanUp
  PROVE  Counters' /\ Labelled' /\ RegionInv' /\ Numbered' /\ Returned'
<1> DEFINE Kept == UNCHANGED <<shape, col, row, label, regions>>
           v == RemoveGaps(TraverseLinks(table))
           R == Roots(table)
           N == Last
<1>1. /\ pc = "scan" /\ row = n /\ pc' = "measure"
      /\ table' = v /\ nlabel' = Cardinality(R) - 1
      /\ UNCHANGED <<shape, col, row, label, regions>>
  BY DEF CleanUp, Roots
<1>2. Forest(table, N) /\ N \in Nat \ {0} /\ DOMAIN table = 0 .. N
  BY <1>1 DEF Labelled, Forest, Last, Counters
<1>3. m \in Nat \ {0} /\ n \in Nat \ {0} /\ m * n \in Nat /\ n * m = m * n /\ m * n >= 1
  <2>1. m \in Nat \ {0} /\ n \in Nat \ {0}
    BY ShapeFacts DEF Counters
  <2> QED
    BY <2>1
<1>4. N \in 1 .. m * n
  <2>1. nlabel <= row * m + col + 1 /\ col = 0 /\ nlabel \in Nat \ {0}
    BY <1>1 DEF Labelled, Counters
  <2>2. nlabel <= m * n + 1
    BY <1>1, <1>3, <2>1
  <2>3. N = IF nlabel = 1 THEN 1 ELSE nlabel - 1
    BY DEF Last
  <2> HIDE DEF N
  <2> QED
    BY <1>2, <1>3, <2>1, <2>2, <2>3
<1>5. DOMAIN v = 0 .. N /\ \A x \in 0 .. N : v[x] = Rank(table, Root(table, x))
  <2> HIDE DEF N
  <2> QED
    BY <1>2, CleanTable
<1>6. \A x \in 0 .. N : /\ Root(table, x) \in R /\ Root(table, x) \in 0 .. x
                        /\ x >= 1 => Root(table, x) >= 1
  <2> HIDE DEF N
  <2>1. \A x \in 0 .. N : /\ Root(table, x) \in 0 .. x /\ Root(table, x) \in 0 .. N
                          /\ table[Root(table, x)] = Root(table, x)
                          /\ x >= 1 => Root(table, x) >= 1
    BY <1>2, RootFacts
  <2> QED
    BY <1>2, <2>1 DEF Roots
<1>7. /\ Cardinality(R) \in 1 .. N + 1
      /\ \A r \in R : Rank(table, r) \in 0 .. Cardinality(R) - 1 /\ Rank(table, r) <= r
      /\ \A r, s \in R : r < s => Rank(table, r) < Rank(table, s)
      /\ 0 \in R /\ Rank(table, 0) = 0
  <2> HIDE DEF N
  <2> QED
    BY <1>2, RankFacts
<1>8. R \in SUBSET Nat
  BY <1>2 DEF Roots
<1>9. \A r, s \in R : Rank(table, r) = Rank(table, s) => r = s
  <2> SUFFICES ASSUME NEW r \in R, NEW s \in R, Rank(table, r) = Rank(table, s) PROVE r = s
    OBVIOUS
  <2>1. r \in Nat /\ s \in Nat /\ Rank(table, r) \in 0 .. Cardinality(R) - 1
    BY <1>7, <1>8
  <2>2. ~ (r < s) /\ ~ (s < r)
    <3> HIDE DEF R
    <3> QED
      BY <1>7, <2>1
  <2> QED
    BY <2>1, <2>2
<1>10. 1 \in R
  <2>1. 1 \in 0 .. N
    BY <1>2
  <2>2. table[1] \in 0 .. N /\ table[1] <= 1 /\ (1 >= 1 => table[1] >= 1)
    BY <1>2, <2>1 DEF Forest
  <2> QED
    BY <1>2, <2>1, <2>2 DEF Roots
<1>11. nlabel' \in 1 .. N
  <2>1. Rank(table, 0) < Rank(table, 1) /\ Rank(table, 1) \in 0 .. Cardinality(R) - 1
    <3> HIDE DEF R, N
    <3> QED
      BY <1>7, <1>10
  <2> HIDE DEF R, N
  <2> QED
    BY <1>1, <1>2, <1>7, <2>1
<1>12. m' = m /\ n' = n /\ Pixels' = Pixels /\ Read' = Read /\ Coloured' = Coloured /\ label' = label
  BY <1>1 DEF m, n, Pixels, Read, Coloured
<1>13. Read = Pixels
  BY <1>1, AllRead
<1>14. \A p \in Pixels : label[p] \in 0 .. nlabel - 1 /\ label[p] \in 0 .. N
  <2> SUFFICES ASSUME NEW p \in Pixels PROVE label[p] \in 0 .. nlabel - 1 /\ label[p] \in 0 .. N
    OBVIOUS
  <2>1. label[p] \in 0 .. nlabel - 1
    BY <1>1, <1>13 DEF Labelled
  <2> QED
    BY <2>1 DEF Last, Counters
<1>15. Counters'
  <2>1. nlabel' \in Nat \ {0}
    <3> HIDE DEF N
    <3> QED
      BY <1>2, <1>11
  <2> QED
    BY <1>1, <1>12, <2>1 DEF Counters
<1>16. Labelled'
  BY <1>1, <1>12 DEF Labelled
<1>17. RegionInv'
  <2>1. \A p \in Coloured : Id(p)' = Rank(table, Root(table, label[p]))
                            /\ Id(p) = Root(table, label[p]) /\ Root(table, label[p]) \in R
    <3> HIDE DEF N, v, R
    <3>1. Coloured \in SUBSET Pixels
      BY ColouredAreRead
    <3> QED
      BY <1>1, <1>5, <1>6, <1>14, <3>1 DEF Id
  <2>2. \A p, q \in Coloured : Id(p)' = Id(q)' <=> Id(p) = Id(q)
    <3> HIDE DEF N, v, R
    <3> QED
      BY <1>9, <2>1
  <2> QED
    BY <1>1, <1>12, <2>2, RegionsStay
<1>18. Numbered'
  <2> HIDE DEF v, R, N
  <2>1. row' = n' /\ nlabel' \in 1 .. m' * n' /\ \E M \in 1 .. m' * n' : DOMAIN table' = 0 .. M
    BY <1>1, <1>3, <1>4, <1>5, <1>11, <1>12
  <2>2. ASSUME NEW i \in 0 .. N PROVE table'[i] \in 0 .. i
    <3>1. /\ table'[i] = Rank(table, Root(table, i))
          /\ Root(table, i) \in R /\ Root(table, i) \in 0 .. i
      BY <1>1, <1>5, <1>6
    <3>2. Rank(table, Root(table, i)) \in 0 .. Cardinality(R) - 1
          /\ Rank(table, Root(table, i)) <= Root(table, i)
      BY <1>7, <3>1
    <3> QED
      BY <1>2, <3>1, <3>2
  <2>3. ASSUME NEW p \in Pixels
        PROVE  /\ label[p] \in 0 .. N /\ table'[label[p]] \in 0 .. nlabel'
               /\ table'[label[p]] = 0 <=> label[p] = 0
    <3> DEFINE r == Root(table, label[p])
    <3>1. label[p] \in 0 .. N
      BY <1>14
    <3>2. table'[label[p]] = Rank(table, r) /\ r \in R
          /\ r \in 0 .. label[p] /\ (label[p] >= 1 => r >= 1)
      BY <1>1, <1>5, <1>6, <3>1
    <3>3. r = 0 <=> label[p] = 0
      BY <1>2, <3>1, <3>2
    <3>4. Rank(table, r) = 0 <=> r = 0
      BY <1>7, <1>9, <3>2
    <3>5. Rank(table, r) \in 0 .. nlabel'
      BY <1>1, <1>7, <3>2
    <3> QED
      BY <3>1, <3>2, <3>3, <3>4, <3>5
  <2>4. nlabel = 1 \/ \A x \in 1 .. N : \E p \in Coloured : label[p] = x
    <3>1. CASE nlabel # 1
      <4>1. N = nlabel - 1
        BY <3>1 DEF N, Last
      <4>2. ASSUME NEW x \in 1 .. N PROVE \E p \in Coloured : label[p] = x
        <5>1. PICK p \in Read : label[p] = x
          BY <1>1, <4>1 DEF Labelled
        <5>2. p \in DOMAIN label /\ label[p] # 0
          BY <5>1 DEF Labelled
        <5> QED
          BY <5>1, <5>2 DEF Coloured
      <4> QED
        BY <4>2
    <3> QED
      BY <3>1
  <2>5. nlabel = 1 => Coloured = {} /\ nlabel' = 1
    <3> SUFFICES ASSUME nlabel = 1 PROVE Coloured = {} /\ nlabel' = 1
      OBVIOUS
    <3>1. N = 1
      BY DEF N, Last
    <3>2. nlabel' = 1
      BY <1>11, <3>1
    <3>3. \A p \in Pixels : label[p] = 0
      BY <1>14
    <3> QED
      BY <3>2, <3>3, ColouredAreRead DEF Coloured
  <2>6. nlabel # 1 => Coloured # {}
    <3>1. 1 \in 1 .. N
      BY <1>2
    <3> QED
      BY <2>4, <3>1
  <2>7. ASSUME Coloured # {}, NEW k \in 1 .. nlabel'
        PROVE  \E p \in Coloured : table'[label[p]] = k
    <3>1. \A x \in 1 .. N : \E p \in Coloured : label[p] = x
      BY <2>4, <2>5, <2>7
    <3>2. PICK r \in R : Rank(table, r) = k
      <4>1. k \in 0 .. Cardinality(R) - 1
        BY <1>1, <1>2, <1>11
      <4> QED
        BY <1>2, <4>1, RankOnto DEF R
    <3>3. r \in 1 .. N /\ Root(table, r) = r
      <4>1. r \in 0 .. N /\ table[r] = r
        BY <1>2 DEF R, Roots
      <4>2. r # 0
        BY <1>7, <3>2
      <4>3. Root(table, r) = r
        BY <1>2, <4>1, RootUnfolds
      <4> QED
        BY <1>2, <4>1, <4>2, <4>3
    <3>4. PICK p \in Coloured : label[p] = r
      BY <3>1, <3>3
    <3>5. r \in 0 .. N
      BY <1>2, <3>3
    <3> QED
      BY <1>1, <1>5, <3>2, <3>3, <3>4, <3>5
  <2> QED
    BY <1>1, <1>5, <1>12, <2>1, <2>2, <2>3, <2>5, <2>6, <2>7 DEF Numbered
<1>19. Returned'
  BY <1>1 DEF Returned
<1> QED
  BY <1>15, <1>16, <1>17, <1>18, <1>19

-----------------------------------------------------------------------------
(* The inductive invariant.                                                *)

Machinery == Counters /\ Labelled /\ RegionInv /\ Numbered /\ Returned

LEMMA InitMachinery == Init => Machinery
<1> SUFFICES ASSUME Init PROVE Machinery
  OBVIOUS
<1>1. /\ shape \in Shapes /\ col = 0 /\ row = 0 /\ label = <<>>
      /\ table = [i \in 0 .. 1 |-> i] /\ nlabel = 1 /\ pc = "scan" /\ regions = <<>>
  BY DEF Init
<1>2. m \in Nat \ {0} /\ n \in Nat \ {0}
  BY <1>1, ShapeFacts
<1>3. Counters
  BY <1>1, <1>2 DEF Counters
<1>4. DOMAIN label = {} /\ Read = {}
  <2>1. \A p \in Pixels : p[1] \in Nat /\ p[2] \in Nat
    BY <1>1, PixelFacts
  <2> QED
    BY <1>1, <2>1 DEF Read
<1>5. Labelled
  <2>1. Forest(table, 1)
    BY <1>1 DEF Forest
  <2>2. nlabel <= row * m + col + 1
    <3>1. 0 * m = 0
      BY <1>2
    <3> QED
      BY <1>1, <3>1
  <2> QED
    BY <1>1, <1>4, <2>1, <2>2 DEF Labelled, Last
<1>6. RegionInv
  BY <1>4 DEF RegionInv, Together, Apart, Coloured
<1> QED
  BY <1>1, <1>3, <1>5, <1>6 DEF Machinery, Numbered, Returned

LEMMA ReturnStep == Machinery /\ Return => Machinery'
<1> SUFFICES ASSUME Machinery, Return PROVE Machinery'
  OBVIOUS
<1>1. /\ pc = "measure" /\ pc' = "done"
      /\ UNCHANGED <<shape, col, row, label, table, nlabel>>
  BY DEF Return
<1>2. m' = m /\ n' = n /\ Pixels' = Pixels /\ Read' = Read /\ Coloured' = Coloured
  BY <1>1 DEF m, n, Pixels, Read, Coloured
<1>3. Counters' /\ Labelled' /\ Numbered'
  BY <1>1, <1>2 DEF Machinery, Counters, Labelled, Numbered
<1>4. RegionInv'
  <2>1. \A p, q \in Coloured : Id(p)' = Id(q)' <=> Id(p) = Id(q)
    BY <1>1 DEF Id
  <2> QED
    BY <1>1, <1>2, <2>1, RegionsStay DEF Machinery
<1>5. Returned'
  <2>1. \A l : Of(l)' = Of(l)
    BY <1>1, <1>2 DEF Of
  <2>2. \A order : Measures(order)' = [r \in 1 .. nlabel |-> Of(order[r])]
    BY <1>1, <2>1 DEF Measures
  <2>3. PICK order \in Bijection(1 .. nlabel, 1 .. nlabel) :
          LET props == [r \in 1 .. nlabel |-> Of(order[r])]
          IN  Largest(props) /\ regions' = IF props[1].area > 0 THEN props ELSE <<>>
    BY DEF Return, Of
  <2> QED
    BY <1>1, <2>2, <2>3 DEF Returned
<1> QED
  BY <1>3, <1>4, <1>5 DEF Machinery

LEMMA StepMachinery == Machinery /\ [Next]_vars => Machinery'
<1> SUFFICES ASSUME Machinery, [Next]_vars PROVE Machinery'
  OBVIOUS
<1>1. ASSUME NEW on \in BOOLEAN, Scan(on) PROVE Machinery'
  <2>1. pc = "scan" /\ pc' = "scan" /\ regions' = regions
    BY <1>1 DEF Scan
  <2>2. Counters' /\ Labelled' /\ RegionInv'
    BY <1>1, ScanStep DEF Machinery
  <2>3. Numbered' /\ Returned'
    BY <2>1 DEF Numbered, Returned, Machinery
  <2> QED
    BY <2>2, <2>3 DEF Machinery
<1>2. CASE CleanUp
  BY <1>2, CleanUpStep DEF Machinery
<1>3. CASE Return
  BY <1>3, ReturnStep
<1>4. CASE UNCHANGED vars
  <2>1. UNCHANGED <<shape, col, row, label, table, nlabel, pc, regions>>
    BY <1>4 DEF vars
  <2>2. m' = m /\ n' = n /\ Pixels' = Pixels /\ Read' = Read /\ Coloured' = Coloured
    BY <2>1 DEF m, n, Pixels, Read, Coloured
  <2>3. Counters' /\ Labelled' /\ Numbered'
    BY <2>1, <2>2 DEF Machinery, Counters, Labelled, Numbered, Last
  <2>4. RegionInv'
    <3>1. \A p, q \in Coloured : Id(p)' = Id(q)' <=> Id(p) = Id(q)
      BY <2>1 DEF Id
    <3> QED
      BY <2>1, <2>2, <3>1, RegionsStay DEF Machinery
  <2>5. Returned'
    <3>1. \A l : Of(l)' = Of(l)
      BY <2>1, <2>2 DEF Of
    <3>2. \A order : Measures(order)' = Measures(order)
      BY <2>1, <3>1 DEF Measures
    <3> QED
      BY <2>1, <3>2 DEF Machinery, Returned
  <2> QED
    BY <2>3, <2>4, <2>5 DEF Machinery
<1> QED
  BY <1>1, <1>2, <1>3, <1>4 DEF Next

-----------------------------------------------------------------------------
(* What the invariant says of components.                                  *)

LEMMA ColouredIsFinite ==
  ASSUME Machinery
  PROVE  /\ Coloured \in SUBSET Pixels /\ IsFiniteSet(Pixels) /\ IsFiniteSet(Coloured)
         /\ Cardinality(Pixels) = m * n
<1>1. m \in Nat \ {0} /\ n \in Nat \ {0}
  BY ShapeFacts DEF Machinery, Counters
<1>2. \A k \in Nat \ {0} : IsFiniteSet(0 .. k - 1) /\ Cardinality(0 .. k - 1) = k
  <2> SUFFICES ASSUME NEW k \in Nat \ {0}
               PROVE  IsFiniteSet(0 .. k - 1) /\ Cardinality(0 .. k - 1) = k
    OBVIOUS
  <2>1. 0 \in Int /\ k - 1 \in Int
    OBVIOUS
  <2>2. /\ IsFiniteSet(0 .. k - 1)
        /\ Cardinality(0 .. k - 1) = IF 0 > k - 1 THEN 0 ELSE (k - 1) - 0 + 1
    BY <2>1, FS_Interval
  <2> QED
    BY <2>2
<1>3. IsFiniteSet(Pixels) /\ Cardinality(Pixels) = m * n
  <2> DEFINE A == 0 .. m - 1
             B == 0 .. n - 1
  <2>1. IsFiniteSet(A) /\ Cardinality(A) = m /\ IsFiniteSet(B) /\ Cardinality(B) = n
    BY <1>1, <1>2
  <2>2. Pixels = A \X B
    BY DEF Pixels
  <2> HIDE DEF A, B
  <2> QED
    BY <2>1, <2>2, FS_Product
<1>4. Coloured \in SUBSET Pixels
  BY ColouredAreRead DEF Machinery
<1> QED
  BY <1>3, <1>4, FS_Subset

\* The pixels of one region are the component of any of them.
LEMMA RegionIsComponent ==
  ASSUME Machinery, NEW p \in Coloured
  PROVE  {q \in Coloured : Id(q) = Id(p)} = Component(Coloured, Linked, p)
<1> DEFINE C == Component(Coloured, Linked, p)
           S == {q \in Coloured : Id(q) = Id(p)}
<1>1. IsFiniteSet(Coloured)
  BY ColouredIsFinite
<1>2. p \in C /\ Closed(C) /\ \A D : Closed(D) /\ p \in D => C \subseteq D
  BY <1>1, ComponentIsLeast
<1>3. Closed(S)
  BY DEF Closed, Machinery, RegionInv, Together
<1>4. C \subseteq S
  BY <1>2, <1>3
<1>5. S \subseteq C
  <2> HIDE DEF C
  <2>1. C \in SUBSET Coloured
    BY <1>2 DEF Closed
  <2>2. \A q \in Coloured : Id(p) = Id(q) => q \in C
    BY <1>2, <2>1 DEF Machinery, RegionInv, Apart
  <2> QED
    BY <2>2
<1> QED
  BY <1>4, <1>5

LEMMA GivesRootsAreRegions == Machinery => RootsAreRegions
<1> SUFFICES ASSUME Machinery PROVE RootsAreRegions
  OBVIOUS
<1>1. LinksLeadDown
  <2>1. CASE pc = "scan"
    BY <2>1 DEF Machinery, Labelled, Forest, LinksLeadDown
  <2>2. CASE pc # "scan"
    <3>1. \A i \in DOMAIN table : i \in Nat /\ table[i] \in 0 .. i
      BY <2>2 DEF Machinery, Numbered
    <3> QED
      BY <3>1 DEF LinksLeadDown
  <2> QED
    BY <2>1, <2>2
<1>2. ASSUME pc = "scan", NEW r,
             NEW S, S = {p \in Coloured : Root(table, label[p]) = r}, S # {}
      PROVE  S = Component(Coloured, Linked, CHOOSE p \in S : TRUE)
  <2>1. PICK p : p = CHOOSE q \in S : TRUE
    OBVIOUS
  <2>2. p \in S
    BY <1>2, <2>1
  <2>3. \A q : Id(q) = Root(table, label[q])
    BY <1>2 DEF Id
  <2>4. S = {q \in Coloured : Id(q) = Id(p)} /\ p \in Coloured
    BY <1>2, <2>2, <2>3
  <2>5. S = Component(Coloured, Linked, p)
    BY <2>4, RegionIsComponent
  <2> QED
    BY <2>1, <2>5
<1> QED
  BY <1>1, <1>2 DEF RootsAreRegions

\* For images of every size: the table is a forest with its links down, and
\* two pixels have the same root just when the pixels read so far join them.
THEOREM RootsAreRegionsAlways == Spec => []RootsAreRegions
<1>1. Init => Machinery
  BY InitMachinery
<1>2. Machinery /\ [Next]_vars => Machinery'
  BY StepMachinery
<1>3. Machinery => RootsAreRegions
  BY GivesRootsAreRegions
<1> QED
  BY <1>1, <1>2, <1>3, PTL DEF Spec

-----------------------------------------------------------------------------
(* The measures have their types.  The sums are folds over a set: again a  *)
(* recursive function, whose existence goes by the size of the set.        *)

Pick(s) == CHOOSE x \in s : TRUE

SumStep(h, w, s) == IF s = {} THEN 0 ELSE w[Pick(s)] + h[s \ {Pick(s)}]

IsSum(f, w, S) == f = [s \in SUBSET S |-> SumStep(f, w, s)]

\* The equation holds for the sets of up to k members.
Sums(h, w, S, k) == \A s \in SUBSET S : Cardinality(s) <= k => h[s] = SumStep(h, w, s)

LEMMA SubsetSizes ==
  ASSUME NEW S, IsFiniteSet(S), NEW s \in SUBSET S
  PROVE  /\ Cardinality(s) \in 0 .. Cardinality(S) /\ Cardinality(S) \in Nat
         /\ Cardinality(s) = 0 <=> s = {}
         /\ s # {} => /\ Pick(s) \in s /\ s \ {Pick(s)} \in SUBSET S
                      /\ Cardinality(s \ {Pick(s)}) = Cardinality(s) - 1
<1>1. /\ IsFiniteSet(s) /\ Cardinality(s) <= Cardinality(S)
      /\ Cardinality(s) \in Nat /\ Cardinality(S) \in Nat
  BY FS_Subset, FS_CardinalityType
<1>2. Cardinality(s) = 0 <=> s = {}
  BY <1>1, FS_EmptySet
<1>3. s # {} => Pick(s) \in s
  BY DEF Pick
<1>4. s # {} => Cardinality(s \ {Pick(s)}) = Cardinality(s) - 1
  BY <1>1, <1>3, FS_RemoveElement
<1> QED
  BY <1>1, <1>2, <1>3, <1>4

LEMMA SumsExist ==
  ASSUME NEW S, IsFiniteSet(S), NEW w
  PROVE  \E f : IsSum(f, w, S)
<1> DEFINE K == Cardinality(S)
           T == {k \in 0 .. K : ~ \E h : Sums(h, w, S, k)}
<1>1. K \in Nat
  BY FS_CardinalityType
<1>2. T = {}
  <2>1. SUFFICES ASSUME T # {} PROVE FALSE
    OBVIOUS
  <2>2. PICK k \in T : \A y \in T : k <= y
    <3>1. T \in SUBSET Nat
      BY <1>1
    <3> HIDE DEF T
    <3> QED
      BY <2>1, <3>1, LeastNumber
  <2>3. k \in 0 .. K /\ ~ \E h : Sums(h, w, S, k)
    BY <2>2
  <2>4. CASE k = 0
    <3>1. Sums([s \in SUBSET S |-> 0], w, S, 0)
      <4> SUFFICES ASSUME NEW s \in SUBSET S, Cardinality(s) <= 0 PROVE s = {}
        BY DEF Sums, SumStep
      <4>1. Cardinality(s) \in 0 .. K /\ (Cardinality(s) = 0 <=> s = {})
        BY SubsetSizes
      <4> HIDE DEF K
      <4> QED
        BY <1>1, <4>1
    <3> QED
      BY <2>3, <2>4, <3>1
  <2>5. CASE k # 0
    <3>1. k - 1 \in 0 .. K /\ ~ (k <= k - 1)
      <4> HIDE DEF K
      <4> QED
        BY <1>1, <2>3, <2>5
    <3>2. k - 1 \notin T
      <4> HIDE DEF T
      <4> QED
        BY <2>2, <3>1
    <3>3. PICK h : Sums(h, w, S, k - 1)
      BY <3>1, <3>2
    <3> DEFINE f == [s \in SUBSET S |->
                       IF Cardinality(s) <= k - 1 THEN h[s] ELSE SumStep(h, w, s)]
    <3>4. ASSUME NEW s \in SUBSET S, Cardinality(s) <= k
          PROVE  f[s] = SumStep(f, w, s)
      <4>1. f[s] = SumStep(h, w, s)
        BY <3>3 DEF Sums
      <4>2. s # {} => f[s \ {Pick(s)}] = h[s \ {Pick(s)}]
        <5> SUFFICES ASSUME s # {} PROVE f[s \ {Pick(s)}] = h[s \ {Pick(s)}]
          OBVIOUS
        <5>1. s \ {Pick(s)} \in SUBSET S
          OBVIOUS
        <5>2. Cardinality(s \ {Pick(s)}) <= k - 1
          <6>1. Cardinality(s \ {Pick(s)}) = Cardinality(s) - 1 /\ Cardinality(s) \in 0 .. K
            BY SubsetSizes
          <6> HIDE DEF K
          <6> QED
            BY <1>1, <2>3, <3>4, <6>1
        <5> QED
          BY <5>1, <5>2
      <4> HIDE DEF f
      <4> QED
        BY <4>1, <4>2 DEF SumStep
    <3>5. Sums(f, w, S, k)
      <4> HIDE DEF f
      <4> QED
        BY <3>4 DEF Sums
    <3> QED
      BY <2>3, <3>5
  <2> QED
    BY <2>4, <2>5
<1>3. PICK h : Sums(h, w, S, K)
  <2>1. K \in 0 .. K
    BY <1>1
  <2> QED
    BY <1>2, <2>1
<1> DEFINE f == [s \in SUBSET S |-> h[s]]
<1>4. ASSUME NEW s \in SUBSET S PROVE f[s] = SumStep(f, w, s)
  <2>1. Cardinality(s) <= K
    BY FS_Subset
  <2>2. f[s] = SumStep(h, w, s)
    BY <1>3, <2>1 DEF Sums
  <2>3. s \ {Pick(s)} \in SUBSET S
    OBVIOUS
  <2>4. f[s \ {Pick(s)}] = h[s \ {Pick(s)}]
    BY <2>3
  <2> HIDE DEF f
  <2> QED
    BY <2>2, <2>4 DEF SumStep
<1>5. f = [s \in SUBSET S |-> SumStep(f, w, s)]
  <2>1. f = [s \in SUBSET S |-> f[s]]
    OBVIOUS
  <2> HIDE DEF f
  <2> QED
    BY <1>4, <2>1
<1> HIDE DEF f
<1> QED
  BY <1>5 DEF IsSum

LEMMA SumIsNat ==
  ASSUME NEW S, IsFiniteSet(S), NEW w, \A x \in S : w[x] \in Nat,
         NEW f, IsSum(f, w, S)
  PROVE  f[S] \in Nat
<1> DEFINE K == Cardinality(S)
           Bad(k) == \E s \in SUBSET S : Cardinality(s) = k /\ f[s] \notin Nat
           T == {k \in 0 .. K : Bad(k)}
<1>1. K \in Nat
  BY FS_CardinalityType
<1>2. T = {}
  <2>1. SUFFICES ASSUME T # {} PROVE FALSE
    OBVIOUS
  <2>2. PICK k \in T : \A y \in T : k <= y
    <3>1. T \in SUBSET Nat
      BY <1>1
    <3> HIDE DEF T
    <3> QED
      BY <2>1, <3>1, LeastNumber
  <2>3. k \in 0 .. K /\ Bad(k)
    BY <2>2
  <2>4. PICK s \in SUBSET S : Cardinality(s) = k /\ f[s] \notin Nat
    BY <2>3
  <2>5. f[s] = SumStep(f, w, s)
    BY DEF IsSum
  <2>6. s # {}
    BY <2>4, <2>5 DEF SumStep
  <2> DEFINE r == s \ {Pick(s)}
  <2>7. Pick(s) \in S /\ r \in SUBSET S /\ Cardinality(r) = k - 1 /\ k # 0
    BY <2>4, <2>6, SubsetSizes
  <2>8. f[s] = w[Pick(s)] + f[r]
    BY <2>5, <2>6 DEF SumStep
  <2>9. f[r] \in Nat
    <3>1. k - 1 \in 0 .. K /\ ~ (k <= k - 1)
      <4> HIDE DEF K
      <4> QED
        BY <1>1, <2>3, <2>7
    <3>2. k - 1 \notin T
      <4> HIDE DEF T
      <4> QED
        BY <2>2, <3>1
    <3>3. ~ Bad(k - 1)
      BY <3>1, <3>2
    <3> HIDE DEF r
    <3> QED
      BY <2>7, <3>3
  <2> HIDE DEF r
  <2> QED
    BY <2>4, <2>7, <2>8, <2>9
<1>3. K \in 0 .. K /\ S \in SUBSET S
  BY <1>1
<1> QED
  BY <1>2, <1>3

LEMMA FirstSum ==
  ASSUME NEW S, IsFiniteSet(S), \A p \in S : p[1] \in Nat
  PROVE  MapThenSumSet(LAMBDA p : p[1], S) \in Nat
<1> DEFINE w == [p \in S |-> p[1]]
           Rec(f) == f = [s \in SUBSET S |->
                            IF s = {} THEN 0
                            ELSE LET x == CHOOSE x \in s : TRUE
                                 IN  x[1] + f[s \ {x}]]
           sum == CHOOSE f : Rec(f)
<1>1. ASSUME NEW f, NEW s \in SUBSET S
      PROVE  SumStep(f, w, s) = IF s = {} THEN 0
                                ELSE LET x == CHOOSE x \in s : TRUE IN x[1] + f[s \ {x}]
  <2>1. s # {} => w[Pick(s)] = Pick(s)[1]
    BY DEF Pick
  <2> HIDE DEF w
  <2> QED
    BY <2>1 DEF SumStep, Pick
<1>2. \A f : Rec(f) <=> IsSum(f, w, S)
  <2> HIDE DEF w
  <2> QED
    BY <1>1 DEF IsSum
<1>3. \E f : Rec(f)
  <2> HIDE DEF w, Rec
  <2> QED
    BY <1>2, SumsExist
<1>4. Rec(sum)
  <2> HIDE DEF Rec
  <2> QED
    BY <1>3
<1>5. MapThenSumSet(LAMBDA p : p[1], S) = sum[S]
  BY DEF MapThenSumSet, MapThenFoldSet
<1>6. \A x \in S : w[x] \in Nat
  OBVIOUS
<1> HIDE DEF w, Rec, sum
<1>7. IsSum(sum, w, S)
  BY <1>2, <1>4
<1>8. sum[S] \in Nat
  BY <1>6, <1>7, SumIsNat
<1> QED
  BY <1>5, <1>8

LEMMA SecondSum ==
  ASSUME NEW S, IsFiniteSet(S), \A p \in S : p[2] \in Nat
  PROVE  MapThenSumSet(LAMBDA p : p[2], S) \in Nat
<1> DEFINE w == [p \in S |-> p[2]]
           Rec(f) == f = [s \in SUBSET S |->
                            IF s = {} THEN 0
                            ELSE LET x == CHOOSE x \in s : TRUE
                                 IN  x[2] + f[s \ {x}]]
           sum == CHOOSE f : Rec(f)
<1>1. ASSUME NEW f, NEW s \in SUBSET S
      PROVE  SumStep(f, w, s) = IF s = {} THEN 0
                                ELSE LET x == CHOOSE x \in s : TRUE IN x[2] + f[s \ {x}]
  <2>1. s # {} => w[Pick(s)] = Pick(s)[2]
    BY DEF Pick
  <2> HIDE DEF w
  <2> QED
    BY <2>1 DEF SumStep, Pick
<1>2. \A f : Rec(f) <=> IsSum(f, w, S)
  <2> HIDE DEF w
  <2> QED
    BY <1>1 DEF IsSum
<1>3. \E f : Rec(f)
  <2> HIDE DEF w, Rec
  <2> QED
    BY <1>2, SumsExist
<1>4. Rec(sum)
  <2> HIDE DEF Rec
  <2> QED
    BY <1>3
<1>5. MapThenSumSet(LAMBDA p : p[2], S) = sum[S]
  BY DEF MapThenSumSet, MapThenFoldSet
<1>6. \A x \in S : w[x] \in Nat
  OBVIOUS
<1> HIDE DEF w, Rec, sum
<1>7. IsSum(sum, w, S)
  BY <1>2, <1>4
<1>8. sum[S] \in Nat
  BY <1>6, <1>7, SumIsNat
<1> QED
  BY <1>5, <1>8

LEMMA Extremes ==
  ASSUME NEW k \in Nat, NEW S \in SUBSET (0 .. k), S # {}
  PROVE  Min(S) \in 0 .. k /\ Max(S) \in 0 .. k
<1>1. Min(S) \in 0 .. k
  <2>1. S \in SUBSET Nat
    OBVIOUS
  <2>2. Min(S) \in S
    BY <2>1, MinFacts
  <2> QED
    BY <2>2
<1>2. \E x \in S : \A y \in S : x >= y
  <2> DEFINE T == {b \in Nat : \A y \in S : y <= b}
  <2>1. T \in SUBSET Nat /\ k \in T
    OBVIOUS
  <2>2. PICK b \in T : \A c \in T : b <= c
    <3> HIDE DEF T
    <3> QED
      BY <2>1, LeastNumber
  <2>3. b \in Nat /\ \A y \in S : y <= b
    BY <2>2
  <2>4. b \in S
    <3>1. SUFFICES ASSUME b \notin S PROVE FALSE
      OBVIOUS
    <3>2. \A y \in S : y \in Nat /\ y <= b - 1
      BY <2>3, <3>1
    <3>3. b - 1 \in Nat
      <4>1. PICK y \in S : TRUE
        OBVIOUS
      <4>2. y \in Nat /\ y <= b - 1
        BY <3>2
      <4> QED
        BY <2>3, <4>2
    <3>4. b - 1 \in T
      BY <3>2, <3>3
    <3> HIDE DEF T
    <3> QED
      BY <2>2, <2>3, <3>4
  <2> QED
    BY <2>3, <2>4
<1>3. Max(S) \in S
  BY <1>2 DEF Max
<1> QED
  BY <1>1, <1>3

LEMMA MeasureType ==
  ASSUME Machinery, NEW S \in SUBSET Pixels, S # {}
  PROVE  Measure(S) \in Region
<1> DEFINE I == {p[1] : p \in S}
           J == {p[2] : p \in S}
<1>1. m \in Nat \ {0} /\ n \in Nat \ {0} /\ m <= m * n /\ n <= m * n /\ m * n \in Nat
  <2>1. m \in Nat \ {0} /\ n \in Nat \ {0}
    BY ShapeFacts DEF Machinery, Counters
  <2> QED
    BY <2>1
<1>2. \A p \in S : p[1] \in 0 .. m - 1 /\ p[2] \in 0 .. n - 1
  BY PixelFacts DEF Machinery, Counters
<1>3. IsFiniteSet(S) /\ Cardinality(S) \in 1 .. m * n
  <2>1. IsFiniteSet(Pixels) /\ Cardinality(Pixels) = m * n
    BY ColouredIsFinite
  <2>2. IsFiniteSet(S) /\ Cardinality(S) <= m * n
    BY <2>1, FS_Subset
  <2>3. Cardinality(S) \in Nat /\ Cardinality(S) # 0
    BY <2>2, FS_CardinalityType, FS_EmptySet
  <2> QED
    BY <1>1, <2>2, <2>3
<1>4. /\ Min(I) \in Labels /\ Max(I) \in Labels
      /\ Min(J) \in Labels /\ Max(J) \in Labels
  <2>1. I \in SUBSET (0 .. m * n) /\ J \in SUBSET (0 .. m * n)
    <3>1. \A x \in 0 .. m - 1 : x \in 0 .. m * n
      BY <1>1
    <3>2. \A x \in 0 .. n - 1 : x \in 0 .. m * n
      BY <1>1
    <3> QED
      BY <1>2, <3>1, <3>2
  <2>2. I # {} /\ J # {}
    OBVIOUS
  <2> HIDE DEF I, J
  <2> QED
    BY <1>1, <2>1, <2>2, Extremes DEF Labels
<1>5. /\ MapThenSumSet(LAMBDA p : p[1], S) \in Nat
      /\ MapThenSumSet(LAMBDA p : p[2], S) \in Nat
  <2>1. \A p \in S : p[1] \in Nat /\ p[2] \in Nat
    BY <1>1, <1>2
  <2> QED
    BY <1>3, <2>1, FirstSum, SecondSum
<1>6. PICK sum : sum = <<MapThenSumSet(LAMBDA p : p[1], S), MapThenSumSet(LAMBDA p : p[2], S)>>
  OBVIOUS
<1>7. PICK box : box = <<Min(I), Max(I), Min(J), Max(J)>>
  OBVIOUS
<1>8. Measure(S) = [area |-> Cardinality(S), box |-> box, sum |-> sum]
  BY <1>6, <1>7 DEF Measure
<1>9. sum \in Seq(Nat)
  BY <1>5, <1>6
<1>10. box \in Seq(Labels)
  <2> HIDE DEF I, J
  <2> QED
    BY <1>4, <1>7
<1> QED
  BY <1>3, <1>8, <1>9, <1>10 DEF Region

-----------------------------------------------------------------------------
(* The numbered regions are the components.                                *)

RegionOf(k) == {p \in Pixels : table[label[p]] = k}

LEMMA NumbersAreComponents ==
  ASSUME Machinery, pc # "scan", Coloured # {}
  PROVE  /\ \A k \in 1 .. nlabel : RegionOf(k) \in SUBSET Coloured /\ RegionOf(k) # {}
         /\ \A j, k \in 1 .. nlabel : RegionOf(j) = RegionOf(k) => j = k
         /\ Components(Linked) = {RegionOf(k) : k \in 1 .. nlabel}
<1>1. /\ DOMAIN label = Pixels
      /\ \A p \in Pixels : /\ table[label[p]] \in 0 .. nlabel
                           /\ table[label[p]] = 0 <=> label[p] = 0
      /\ \A k \in 1 .. nlabel : \E p \in Coloured : table[label[p]] = k
      /\ nlabel \in Nat
  <2>1. row = n
    BY DEF Machinery, Numbered
  <2>2. Read = Pixels
    BY <2>1, AllRead DEF Machinery
  <2> QED
    BY <2>2 DEF Machinery, Numbered, Labelled, Counters
<1>2. Coloured = {p \in Pixels : label[p] # 0}
  BY <1>1 DEF Coloured
<1>3. \A k \in 1 .. nlabel : RegionOf(k) = {p \in Coloured : table[label[p]] = k}
  <2> SUFFICES ASSUME NEW k \in 1 .. nlabel
               PROVE  RegionOf(k) = {p \in Coloured : table[label[p]] = k}
    OBVIOUS
  <2>1. k # 0
    OBVIOUS
  <2> QED
    BY <1>1, <1>2, <2>1 DEF RegionOf
<1>4. \A k \in 1 .. nlabel : RegionOf(k) \in SUBSET Coloured /\ RegionOf(k) # {}
  <2> SUFFICES ASSUME NEW k \in 1 .. nlabel
               PROVE  RegionOf(k) \in SUBSET Coloured /\ RegionOf(k) # {}
    OBVIOUS
  <2>1. PICK p \in Coloured : table[label[p]] = k
    BY <1>1
  <2> QED
    BY <1>3, <2>1
<1>5. ASSUME NEW j \in 1 .. nlabel, NEW k \in 1 .. nlabel, RegionOf(j) = RegionOf(k)
      PROVE  j = k
  <2>1. PICK p : p \in RegionOf(j)
    BY <1>4
  <2> QED
    BY <1>5, <2>1 DEF RegionOf
<1>6. \A p \in Coloured : /\ table[label[p]] \in 1 .. nlabel
                          /\ RegionOf(table[label[p]]) = Component(Coloured, Linked, p)
  <2> SUFFICES ASSUME NEW p \in Coloured
               PROVE  /\ table[label[p]] \in 1 .. nlabel
                      /\ RegionOf(table[label[p]]) = Component(Coloured, Linked, p)
    OBVIOUS
  <2>1. table[label[p]] \in 0 .. nlabel /\ table[label[p]] # 0
    BY <1>1, <1>2
  <2>2. table[label[p]] \in 1 .. nlabel
    BY <1>1, <2>1
  <2>3. \A q : Id(q) = table[label[q]]
    BY DEF Id
  <2>4. RegionOf(table[label[p]]) = {q \in Coloured : Id(q) = Id(p)}
    BY <1>3, <2>2, <2>3
  <2> QED
    BY <2>2, <2>4, RegionIsComponent
<1>7. Components(Linked) = {Component(Coloured, Linked, p) : p \in Coloured}
  BY DEF Components
<1>8. \A C \in Components(Linked) : \E k \in 1 .. nlabel : C = RegionOf(k)
  BY <1>6, <1>7
<1>9. \A k \in 1 .. nlabel : RegionOf(k) \in Components(Linked)
  <2> SUFFICES ASSUME NEW k \in 1 .. nlabel PROVE RegionOf(k) \in Components(Linked)
    OBVIOUS
  <2>1. PICK p \in Coloured : table[label[p]] = k
    BY <1>1
  <2> QED
    BY <1>6, <1>7, <2>1
<1> QED
  BY <1>4, <1>5, <1>8, <1>9

\* The image of a set of numbers under an injective operation has its size.
LEMMA SameSize ==
  ASSUME NEW K \in Nat, NEW A \in SUBSET (1 .. K), NEW f, NEW B,
         \A j, k \in A : f[j] = f[k] => j = k,
         B = {f[k] : k \in A}
  PROVE  Cardinality(A) = Cardinality(B)
<1> DEFINE g == [k \in A |-> f[k]]
<1>1. IsFiniteSet(A)
  <2>1. IsFiniteSet(1 .. K)
    BY FS_Interval
  <2> QED
    BY <2>1, FS_Subset
<1>2. g \in [A -> B] /\ DOMAIN g = A
  OBVIOUS
<1>3. \A j, k \in A : g[j] = g[k] => j = k
  OBVIOUS
<1>4. \A b \in B : \E k \in A : g[k] = b
  OBVIOUS
<1> HIDE DEF g
<1>5. g \in Bijection(A, B)
  BY <1>2, <1>3, <1>4 DEF Bijection, Injection, Surjection, IsInjective
<1>6. ExistsBijection(A, B)
  BY <1>5 DEF ExistsBijection
<1> QED
  BY <1>1, <1>6, FS_Bijection

\* What is returned, with the regions in the order they were returned in.
LEMMA WhatIsReturned ==
  ASSUME Machinery, pc = "done", Coloured # {}
  PROVE  \E order \in Bijection(1 .. nlabel, 1 .. nlabel) :
           /\ regions = [k \in 1 .. nlabel |-> Measure(RegionOf(order[k]))]
           /\ Largest(regions)
<1>1. PICK order \in Bijection(1 .. nlabel, 1 .. nlabel) :
        LET props == Measures(order)
        IN  Largest(props) /\ regions = IF props[1].area > 0 THEN props ELSE <<>>
  BY DEF Machinery, Returned
<1>2. Measures(order) = [k \in 1 .. nlabel |-> Measure(RegionOf(order[k]))]
  BY DEF Measures, Of, RegionOf
<1>3. 1 \in 1 .. nlabel /\ order[1] \in 1 .. nlabel
  <2>1. nlabel \in Nat \ {0}
    BY DEF Machinery, Counters
  <2> QED
    BY <2>1 DEF Bijection, Injection
<1>4. Measure(RegionOf(order[1])).area > 0
  <2> DEFINE S == RegionOf(order[1])
  <2>1. S \in SUBSET Pixels /\ S # {}
    BY <1>3, NumbersAreComponents, ColouredIsFinite
  <2>2. Measure(S) \in Region
    <3> HIDE DEF S
    <3> QED
      BY <2>1, MeasureType
  <2>3. Measure(S).area \in 1 .. m * n
    BY <2>2 DEF Region
  <2>4. m * n \in Nat
    <3>1. m \in Nat /\ n \in Nat
      BY ShapeFacts DEF Machinery, Counters
    <3> QED
      BY <3>1
  <2> QED
    BY <2>3, <2>4
<1>5. Measures(order)[1].area > 0
  BY <1>2, <1>3, <1>4
<1>6. regions = Measures(order) /\ Largest(regions)
  BY <1>1, <1>5
<1> QED
  BY <1>2, <1>6

\* Of an image without the colour nothing is returned.
LEMMA NothingIsReturned ==
  ASSUME Machinery, pc = "done", Coloured = {}
  PROVE  regions = <<>>
<1>1. PICK order \in Bijection(1 .. nlabel, 1 .. nlabel) :
        LET props == Measures(order)
        IN  Largest(props) /\ regions = IF props[1].area > 0 THEN props ELSE <<>>
  BY DEF Machinery, Returned
<1>2. nlabel = 1 /\ row = n /\ \A p \in Pixels : table[label[p]] = 0 <=> label[p] = 0
  BY DEF Machinery, Numbered
<1>3. order[1] = 1
  BY <1>2 DEF Bijection, Injection
<1>4. \A p \in Pixels : label[p] = 0
  <2>1. DOMAIN label = Pixels
    BY <1>2, AllRead DEF Machinery, Labelled
  <2> QED
    BY <2>1 DEF Coloured
<1>5. {p \in Pixels : table[label[p]] = 1} = {}
  BY <1>2, <1>4
<1>6. Of(1) = [area |-> 0]
  BY <1>5 DEF Of, Measure
<1>7. Measures(order)[1] = [area |-> 0]
  BY <1>2, <1>3, <1>6 DEF Measures
<1> QED
  BY <1>1, <1>7

LEMMA GivesRegionsReturned == Machinery => RegionsReturned
<1> SUFFICES ASSUME Machinery, pc = "done"
             PROVE  /\ \A r \in Range(regions) :
                         Cardinality({k \in DOMAIN regions : regions[k] = r})
                           = Cardinality({C \in Components(Linked) : Measure(C) = r})
                    /\ Len(regions) = Cardinality(Components(Linked))
                    /\ \A k \in DOMAIN regions : regions[k].area <= regions[1].area
  BY DEF RegionsReturned
<1> DEFINE K == nlabel
<1>1. K \in Nat \ {0}
  BY DEF Machinery, Counters
<1>2. CASE Coloured = {}
  <2>1. regions = <<>>
    BY <1>2, NothingIsReturned
  <2>2. Components(Linked) = {}
    BY <1>2 DEF Components
  <2>3. DOMAIN regions = {} /\ Len(regions) = 0 /\ Range(regions) = {}
    BY <2>1 DEF Range
  <2> QED
    BY <2>2, <2>3, FS_EmptySet
<1>3. CASE Coloured # {}
  <2>1. PICK order \in Bijection(1 .. K, 1 .. K) :
          /\ regions = [k \in 1 .. K |-> Measure(RegionOf(order[k]))]
          /\ Largest(regions)
    BY <1>3, WhatIsReturned
  <2>2. /\ order \in [1 .. K -> 1 .. K]
        /\ \A j, k \in 1 .. K : order[j] = order[k] => j = k
        /\ \A k \in 1 .. K : \E j \in 1 .. K : order[j] = k
    BY DEF Bijection, Injection, Surjection, IsInjective
  <2>3. /\ \A k \in 1 .. K : RegionOf(k) \in SUBSET Coloured /\ RegionOf(k) # {}
        /\ \A j, k \in 1 .. K : RegionOf(j) = RegionOf(k) => j = k
        /\ Components(Linked) = {RegionOf(k) : k \in 1 .. K}
    BY <1>3, NumbersAreComponents
  <2> DEFINE f == [k \in 1 .. K |-> RegionOf(order[k])]
  <2>4. \A j, k \in 1 .. K : f[j] = f[k] => j = k
    BY <2>2, <2>3
  <2>5. Components(Linked) = {f[k] : k \in 1 .. K}
    <3>1. \A k \in 1 .. K : f[k] \in Components(Linked)
      BY <2>2, <2>3
    <3>2. \A C \in Components(Linked) : \E k \in 1 .. K : C = f[k]
      <4> SUFFICES ASSUME NEW C \in Components(Linked) PROVE \E k \in 1 .. K : C = f[k]
        OBVIOUS
      <4>1. PICK k \in 1 .. K : C = RegionOf(k)
        BY <2>3
      <4>2. PICK j \in 1 .. K : order[j] = k
        BY <2>2
      <4> QED
        BY <4>1, <4>2
    <3> HIDE DEF f
    <3> QED
      BY <3>1, <3>2
  <2>6. DOMAIN regions = 1 .. K /\ \A k \in 1 .. K : regions[k] = Measure(f[k])
    BY <2>1
  <2> HIDE DEF f, K
  <2>7. ASSUME NEW r
        PROVE  Cardinality({k \in DOMAIN regions : regions[k] = r})
                 = Cardinality({C \in Components(Linked) : Measure(C) = r})
    <3> DEFINE A == {k \in 1 .. K : Measure(f[k]) = r}
               B == {C \in Components(Linked) : Measure(C) = r}
    <3>1. {k \in DOMAIN regions : regions[k] = r} = A
      BY <2>6
    <3>2. B = {f[k] : k \in A}
      BY <2>5
    <3>3. A \in SUBSET (1 .. K) /\ \A j, k \in A : f[j] = f[k] => j = k
      BY <2>4
    <3> HIDE DEF A, B
    <3>4. Cardinality(A) = Cardinality(B)
      BY <1>1, <3>2, <3>3, SameSize
    <3> QED
      BY <3>1, <3>4 DEF B
  <2>8. Len(regions) = Cardinality(Components(Linked))
    <3>1. Len(regions) = K
      <4>1. regions \in Seq({regions[k] : k \in 1 .. K})
        BY <1>1, <2>1, <2>6 DEF K
      <4> QED
        BY <1>1, <2>6, <4>1
    <3>2. Cardinality(1 .. K) = K
      <4>1. Cardinality(1 .. K) = IF 1 > K THEN 0 ELSE K - 1 + 1
        BY <1>1, FS_Interval
      <4> QED
        BY <1>1, <4>1
    <3>3. Cardinality(1 .. K) = Cardinality(Components(Linked))
      BY <1>1, <2>4, <2>5, SameSize
    <3> QED
      BY <3>1, <3>2, <3>3
  <2>9. \A k \in DOMAIN regions : regions[k].area <= regions[1].area
    <3> SUFFICES ASSUME NEW k \in 1 .. K PROVE regions[k].area <= regions[1].area
      BY <2>6
    <3>1. 1 \in 1 .. K
      BY <1>1
    <3>2. \A j \in 1 .. K : regions[j].area \in Nat
      <4> SUFFICES ASSUME NEW j \in 1 .. K PROVE regions[j].area \in Nat
        OBVIOUS
      <4>1. f[j] \in SUBSET Pixels /\ f[j] # {}
        BY <2>2, <2>3, ColouredIsFinite DEF f, K
      <4>2. Measure(f[j]) \in Region
        BY <4>1, MeasureType
      <4> QED
        BY <2>6, <4>2 DEF Region
    <3>3. CASE k = 1
      BY <3>2, <3>3
    <3>4. CASE k # 1
      <4>1. 1 < k
        BY <1>1, <3>4
      <4>2. regions[1].area >= regions[k].area
        BY <2>1, <2>6, <3>1, <4>1 DEF Largest
      <4> QED
        BY <3>1, <3>2, <4>2
    <3> QED
      BY <3>3, <3>4
  <2> QED
    BY <2>7, <2>8, <2>9
<1> QED
  BY <1>2, <1>3

LEMMA GivesTypeOK == Machinery => TypeOK
<1> SUFFICES ASSUME Machinery PROVE TypeOK
  OBVIOUS
<1>1. m \in Nat \ {0} /\ n \in Nat \ {0} /\ m * n \in Nat /\ m * n >= 1
  <2>1. m \in Nat \ {0} /\ n \in Nat \ {0}
    BY ShapeFacts DEF Machinery, Counters
  <2> QED
    BY <2>1
<1>2. shape \in Shapes /\ col \in 0 .. m - 1 /\ row \in 0 .. n /\ pc \in {"scan", "measure", "done"}
  BY DEF Machinery, Counters
<1>3. DOMAIN label \subseteq Pixels
  BY DEF Machinery, Labelled, Read
<1>4. nlabel \in 1 .. m * n + 1
  <2>1. CASE pc = "scan"
    <3>1. nlabel \in Nat \ {0} /\ nlabel <= row * m + col + 1
      BY <2>1 DEF Machinery, Labelled, Counters
    <3>2. row * m + col <= m * n
      <4>1. CASE row = n
        <5>1. col = 0
          BY <4>1 DEF Machinery, Counters
        <5> QED
          BY <1>1, <4>1, <5>1
      <4>2. CASE row # n
        <5>1. row \in Nat /\ row + 1 <= n /\ col \in Nat /\ col <= m
          BY <1>1, <1>2, <4>2
        <5>2. (row + 1) * m <= n * m
          BY <1>1, <5>1
        <5>3. (row + 1) * m = row * m + m /\ n * m = m * n /\ row * m \in Nat
          BY <1>1, <5>1
        <5> QED
          BY <1>1, <5>1, <5>2, <5>3
      <4> QED
        BY <4>1, <4>2
    <3>3. row * m + col \in Nat
      BY <1>1, <1>2
    <3> QED
      BY <1>1, <3>1, <3>2, <3>3
  <2>2. CASE pc # "scan"
    BY <1>1, <2>2 DEF Machinery, Numbered
  <2> QED
    BY <2>1, <2>2
<1>5. /\ \A p \in DOMAIN label : label[p] \in DOMAIN table
      /\ DOMAIN table \subseteq Labels \cup {1}
      /\ \A i \in DOMAIN table : table[i] \in DOMAIN table
  <2>1. CASE pc = "scan"
    <3>1. Forest(table, Last) /\ DOMAIN table = 0 .. Last
      BY <2>1 DEF Machinery, Labelled, Forest
    <3>2. Last \in 1 .. m * n /\ nlabel - 1 <= Last
      BY <1>1, <1>4 DEF Last
    <3>3. \A p \in DOMAIN label : label[p] \in 0 .. nlabel - 1
      BY <2>1 DEF Machinery, Labelled
    <3>4. \A x \in 0 .. nlabel - 1 : x \in 0 .. Last
      BY <1>1, <1>4, <3>2
    <3>5. \A x \in 0 .. Last : x \in Labels
      BY <1>1, <3>2 DEF Labels
    <3> QED
      BY <3>1, <3>3, <3>4, <3>5 DEF Forest
  <2>2. CASE pc # "scan"
    <3>1. PICK N \in 1 .. m * n : DOMAIN table = 0 .. N
      BY <2>2 DEF Machinery, Numbered
    <3>2. \A i \in 0 .. N : table[i] \in 0 .. N
      <4> SUFFICES ASSUME NEW i \in 0 .. N PROVE table[i] \in 0 .. N
        OBVIOUS
      <4>1. table[i] \in 0 .. i
        BY <2>2, <3>1 DEF Machinery, Numbered
      <4> QED
        BY <1>1, <4>1
    <3>3. \A p \in DOMAIN label : label[p] \in DOMAIN table
      BY <2>2, <1>3 DEF Machinery, Numbered
    <3>4. \A x \in 0 .. N : x \in Labels
      BY <1>1 DEF Labels
    <3> QED
      BY <3>1, <3>2, <3>3, <3>4
  <2> QED
    BY <2>1, <2>2
<1>6. regions \in Seq(Region)
  <2>1. CASE pc # "done"
    BY <2>1 DEF Machinery, Returned
  <2>2. CASE pc = "done" /\ Coloured = {}
    BY <2>2, NothingIsReturned
  <2>3. CASE pc = "done" /\ Coloured # {}
    <3>1. PICK order \in Bijection(1 .. nlabel, 1 .. nlabel) :
            regions = [k \in 1 .. nlabel |-> Measure(RegionOf(order[k]))]
      BY <2>3, WhatIsReturned
    <3>2. \A k \in 1 .. nlabel : order[k] \in 1 .. nlabel
      BY DEF Bijection, Injection
    <3>3. ASSUME NEW k \in 1 .. nlabel PROVE Measure(RegionOf(order[k])) \in Region
      <4>1. RegionOf(order[k]) \in SUBSET Pixels /\ RegionOf(order[k]) # {}
        BY <2>3, <3>2, <3>3, NumbersAreComponents, ColouredIsFinite
      <4> QED
        BY <4>1, MeasureType
    <3>4. nlabel \in Nat
      BY DEF Machinery, Counters
    <3> QED
      BY <3>1, <3>3, <3>4
  <2> QED
    BY <2>1, <2>2, <2>3
<1> QED
  BY <1>2, <1>3, <1>4, <1>5, <1>6 DEF TypeOK

\* For images of every size: labels, table, counters and measures stay in
\* their types; in particular the table holds every label it is asked for.
THEOREM TypeCorrect == Spec => []TypeOK
<1>1. Init => Machinery
  BY InitMachinery
<1>2. Machinery /\ [Next]_vars => Machinery'
  BY StepMachinery
<1>3. Machinery => TypeOK
  BY GivesTypeOK
<1> QED
  BY <1>1, <1>2, <1>3, PTL DEF Spec

\* For images of every size ConnectRegions returns each component of the
\* coloured pixels once, with its measures, the largest first.
THEOREM RegionsReturnedAlways == Spec => []RegionsReturned
<1>1. Init => Machinery
  BY InitMachinery
<1>2. Machinery /\ [Next]_vars => Machinery'
  BY StepMachinery
<1>3. Machinery => RegionsReturned
  BY GivesRegionsReturned
<1> QED
  BY <1>1, <1>2, <1>3, PTL DEF Spec
=============================================================================
