------------------------- MODULE PropertyAreaProofs -------------------------
(***************************************************************************)
(* The property area holds what its lines say, for any lines and any size  *)
(* of the arena: bionic finds every property with its last value and finds *)
(* nothing else, and the write fails only where a segment is empty or what *)
(* is needed does not fit.                                                 *)
(*                                                                         *)
(* The offsets grow along every link, so that a walk ends, and add and     *)
(* find turn the same way at every node, so that a walk that found its     *)
(* segment still does once another node hangs on the tree.  Every node     *)
(* then has one path of segments from the root (`path`, by the parent      *)
(* `par`), and the arena is as large as its paths and properties need.     *)
(***************************************************************************)
EXTENDS PropertyArea, SequenceFacts

-----------------------------------------------------------------------------
(* Walks.                                                                  *)

\* Induction from the largest offset down.
LEMMA FromTheLast ==
    ASSUME NEW D, NEW k \in Nat, \A n \in D : n \in Nat /\ n <= k,
           NEW G, \A n \in D : (\A m \in D : m > n => m \in G) => n \in G
    PROVE  \A n \in D : n \in G
<1> SUFFICES ASSUME NEW x \in D, x \notin G PROVE FALSE
  OBVIOUS
<1> DEFINE S == {j \in 0 .. k : \E n \in D : n \notin G /\ n + j = k}
<1>1. S \in SUBSET Nat /\ k - x \in S
  OBVIOUS
<1>2. PICK j \in S : \A i \in S : j <= i
  BY <1>1, LeastNatural
<1>3. PICK n \in D : n \notin G /\ n + j = k
  BY <1>2
<1>4. PICK m \in D : m > n /\ m \notin G
  BY <1>3
<1>5. k - m \in S /\ k - m < j
  BY <1>3, <1>4
<1>6. QED
  BY <1>1, <1>2, <1>5

\* Induction from the smallest number up.
LEMMA FromTheFirst ==
    ASSUME NEW D \in SUBSET Nat,
           NEW G, \A n \in D : (\A m \in D : m < n => m \in G) => n \in G
    PROVE  \A n \in D : n \in G
<1> SUFFICES ASSUME NEW x \in D, x \notin G PROVE FALSE
  OBVIOUS
<1> DEFINE S == {n \in D : n \notin G}
<1>1. PICK n \in S : \A m \in S : n <= m
  BY LeastNatural
<1>2. \A m \in D : m < n => m \in G
  BY <1>1
<1>3. QED
  BY <1>1, <1>2

IsWalk(g, D, Halt, next) == g = [n \in D |-> IF n \in Halt THEN n ELSE g[next[n]]]

\* A walk that comes closer to its end with every step is defined.
LEMMA WalkExists ==
    ASSUME NEW D, NEW Halt, NEW next, NEW k \in Nat, NEW mu \in [D -> 0 .. k],
           \A n \in D : n \notin Halt => next[n] \in D /\ mu[next[n]] < mu[n]
    PROVE  \E g : IsWalk(g, D, Halt, next)
<1> DEFINE Below(j) == {n \in D : mu[n] < j}
           Is(g, j) == g = [n \in Below(j) |-> IF n \in Halt THEN n ELSE g[next[n]]]
           S == {j \in Nat : \E g : Is(g, j)}
<1>1. 0 \in S
  <2>1. Is([n \in Below(0) |-> n], 0)
    OBVIOUS
  <2>2. QED
    BY <2>1
<1>2. ASSUME NEW j \in Nat, j \in S
      PROVE  j + 1 \in S
  <2>1. PICK g : Is(g, j)
    BY <1>2
  <2> DEFINE h == [n \in Below(j + 1) |-> IF n \in Halt THEN n ELSE g[next[n]]]
  <2>2. \A n \in Below(j) : g[n] = IF n \in Halt THEN n ELSE g[next[n]]
    BY <2>1
  <2>3. \A n \in Below(j) : n \in Below(j + 1) /\ h[n] = g[n]
    BY <2>2
  <2>4. \A n \in Below(j + 1) : n \notin Halt => next[n] \in Below(j)
    OBVIOUS
  <2> HIDE DEF Below
  <2>5. \A n \in Below(j + 1) :
          (IF n \in Halt THEN n ELSE g[next[n]]) = IF n \in Halt THEN n ELSE h[next[n]]
    BY <2>3, <2>4
  <2>6. Is(h, j + 1)
    BY ZenonT(30), <2>5
  <2> HIDE DEF Is, h
  <2>7. QED
    BY <2>6
<1>3. Below(k + 1) = D /\ k + 1 \in Nat
  OBVIOUS
<1> HIDE DEF S, Below
<1>4. k + 1 \in S
  BY <1>1, <1>2, <1>3, Induction
<1>5. QED
  BY <1>3, <1>4 DEF S, IsWalk

\* The links of an arena: to nodes further on, or nowhere.
Linked(a) ==
    /\ a.used \in Nat
    /\ \A n \in DOMAIN a.node : n \in Nat /\ n < a.used
    /\ 0 \in DOMAIN a.node
    /\ \A n \in DOMAIN a.node : \A l \in Links :
          LET m == a.node[n].link[l] IN m = 0 \/ (m \in DOMAIN a.node /\ m > n)

LinkOf(a, n, segment) == a.node[n].link[Branch(a, n, segment)]

\* A branch is one of the links.
LEMMA BranchIsALink ==
    ASSUME NEW a, NEW n, NEW segment
    PROVE  Branch(a, n, segment) \in {"left", "right"} /\ Branch(a, n, segment) \in Links
BY DEF Branch, Links

\* add and find turn the same way.
LEMMA SameTurn ==
    ASSUME NEW a, NEW n, NEW segment
    PROVE  BionicNext(a.node[n], segment) = LinkOf(a, n, segment)
<1>1. CASE cmp_name(segment, a.node[n].name)
  BY <1>1 DEF BionicNext, LinkOf, Branch, cmp_name
<1>2. CASE ~cmp_name(segment, a.node[n].name)
  BY <1>2 DEF BionicNext, LinkOf, Branch, cmp_name
<1>3. QED
  BY <1>1, <1>2

\* What add walks to, step by step.
LEMMA NearestStep ==
    ASSUME NEW a, Linked(a), NEW segment, NEW n \in DOMAIN a.node
    PROVE  Nearest(a, n, segment) =
              IF a.node[n].name = segment \/ LinkOf(a, n, segment) = 0 THEN n
              ELSE Nearest(a, LinkOf(a, n, segment), segment)
<1> DEFINE D == DOMAIN a.node
           Halt == {m \in D : a.node[m].name = segment \/ LinkOf(a, m, segment) = 0}
           next == [m \in D |-> LinkOf(a, m, segment)]
           mu == [m \in D |-> a.used - m]
           Is(g) == g = [m \in D |-> LET nx == a.node[m].link[Branch(a, m, segment)]
                                     IN  IF a.node[m].name = segment \/ nx = 0 THEN m ELSE g[nx]]
           w == CHOOSE g : Is(g)
<1>1. \A m \in D : m \notin Halt => next[m] \in D /\ mu[next[m]] < mu[m]
  <2> SUFFICES ASSUME NEW m \in D, m \notin Halt
               PROVE  next[m] \in D /\ mu[next[m]] < mu[m]
    OBVIOUS
  <2>1. next[m] \in D /\ next[m] > m
    BY BranchIsALink DEF Linked, LinkOf
  <2>2. m \in Nat /\ next[m] \in Nat /\ a.used \in Nat
    BY <2>1 DEF Linked
  <2>3. QED
    BY <2>1, <2>2
<1>2. mu \in [D -> 0 .. a.used] /\ a.used \in Nat
  BY DEF Linked
<1> HIDE DEF D, Halt, next, mu, Is, w
<1>3. \E g : IsWalk(g, D, Halt, next)
  BY <1>1, <1>2, WalkExists
<1> USE DEF D, Halt, next, mu, Is, w
<1>4. \E g : Is(g)
  <2>1. \A m \in D : next[m] = LinkOf(a, m, segment)
                    /\ (m \in Halt <=> a.node[m].name = segment \/ LinkOf(a, m, segment) = 0)
    OBVIOUS
  <2> HIDE DEF D, Halt, next
  <2>2. PICK g : g = [m \in D |-> IF m \in Halt THEN m ELSE g[next[m]]]
    BY <1>3 DEF IsWalk
  <2>3. \A m \in D : (IF m \in Halt THEN m ELSE g[next[m]]) =
                       LET nx == a.node[m].link[Branch(a, m, segment)]
                       IN  IF a.node[m].name = segment \/ nx = 0 THEN m ELSE g[nx]
    BY <2>1 DEF LinkOf
  <2>4. Is(g)
    BY ZenonT(30), <2>2, <2>3
  <2>5. QED
    BY <2>4
<1>5. Is(w)
  BY <1>4
<1>6. \A first : Nearest(a, first, segment) = w[first]
  BY DEF Nearest
<1> HIDE DEF w
<1>7. w[n] = IF a.node[n].name = segment \/ LinkOf(a, n, segment) = 0 THEN n
             ELSE w[LinkOf(a, n, segment)]
  BY <1>5 DEF LinkOf
<1>8. QED
  BY <1>6, <1>7

\* What bionic walks to, step by step.
LEMMA SiblingStep ==
    ASSUME NEW a, Linked(a), NEW segment, NEW n \in DOMAIN a.node
    PROVE  /\ BionicSibling(a, 0, segment) = 0
           /\ n # 0 => BionicSibling(a, n, segment) =
                          IF a.node[n].name = segment THEN n
                          ELSE BionicSibling(a, LinkOf(a, n, segment), segment)
<1> DEFINE D == DOMAIN a.node \cup {0}
           Halt == {m \in D : m = 0 \/ a.node[m].name = segment}
           next == [m \in D |-> LinkOf(a, m, segment)]
           mu == [m \in D |-> IF m = 0 THEN 0 ELSE a.used - m]
           Is(g) == g = [m \in D |-> IF m = 0 \/ a.node[m].name = segment THEN m
                                     ELSE g[BionicNext(a.node[m], segment)]]
           w == CHOOSE g : Is(g)
<1>1. \A m \in D : m \notin Halt => next[m] \in D /\ mu[next[m]] < mu[m]
  <2> SUFFICES ASSUME NEW m \in D, m \notin Halt
               PROVE  next[m] \in D /\ mu[next[m]] < mu[m]
    OBVIOUS
  <2>1. m \in DOMAIN a.node /\ (next[m] = 0 \/ (next[m] \in D /\ next[m] > m))
    BY BranchIsALink DEF Linked, LinkOf
  <2>2. m \in Nat /\ next[m] \in Nat /\ a.used \in Nat /\ m < a.used /\ m # 0
    BY <2>1 DEF Linked
  <2>3. QED
    BY <2>1, <2>2
<1>2. mu \in [D -> 0 .. a.used] /\ a.used \in Nat
  BY DEF Linked
<1> HIDE DEF D, Halt, next, mu, Is, w
<1>3. \E g : IsWalk(g, D, Halt, next)
  BY <1>1, <1>2, WalkExists
<1> USE DEF D, Halt, next, mu, Is, w
<1>4. \E g : Is(g)
  <2>1. \A m \in D : next[m] = LinkOf(a, m, segment)
                    /\ (m \in Halt <=> m = 0 \/ a.node[m].name = segment)
    OBVIOUS
  <2> HIDE DEF D, Halt, next
  <2>2. PICK g : g = [m \in D |-> IF m \in Halt THEN m ELSE g[next[m]]]
    BY <1>3 DEF IsWalk
  <2>3. \A m \in D : (IF m \in Halt THEN m ELSE g[next[m]]) =
                       IF m = 0 \/ a.node[m].name = segment THEN m
                       ELSE g[BionicNext(a.node[m], segment)]
    BY <2>1, SameTurn
  <2>4. Is(g)
    BY ZenonT(30), <2>2, <2>3
  <2>5. QED
    BY <2>4
<1>5. Is(w)
  BY <1>4
<1>6. \A first : BionicSibling(a, first, segment) = w[first]
  BY DEF BionicSibling
<1> HIDE DEF w
<1>7. /\ w[0] = 0
      /\ n # 0 => w[n] = IF a.node[n].name = segment THEN n ELSE w[LinkOf(a, n, segment)]
  BY <1>5, SameTurn
<1>8. QED
  BY <1>6, <1>7

-----------------------------------------------------------------------------
(* The tree.                                                               *)

Recs == [name : Segments, prop : Nat, link : [Links -> Nat]]

\* par[n] is the node that n is a child of.
Parents(a, par) ==
    /\ par[0] = 0
    /\ \A n \in DOMAIN a.node : n # 0 => par[n] \in DOMAIN a.node /\ par[n] < n
    /\ \A n \in DOMAIN a.node :
          LET m == a.node[n].link["children"] IN m # 0 => par[m] = n
    /\ \A n \in DOMAIN a.node : \A l \in {"left", "right"} :
          LET m == a.node[n].link[l] IN n # 0 /\ m # 0 => par[m] = par[n]

\* The node of a segment among the children of n.
Child(a, n, segment) == BionicSibling(a, a.node[n].link["children"], segment)

\* Every node is found among the children of its parent.
Reached(a, par) ==
    \A n \in DOMAIN a.node : n # 0 => Child(a, par[n], a.node[n].name) = n

\* m is among the siblings of n, and it has the segment or misses the link to it.
StaysAt(a, par, segment, n, m) ==
    /\ m \in DOMAIN a.node /\ m # 0 /\ par[m] = par[n]
    /\ a.node[m].name = segment \/ LinkOf(a, m, segment) = 0

\* add stays among siblings, and ends at the segment or where it would hang.
LEMMA NearestStays ==
    ASSUME NEW a, Linked(a), NEW par, Parents(a, par), NEW segment
    PROVE  \A n \in DOMAIN a.node : n # 0 => StaysAt(a, par, segment, n, Nearest(a, n, segment))
<1> USE DEF StaysAt
<1> DEFINE D == DOMAIN a.node
           Good(m, n) == StaysAt(a, par, segment, n, m)
           G == {n \in D : n # 0 => Good(Nearest(a, n, segment), n)}
<1>1. a.used \in Nat /\ \A n \in D : n \in Nat /\ n <= a.used
  BY DEF Linked
<1>2. ASSUME NEW n \in D, \A m \in D : m > n => m \in G
      PROVE  n \in G
  <2> SUFFICES ASSUME n # 0 PROVE Good(Nearest(a, n, segment), n)
    OBVIOUS
  <2>1. CASE a.node[n].name = segment \/ LinkOf(a, n, segment) = 0
    <3>1. Nearest(a, n, segment) = n
      BY <2>1, NearestStep
    <3>2. QED
      BY <2>1, <3>1
  <2>2. CASE ~(a.node[n].name = segment \/ LinkOf(a, n, segment) = 0)
    <3>1. PICK m : m = LinkOf(a, n, segment)
      OBVIOUS
    <3>2. m \in D /\ m > n /\ m # 0 /\ par[m] = par[n]
      BY <2>2, <3>1, <1>1, BranchIsALink DEF Linked, Parents, LinkOf
    <3>3. Nearest(a, n, segment) = Nearest(a, m, segment)
      BY <2>2, <3>1, NearestStep
    <3>4. Good(Nearest(a, m, segment), m)
      BY <1>2, <3>2
    <3>5. QED
      BY <3>2, <3>3, <3>4
  <2>3. QED
    BY <2>1, <2>2
<1> HIDE DEF G
<1>3. \A n \in D : n \in G
  BY <1>1, <1>2, FromTheLast
<1>4. QED
  BY <1>3 DEF G

\* What bionic finds among siblings is one of them and has the segment.
LEMMA SiblingStays ==
    ASSUME NEW a, Linked(a), NEW par, Parents(a, par), NEW segment
    PROVE  \A n \in DOMAIN a.node : n # 0 =>
              LET m == BionicSibling(a, n, segment)
              IN  m = 0 \/ (m \in DOMAIN a.node /\ m # 0 /\ par[m] = par[n]
                               /\ a.node[m].name = segment)
<1> DEFINE D == DOMAIN a.node
           Good(m, n) == m = 0 \/ (m \in D /\ m # 0 /\ par[m] = par[n]
                                     /\ a.node[m].name = segment)
           G == {n \in D : n # 0 => Good(BionicSibling(a, n, segment), n)}
<1>1. a.used \in Nat /\ \A n \in D : n \in Nat /\ n <= a.used
  BY DEF Linked
<1>2. ASSUME NEW n \in D, \A m \in D : m > n => m \in G
      PROVE  n \in G
  <2> SUFFICES ASSUME n # 0 PROVE Good(BionicSibling(a, n, segment), n)
    OBVIOUS
  <2>1. PICK m : m = LinkOf(a, n, segment)
    OBVIOUS
  <2>2. BionicSibling(a, n, segment) = IF a.node[n].name = segment THEN n
                                       ELSE BionicSibling(a, m, segment)
    BY <2>1, SiblingStep
  <2>3. CASE a.node[n].name = segment
    BY <2>2, <2>3
  <2>4. CASE a.node[n].name # segment /\ m = 0
    BY <2>2, <2>4, SiblingStep
  <2>5. CASE a.node[n].name # segment /\ m # 0
    <3>1. m \in D /\ m > n /\ par[m] = par[n]
      BY <2>1, <2>5, <1>1, BranchIsALink DEF Linked, Parents, LinkOf
    <3>2. Good(BionicSibling(a, m, segment), m)
      BY <1>2, <2>5, <3>1
    <3>3. QED
      BY <2>2, <2>5, <3>1, <3>2
  <2>6. QED
    BY <2>3, <2>4, <2>5
<1> HIDE DEF G
<1>3. \A n \in D : n \in G
  BY <1>1, <1>2, FromTheLast
<1>4. QED
  BY <1>3 DEF G

\* Where add ends at the segment, bionic does; where it would hang, bionic finds nothing.
LEMMA NearestIsSibling ==
    ASSUME NEW a, Linked(a), NEW segment
    PROVE  \A n \in DOMAIN a.node : n # 0 =>
              LET m == Nearest(a, n, segment)
              IN  BionicSibling(a, n, segment) = IF a.node[m].name = segment THEN m ELSE 0
<1> DEFINE D == DOMAIN a.node
           Good(m, n) == BionicSibling(a, n, segment) = IF a.node[m].name = segment THEN m ELSE 0
           G == {n \in D : n # 0 => Good(Nearest(a, n, segment), n)}
<1>1. a.used \in Nat /\ \A n \in D : n \in Nat /\ n <= a.used
  BY DEF Linked
<1>2. ASSUME NEW n \in D, \A m \in D : m > n => m \in G
      PROVE  n \in G
  <2> SUFFICES ASSUME n # 0 PROVE Good(Nearest(a, n, segment), n)
    OBVIOUS
  <2>1. PICK m : m = LinkOf(a, n, segment)
    OBVIOUS
  <2>2. BionicSibling(a, n, segment) = IF a.node[n].name = segment THEN n
                                       ELSE BionicSibling(a, m, segment)
    BY <2>1, SiblingStep
  <2>3. Nearest(a, n, segment) = IF a.node[n].name = segment \/ m = 0 THEN n
                                 ELSE Nearest(a, m, segment)
    BY <2>1, NearestStep
  <2>4. CASE a.node[n].name = segment
    BY <2>2, <2>3, <2>4
  <2>5. CASE a.node[n].name # segment /\ m = 0
    BY <2>2, <2>3, <2>5, SiblingStep
  <2>6. CASE a.node[n].name # segment /\ m # 0
    <3>1. m \in D /\ m > n
      BY <2>1, <2>6, <1>1, BranchIsALink DEF Linked, LinkOf
    <3>2. Good(Nearest(a, m, segment), m)
      BY <1>2, <2>6, <3>1
    <3>3. QED
      BY <2>2, <2>3, <2>6, <3>2
  <2>7. QED
    BY <2>4, <2>5, <2>6
<1> HIDE DEF G
<1>3. \A n \in D : n \in G
  BY SMTT(30), <1>1, <1>2, FromTheLast
<1>4. QED
  BY <1>3 DEF G

-----------------------------------------------------------------------------
(* A new node.                                                             *)

\* b is a with a node of the segment that hangs on a link that led nowhere.
Hangs(a, b, from, link, segment) ==
    /\ from \in DOMAIN a.node /\ link \in Links /\ segment \in Segments
    /\ a.node[from].link[link] = 0
    /\ b.used \in Nat /\ b.used > a.used
    /\ DOMAIN b.node = DOMAIN a.node \cup {a.used}
    /\ b.node[a.used] = Node(segment)
    /\ \A n \in DOMAIN a.node : b.node[n].name = a.node[n].name /\ b.node[n].prop = a.node[n].prop
    /\ \A n \in DOMAIN a.node : \A l \in Links :
          b.node[n].link[l] = IF n = from /\ l = link THEN a.used ELSE a.node[n].link[l]
    /\ \A n \in DOMAIN a.node : n # from => b.node[n] = a.node[n]

\* Its links lead to nodes further on.
LEMMA HangsLinked ==
    ASSUME NEW a, Linked(a), NEW b, NEW from, NEW link, NEW segment,
           Hangs(a, b, from, link, segment)
    PROVE  Linked(b) /\ a.used \notin DOMAIN a.node /\ a.used # 0
<1>1. a.used \notin DOMAIN a.node /\ a.used # 0 /\ a.used \in Nat
  BY DEF Linked
<1>2. \A n \in DOMAIN b.node : n \in Nat /\ n < b.used
  BY DEF Linked, Hangs
<1>3. ASSUME NEW n \in DOMAIN b.node, NEW l \in Links
      PROVE  LET m == b.node[n].link[l] IN m = 0 \/ (m \in DOMAIN b.node /\ m > n)
  <2>1. CASE n = a.used
    BY <2>1, <1>3 DEF Hangs, Node
  <2>2. CASE n # a.used
    <3>1. n \in DOMAIN a.node /\ n < a.used
      BY <2>2 DEF Hangs, Linked
    <3>2. CASE n = from /\ l = link
      BY <3>1, <3>2, <1>1, <1>3 DEF Hangs
    <3>3. CASE ~(n = from /\ l = link)
      <4>1. b.node[n].link[l] = a.node[n].link[l]
        BY <3>1, <3>3, <1>3 DEF Hangs
      <4>2. QED
        BY <3>1, <4>1, <1>3 DEF Hangs, Linked
    <3>4. QED
      BY <3>2, <3>3
  <2>3. QED
    BY <2>1, <2>2
<1>4. 0 \in DOMAIN b.node /\ b.used \in Nat
  BY DEF Hangs, Linked
<1>5. QED
  BY <1>1, <1>2, <1>3, <1>4 DEF Linked

\* Nodes turn as before.
LEMMA HangsNext ==
    ASSUME NEW a, NEW b, NEW from, NEW link, NEW new, NEW segment,
           Hangs(a, b, from, link, new), NEW n \in DOMAIN a.node
    PROVE  /\ Branch(b, n, segment) = Branch(a, n, segment)
           /\ LinkOf(b, n, segment) = IF n = from /\ Branch(a, n, segment) = link THEN a.used
                                    ELSE LinkOf(a, n, segment)
<1>1. Branch(b, n, segment) = Branch(a, n, segment)
  BY DEF Hangs, Branch
<1>2. QED
  BY <1>1, BranchIsALink DEF Hangs, LinkOf

\* What bionic found it still finds.
LEMMA HangsKeeps ==
    ASSUME NEW a, Linked(a), NEW b, NEW from, NEW link, NEW new, NEW segment,
           Hangs(a, b, from, link, new)
    PROVE  \A n \in DOMAIN a.node : BionicSibling(a, n, segment) # 0 =>
              BionicSibling(b, n, segment) = BionicSibling(a, n, segment)
<1> DEFINE D == DOMAIN a.node
           Good(n) == BionicSibling(a, n, segment) # 0 =>
                         BionicSibling(b, n, segment) = BionicSibling(a, n, segment)
           G == {n \in D : Good(n)}
<1>1. a.used \in Nat /\ \A n \in D : n \in Nat /\ n <= a.used
  BY DEF Linked
<1>2. Linked(b)
  BY HangsLinked
<1>3. ASSUME NEW n \in D, \A m \in D : m > n => m \in G
      PROVE  n \in G
  <2> SUFFICES ASSUME BionicSibling(a, n, segment) # 0, n # 0 PROVE Good(n)
    BY SiblingStep
  <2>1. n \in DOMAIN b.node /\ b.node[n].name = a.node[n].name
    BY DEF Hangs
  <2>2. PICK m : m = LinkOf(a, n, segment)
    OBVIOUS
  <2>3. BionicSibling(a, n, segment) = IF a.node[n].name = segment THEN n
                                       ELSE BionicSibling(a, m, segment)
    BY <2>2, SiblingStep
  <2>4. BionicSibling(b, n, segment) = IF a.node[n].name = segment THEN n
                                       ELSE BionicSibling(b, LinkOf(b, n, segment), segment)
    BY <1>2, <2>1, SiblingStep
  <2>5. CASE a.node[n].name = segment
    BY <2>3, <2>4, <2>5
  <2>6. CASE a.node[n].name # segment
    <3>1. BionicSibling(a, m, segment) # 0 /\ BionicSibling(a, 0, segment) = 0
      BY <2>3, <2>6, SiblingStep
    <3>2. m # 0
      BY <3>1
    <3>3. m \in D /\ m > n
      BY <2>2, <3>2, BranchIsALink DEF Linked, LinkOf
    <3>4. ~(n = from /\ Branch(a, n, segment) = link)
      BY <2>2, <3>2 DEF Hangs, LinkOf
    <3>5. LinkOf(b, n, segment) = m
      BY <2>2, <3>4, HangsNext
    <3>6. Good(m)
      BY <1>3, <3>3
    <3>7. QED
      BY <2>3, <2>4, <2>6, <3>1, <3>5, <3>6
  <2>7. QED
    BY <2>5, <2>6
<1> HIDE DEF G
<1>4. \A n \in D : n \in G
  BY SMTT(30), <1>1, <1>3, FromTheLast
<1>5. QED
  BY <1>4 DEF G

\* bionic finds the new node where add ended.
LEMMA HangsReached ==
    ASSUME NEW a, Linked(a), NEW b, NEW from, NEW segment,
           a.node[from].name # segment,
           Hangs(a, b, from, Branch(a, from, segment), segment)
    PROVE  \A n \in DOMAIN a.node : n # 0 /\ Nearest(a, n, segment) = from =>
              BionicSibling(b, n, segment) = a.used
<1> DEFINE D == DOMAIN a.node
           Good(n) == n # 0 /\ Nearest(a, n, segment) = from =>
                         BionicSibling(b, n, segment) = a.used
           G == {n \in D : Good(n)}
<1>1. a.used \in Nat /\ \A n \in D : n \in Nat /\ n <= a.used
  BY DEF Linked
<1>2. Linked(b) /\ a.used # 0
  BY HangsLinked
<1>3. BionicSibling(b, a.used, segment) = a.used
  BY SMTT(60), <1>2, SiblingStep DEF Hangs, Node
<1>4. PICK link : link = Branch(a, from, segment) /\ Hangs(a, b, from, link, segment)
  OBVIOUS
<1>5. ASSUME NEW n \in D, \A m \in D : m > n => m \in G
      PROVE  n \in G
  <2> SUFFICES ASSUME n # 0, Nearest(a, n, segment) = from
               PROVE  BionicSibling(b, n, segment) = a.used
    OBVIOUS
  <2>1. n \in DOMAIN b.node /\ b.node[n].name = a.node[n].name
    BY DEF Hangs
  <2>2. PICK m : m = LinkOf(a, n, segment)
    OBVIOUS
  <2>3. Nearest(a, n, segment) = IF a.node[n].name = segment \/ m = 0 THEN n
                                 ELSE Nearest(a, m, segment)
    BY <2>2, NearestStep
  <2>4. a.node[n].name # segment
    BY <2>3
  <2>5. BionicSibling(b, n, segment) = BionicSibling(b, LinkOf(b, n, segment), segment)
    BY <1>2, <2>1, <2>4, SiblingStep
  <2>6. CASE n = from
    <3>1. LinkOf(b, n, segment) = a.used
      BY <1>4, <2>6, HangsNext
    <3>2. QED
      BY <1>3, <2>5, <3>1
  <2>7. CASE n # from
    <3>1. m # 0 /\ Nearest(a, m, segment) = from
      BY <2>3, <2>4, <2>7
    <3>2. m \in D /\ m > n
      BY <2>2, <3>1, BranchIsALink DEF Linked, LinkOf
    <3>3. LinkOf(b, n, segment) = m
      BY <1>4, <2>2, <2>7, HangsNext
    <3>4. Good(m)
      BY <1>5, <3>2
    <3>5. QED
      BY <2>5, <3>1, <3>3, <3>4
  <2>8. QED
    BY <2>6, <2>7
<1> HIDE DEF G
<1>6. \A n \in D : n \in G
  BY <1>1, <1>5, FromTheLast
<1>7. QED
  BY <1>6 DEF G

-----------------------------------------------------------------------------
(* The path of a node.                                                     *)

\* A tree whose nodes have these parents and paths.
Tree(a, par, path) ==
    /\ Linked(a) /\ Parents(a, par) /\ Reached(a, par)
    /\ \A n \in DOMAIN a.node : a.node[n] \in Recs /\ path[n] \in Seq(Segments)
    /\ path[0] = <<>>
    /\ \A n \in DOMAIN a.node : n # 0 => path[n] = Append(path[par[n]], a.node[n].name)

\* The last element of a sequence and those before it.
LEMMA AppendIsOneToOne ==
    ASSUME NEW S, NEW p \in Seq(S), NEW q \in Seq(S), NEW x, NEW y,
           Append(p, x) = Append(q, y)
    PROVE  p = q /\ x = y
<1>1. Len(p) = Len(q)
  <2>1. Len(Append(p, x)) = Len(p) + 1 /\ Len(Append(q, y)) = Len(q) + 1
    OBVIOUS
  <2>2. QED
    BY <2>1
<1>2. x = y
  <2>1. Append(p, x)[Len(p) + 1] = x /\ Append(q, y)[Len(q) + 1] = y
    OBVIOUS
  <2>2. QED
    BY <1>1, <2>1
<1>3. \A i \in 1 .. Len(p) : p[i] = q[i]
  <2>1. \A i \in 1 .. Len(p) : Append(p, x)[i] = p[i]
    OBVIOUS
  <2>2. \A i \in 1 .. Len(q) : Append(q, y)[i] = q[i]
    OBVIOUS
  <2>3. QED
    BY <1>1, <2>1, <2>2
<1>4. QED
  BY <1>1, <1>2, <1>3, SeqEqual

\* No sequence ends in an element and is empty.
LEMMA AppendIsNotEmpty ==
    ASSUME NEW S, NEW p \in Seq(S), NEW x
    PROVE  Append(p, x) # <<>>
<1>1. Len(Append(p, x)) = Len(p) + 1
  OBVIOUS
<1>2. Len(p) \in Nat /\ Len(<<>>) = 0
  OBVIOUS
<1>3. QED
  BY <1>1, <1>2

\* Two nodes have two paths.
LEMMA PathsDiffer ==
    ASSUME NEW a, NEW par, NEW path, Tree(a, par, path)
    PROVE  \A n \in DOMAIN a.node : \A m \in DOMAIN a.node : path[n] = path[m] => n = m
<1> DEFINE D == DOMAIN a.node
           G == {n \in D : \A m \in D : path[n] = path[m] => n = m}
<1>1. D \in SUBSET Nat
  BY DEF Tree, Linked
<1>2. \A n \in D : n # 0 => /\ par[n] \in D /\ par[n] < n
                            /\ path[par[n]] \in Seq(Segments)
                            /\ path[n] = Append(path[par[n]], a.node[n].name)
                            /\ path[n] # <<>>
                            /\ Child(a, par[n], a.node[n].name) = n
  BY AppendIsNotEmpty DEF Tree, Parents, Reached
<1>3. ASSUME NEW n \in D, \A m \in D : m < n => m \in G, NEW m \in D, path[n] = path[m]
      PROVE  n = m
  <2>1. CASE n = 0 \/ m = 0
    BY <1>2, <1>3, <2>1 DEF Tree
  <2>2. CASE n # 0 /\ m # 0
    <3>1. path[par[n]] = path[par[m]] /\ a.node[n].name = a.node[m].name
      <4>1. PICK p \in Seq(Segments), q \in Seq(Segments) :
               p = path[par[n]] /\ q = path[par[m]]
        BY <1>2, <2>2
      <4>2. PICK x, y : x = a.node[n].name /\ y = a.node[m].name
        OBVIOUS
      <4>3. Append(p, x) = Append(q, y)
        BY <1>2, <1>3, <2>2, <4>1, <4>2
      <4>4. p = q /\ x = y
        BY <4>3, AppendIsOneToOne
      <4>5. QED
        BY <4>1, <4>2, <4>4
    <3>2. par[n] = par[m]
      BY <1>2, <1>3, <2>2, <3>1
    <3>3. QED
      BY <1>2, <2>2, <3>1, <3>2
  <2>3. QED
    BY <2>1, <2>2
<1>4. \A n \in D : (\A m \in D : m < n => m \in G) => n \in G
  BY <1>3
<1> HIDE DEF G
<1>5. \A n \in D : n \in G
  BY <1>1, <1>4, FromTheFirst
<1>6. QED
  BY <1>5 DEF G

\* A link under a node, for a child with the segment: its first child, or where add ends.
Place(a, p, from, link, segment) ==
    \/ link = "children" /\ from = p /\ a.node[p].link["children"] = 0
    \/ /\ a.node[p].link["children"] # 0
       /\ from = Nearest(a, a.node[p].link["children"], segment)
       /\ a.node[from].name # segment
       /\ link = Branch(a, from, segment)

\* Nothing is found where a node is to hang, and the link leads nowhere.
LEMMA PlaceIsFree ==
    ASSUME NEW a, NEW par, Linked(a), Parents(a, par), NEW p \in DOMAIN a.node,
           NEW from, NEW link, NEW segment, Place(a, p, from, link, segment)
    PROVE  /\ from \in DOMAIN a.node /\ link \in Links /\ a.node[from].link[link] = 0
           /\ Child(a, p, segment) = 0
           /\ link # "children" => from # 0 /\ par[from] = p
<1>1. PICK c : c = a.node[p].link["children"]
  OBVIOUS
<1>2. CASE c = 0
  <2>1. link = "children" /\ from = p
    BY <1>1, <1>2 DEF Place
  <2>2. BionicSibling(a, 0, segment) = 0
    BY SiblingStep
  <2>3. QED
    BY <1>1, <1>2, <2>1, <2>2 DEF Links, Child
<1>3. CASE c # 0
  <2>1. c \in DOMAIN a.node /\ par[c] = p
    BY <1>1, <1>3 DEF Linked, Parents, Links
  <2>2. from = Nearest(a, c, segment) /\ a.node[from].name # segment
        /\ link = Branch(a, from, segment)
    BY <1>1, <1>3 DEF Place
  <2>3. /\ from \in DOMAIN a.node /\ from # 0 /\ par[from] = par[c]
        /\ LinkOf(a, from, segment) = 0
    BY <1>3, <2>1, <2>2, NearestStays DEF StaysAt
  <2>4. BionicSibling(a, c, segment) = 0
    BY <1>3, <2>1, <2>2, NearestIsSibling
  <2>5. QED
    BY <1>1, <2>1, <2>2, <2>3, <2>4, BranchIsALink DEF LinkOf, Child
<1>4. QED
  BY <1>2, <1>3

\* With the node in its place every node is still found, and so is the new one.
LEMMA PlaceIsFound ==
    ASSUME NEW a, NEW par, Linked(a), Parents(a, par), Reached(a, par),
           NEW p \in DOMAIN a.node,
           NEW b, NEW from, NEW link, NEW segment, Place(a, p, from, link, segment),
           Hangs(a, b, from, link, segment)
    PROVE  /\ Child(b, p, segment) = a.used
           /\ \A n \in DOMAIN a.node : n # 0 => Child(b, par[n], a.node[n].name) = n
<1>1. Linked(b) /\ a.used # 0 /\ a.used \notin DOMAIN a.node
  BY HangsLinked
<1>2. link \in Links /\ from \in DOMAIN a.node /\ "children" \in Links
  BY DEF Hangs, Links
<1>3. Child(b, p, segment) = a.used
  <2>1. CASE link = "children"
    <3>1. from = p
      BY <2>1, BranchIsALink DEF Place
    <3>2. b.node[p].link["children"] = a.used
      BY <1>2, <2>1, <3>1 DEF Hangs
    <3>3. a.used \in DOMAIN b.node /\ b.node[a.used].name = segment
      BY DEF Hangs, Node
    <3>4. BionicSibling(b, a.used, segment) = a.used
      BY <1>1, <3>3, SiblingStep
    <3>5. QED
      BY <3>2, <3>4 DEF Child
  <2>2. CASE link # "children"
    <3>1. PICK c : c = a.node[p].link["children"]
      OBVIOUS
    <3>2. /\ c # 0 /\ from = Nearest(a, c, segment) /\ a.node[from].name # segment
          /\ link = Branch(a, from, segment)
      BY <2>2, <3>1 DEF Place
    <3>3. c \in DOMAIN a.node
      BY <1>2, <3>1, <3>2 DEF Linked
    <3>4. b.node[p].link["children"] = c
      BY <1>2, <2>2, <3>1 DEF Hangs
    <3>5. BionicSibling(b, c, segment) = a.used
      BY <3>2, <3>3, HangsReached
    <3>6. QED
      BY <3>4, <3>5 DEF Child
  <2>3. QED
    BY <2>1, <2>2
<1>4. ASSUME NEW n \in DOMAIN a.node, n # 0
      PROVE  Child(b, par[n], a.node[n].name) = n
  <2>1. PICK c, t : c = a.node[par[n]].link["children"] /\ t = a.node[n].name
    OBVIOUS
  <2>2. BionicSibling(a, c, t) = n /\ par[n] \in DOMAIN a.node
    BY <1>4, <2>1 DEF Reached, Child, Parents
  <2>3. c # 0
    <3>1. BionicSibling(a, 0, t) = 0
      BY SiblingStep
    <3>2. QED
      BY <1>4, <2>2, <3>1
  <2>4. c \in DOMAIN a.node
    BY <1>2, <2>1, <2>2, <2>3 DEF Linked
  <2>5. a.node[from].link[link] = 0
    BY DEF Hangs
  <2>6. b.node[par[n]].link["children"] = c
    BY <1>2, <2>1, <2>2, <2>3, <2>5 DEF Hangs
  <2>7. BionicSibling(b, c, t) = n
    BY <1>4, <2>2, <2>4, HangsKeeps
  <2>8. QED
    BY <2>1, <2>6, <2>7 DEF Child
<1>5. QED
  BY <1>3, <1>4

\* No node has the path of the one that is to hang there.
LEMMA PlaceIsNew ==
    ASSUME NEW a, NEW par, NEW path, Tree(a, par, path), NEW p \in DOMAIN a.node,
           NEW from, NEW link, NEW segment, Place(a, p, from, link, segment)
    PROVE  \A n \in DOMAIN a.node : path[n] # Append(path[p], segment)
<1> DEFINE D == DOMAIN a.node
<1>1. /\ Linked(a) /\ Parents(a, par) /\ Reached(a, par)
      /\ path[0] = <<>> /\ 0 \in D
      /\ \A n \in D : path[n] \in Seq(Segments)
      /\ \A n \in D : n # 0 => path[n] = Append(path[par[n]], a.node[n].name)
  BY DEF Tree, Linked
<1>2. Child(a, p, segment) = 0
  BY <1>1, PlaceIsFree
<1>3. ASSUME NEW n \in D, path[n] = Append(path[p], segment)
      PROVE  FALSE
  <2>1. n # 0
    BY <1>1, <1>3, AppendIsNotEmpty
  <2>2. par[n] \in D /\ path[n] = Append(path[par[n]], a.node[n].name)
    BY <1>1, <2>1 DEF Parents
  <2>3. path[par[n]] = path[p] /\ a.node[n].name = segment
    <3>1. PICK q \in Seq(Segments), r \in Seq(Segments) : q = path[par[n]] /\ r = path[p]
      BY <1>1, <2>2
    <3>2. PICK x : x = a.node[n].name
      OBVIOUS
    <3>3. Append(q, x) = Append(r, segment)
      BY <1>3, <2>2, <3>1, <3>2
    <3>4. q = r /\ x = segment
      BY <3>3, AppendIsOneToOne
    <3>5. QED
      BY <3>1, <3>2, <3>4
  <2>4. par[n] = p
    BY <2>2, <2>3, PathsDiffer
  <2>5. Child(a, p, segment) = n
    BY <1>1, <2>1, <2>3, <2>4 DEF Reached
  <2>6. QED
    BY <1>2, <2>1, <2>5
<1>4. QED
  BY <1>3

\* The tree has the new path and the others as before.
LEMMA PlaceGrows ==
    ASSUME NEW a, NEW par, NEW path, Tree(a, par, path), NEW p \in DOMAIN a.node,
           NEW b, NEW from, NEW link, NEW segment, Place(a, p, from, link, segment),
           Hangs(a, b, from, link, segment),
           \A n \in DOMAIN b.node : b.node[n] \in Recs,
           NEW par2, NEW path2,
           par2[a.used] = p, path2[a.used] = Append(path[p], segment),
           \A n \in DOMAIN a.node : par2[n] = par[n] /\ path2[n] = path[n]
    PROVE  Tree(b, par2, path2)
<1> DEFINE D == DOMAIN a.node
           u == a.used
<1>1. /\ Linked(a) /\ Parents(a, par) /\ Reached(a, par)
      /\ path[0] = <<>> /\ 0 \in D
      /\ \A n \in D : path[n] \in Seq(Segments)
      /\ \A n \in D : n # 0 => path[n] = Append(path[par[n]], a.node[n].name)
  BY DEF Tree, Linked
<1>2. /\ Linked(b) /\ u \notin D /\ u # 0 /\ u \in Nat
      /\ DOMAIN b.node = D \cup {u} /\ b.node[u].name = segment
      /\ segment \in Segments
      /\ \A l \in Links : b.node[u].link[l] = 0
  <2>1. Linked(b) /\ u \notin D /\ u # 0
    BY <1>1, HangsLinked
  <2>2. u \in Nat
    BY <1>1 DEF Linked
  <2>3. DOMAIN b.node = D \cup {u} /\ b.node[u] = Node(segment) /\ segment \in Segments
    BY DEF Hangs
  <2>4. b.node[u].name = segment /\ \A l \in Links : b.node[u].link[l] = 0
    BY <2>3 DEF Node
  <2>5. QED
    BY <2>1, <2>2, <2>3, <2>4
<1>3. /\ from \in D /\ link \in Links /\ a.node[from].link[link] = 0
      /\ link # "children" => from # 0 /\ par[from] = p
  BY <1>1, PlaceIsFree
<1>4. \A n \in D : b.node[n].name = a.node[n].name
  BY DEF Hangs
<1>5. Reached(b, par2)
  <2>1. /\ Child(b, p, segment) = u
        /\ \A n \in D : n # 0 => Child(b, par[n], a.node[n].name) = n
    BY <1>1, PlaceIsFound
  <2>2. QED
    BY <1>2, <1>4, <2>1 DEF Reached
<1>6. Parents(b, par2)
  <2>1. par2[0] = 0
    BY <1>1 DEF Parents
  <2>2. \A n \in DOMAIN b.node : n # 0 => par2[n] \in DOMAIN b.node /\ par2[n] < n
    <3>1. p < u
      BY <1>1 DEF Linked
    <3>2. QED
      BY <1>1, <1>2, <3>1 DEF Parents
  <2>3. ASSUME NEW n \in DOMAIN b.node, NEW l \in Links,
               NEW m, m = b.node[n].link[l], m # 0
        PROVE  /\ l = "children" => par2[m] = n
               /\ l # "children" /\ n # 0 => par2[m] = par2[n]
    <3>1. n \in D
      BY <1>2, <2>3
    <3>2. CASE n = from /\ l = link
      <4>1. m = u /\ par2[m] = p
        BY <2>3, <3>1, <3>2 DEF Hangs
      <4>2. l = "children" => n = p
        BY <3>2, BranchIsALink DEF Place
      <4>3. l # "children" => par2[n] = p
        BY <1>3, <3>1, <3>2
      <4>4. QED
        BY <4>1, <4>2, <4>3
    <3>3. CASE ~(n = from /\ l = link)
      <4>1. m = a.node[n].link[l]
        BY <2>3, <3>1, <3>3 DEF Hangs
      <4>2. m \in D
        BY <1>1, <2>3, <3>1, <4>1 DEF Linked
      <4>3. /\ l = "children" => par[m] = n
            /\ l # "children" /\ n # 0 => par[m] = par[n]
        BY <1>1, <2>3, <3>1, <4>1 DEF Parents, Links
      <4>4. QED
        BY <3>1, <4>2, <4>3
    <3>4. QED
      BY <3>2, <3>3
  <2>4. \A n \in DOMAIN b.node :
           LET m == b.node[n].link["children"] IN m # 0 => par2[m] = n
    BY <2>3 DEF Links
  <2>5. \A n \in DOMAIN b.node : \A l \in {"left", "right"} :
           LET m == b.node[n].link[l] IN n # 0 /\ m # 0 => par2[m] = par2[n]
    BY <2>3 DEF Links
  <2>6. QED
    BY <2>1, <2>2, <2>4, <2>5 DEF Parents
<1>7. \A n \in DOMAIN b.node : path2[n] \in Seq(Segments)
  <2>1. Append(path[p], segment) \in Seq(Segments)
    BY <1>1, <1>2
  <2>2. QED
    BY <1>1, <1>2, <2>1
<1>8. \A n \in DOMAIN b.node : n # 0 => path2[n] = Append(path2[par2[n]], b.node[n].name)
  <2>1. ASSUME NEW n \in D, n # 0
        PROVE  path2[n] = Append(path2[par2[n]], b.node[n].name)
    <3>1. par[n] \in D
      BY <1>1, <2>1 DEF Parents
    <3>2. QED
      BY <1>1, <1>4, <2>1, <3>1
  <2>2. path2[u] = Append(path2[par2[u]], b.node[u].name)
    BY <1>2
  <2>3. QED
    BY <1>2, <2>1, <2>2
<1>9. Tree(b, par2, path2)
  <2>1. path2[0] = <<>>
    BY <1>1
  <2>2. QED
    BY <1>2, <1>5, <1>6, <1>7, <1>8, <2>1 DEF Tree
<1>10. QED
  BY <1>9

-----------------------------------------------------------------------------
(* Sums.                                                                   *)

Some(s) == CHOOSE x \in s : TRUE

\* it[s] is the sum of f over the subset s of S, element by element.
IsSum(it, f, S) ==
    it = [s \in SUBSET S |-> IF s = {} THEN 0 ELSE f[Some(s)] + it[s \ {Some(s)}]]

\* The sum over a finite set is defined.
LEMMA SumExists ==
    ASSUME NEW f, NEW S, IsFiniteSet(S)
    PROVE  \E it : IsSum(it, f, S)
<1> DEFINE Below(j) == {s \in SUBSET S : Cardinality(s) < j}
           Is(g, j) == g = [s \in Below(j) |->
                              IF s = {} THEN 0 ELSE f[Some(s)] + g[s \ {Some(s)}]]
           J == {j \in Nat : \E g : Is(g, j)}
<1>1. \A s \in SUBSET S : IsFiniteSet(s) /\ Cardinality(s) \in Nat
  BY FS_Subset, FS_CardinalityType
<1>2. \A s \in SUBSET S : s # {} =>
         s \ {Some(s)} \in SUBSET S /\ Cardinality(s \ {Some(s)}) = Cardinality(s) - 1
  BY <1>1, FS_RemoveElement DEF Some
<1>3. 0 \in J
  <2>1. Below(0) = {}
    BY <1>1
  <2>2. Is([s \in {} |-> s], 0)
    BY <2>1
  <2>3. QED
    BY <2>2
<1>4. ASSUME NEW j \in Nat, j \in J
      PROVE  j + 1 \in J
  <2>1. PICK g : Is(g, j)
    BY <1>4
  <2> DEFINE h == [s \in Below(j + 1) |->
                     IF s = {} THEN 0 ELSE f[Some(s)] + g[s \ {Some(s)}]]
  <2>2. \A s \in Below(j) : g[s] = IF s = {} THEN 0 ELSE f[Some(s)] + g[s \ {Some(s)}]
    BY <2>1
  <2>3. \A s \in Below(j) : s \in Below(j + 1)
    BY <1>1
  <2>4. \A s \in Below(j) : h[s] = g[s]
    BY <2>2, <2>3
  <2>5. \A s \in Below(j + 1) : s # {} => s \ {Some(s)} \in Below(j)
    BY <1>1, <1>2
  <2> HIDE DEF Below
  <2>6. \A s \in Below(j + 1) :
          (IF s = {} THEN 0 ELSE f[Some(s)] + g[s \ {Some(s)}]) =
              IF s = {} THEN 0 ELSE f[Some(s)] + h[s \ {Some(s)}]
    BY <2>4, <2>5
  <2>7. Is(h, j + 1)
    BY ZenonT(30), <2>6
  <2> HIDE DEF Is, h
  <2>8. QED
    BY <2>7
<1>5. PICK k \in Nat : Below(k) = SUBSET S
  <2>1. Cardinality(S) + 1 \in Nat
    BY FS_CardinalityType
  <2>2. \A s \in SUBSET S : Cardinality(s) <= Cardinality(S)
    BY FS_Subset
  <2>3. \A s \in SUBSET S : Cardinality(s) < Cardinality(S) + 1
    BY <1>1, <2>1, <2>2, FS_CardinalityType
  <2>4. Below(Cardinality(S) + 1) = SUBSET S
    BY <2>3
  <2> HIDE DEF Below
  <2>5. QED
    BY <2>1, <2>4
<1> HIDE DEF J, Below
<1>6. k \in J
  BY <1>3, <1>4, Induction
<1>7. QED
  BY <1>5, <1>6 DEF J, IsSum

\* SumFunction is that sum.
LEMMA SumFunctionIsSum ==
    ASSUME NEW f, IsFiniteSet(DOMAIN f)
    PROVE  \E it : IsSum(it, f, DOMAIN f) /\ SumFunction(f) = it[DOMAIN f]
<1> DEFINE S == DOMAIN f
           Is(g) == g = [s \in SUBSET S |-> IF s = {} THEN 0
                                           ELSE LET x == CHOOSE x \in s : TRUE
                                                IN  f[x] + g[s \ {x}]]
           it == CHOOSE g : Is(g)
<1>1. SumFunction(f) = it[S]
  BY DEF SumFunction, SumFunctionOnSet, FoldFunctionOnSet, MapThenFoldSet
<1>2. PICK g : IsSum(g, f, S)
  BY SumExists
<1>3. Is(g)
  BY <1>2 DEF IsSum, Some
<1>4. Is(it)
  BY <1>3
<1> HIDE DEF it
<1>5. IsSum(it, f, S)
  BY <1>4 DEF IsSum, Some
<1>6. QED
  BY <1>1, <1>5

Additive(it, f, S) ==
    \A s \in SUBSET S : it[s] \in Nat /\ \A x \in s : it[s] = f[x] + it[s \ {x}]

\* Which element comes first does not matter.
LEMMA SumFacts ==
    ASSUME NEW f, NEW S, IsFiniteSet(S), \A x \in S : f[x] \in Nat, NEW it, IsSum(it, f, S)
    PROVE  Additive(it, f, S)
<1> DEFINE Good(s) == it[s] \in Nat /\ \A x \in s : it[s] = f[x] + it[s \ {x}]
           F == {s \in SUBSET S : ~Good(s)}
<1> SUFFICES ASSUME F # {} PROVE FALSE
  BY DEF Additive
<1>1. PICK s \in F : \A u \in F : u \subseteq s => u = s
  <2>1. F \subseteq SUBSET S
    OBVIOUS
  <2> HIDE DEF F
  <2>2. QED
    BY <2>1, MinimalSubset
<1>2. \A u \in SUBSET S : u \subseteq s /\ u # s => Good(u)
  BY <1>1
<1>3. it[s] = IF s = {} THEN 0 ELSE f[Some(s)] + it[s \ {Some(s)}]
  BY <1>1 DEF IsSum
<1>4. PICK y : y = Some(s)
  OBVIOUS
<1>5. s # {} => y \in s /\ it[s] = f[y] + it[s \ {y}]
  BY <1>3, <1>4 DEF Some
<1>6. \A x \in s : s \ {x} \in SUBSET S /\ s \ {x} # s /\ s \ {x} \subseteq s /\ f[x] \in Nat
  BY <1>1
<1>7. \A x \in s : it[s \ {x}] \in Nat
  BY <1>2, <1>6
<1>8. it[s] \in Nat
  BY <1>3, <1>5, <1>6, <1>7
<1>9. ASSUME NEW x \in s PROVE it[s] = f[x] + it[s \ {x}]
  <2>1. CASE x = y
    BY <1>5, <2>1
  <2>2. CASE x # y
    <3>1. y \in s /\ x \in s \ {y} /\ y \in s \ {x}
      BY <1>5, <2>2
    <3>2. it[s \ {y}] = f[x] + it[(s \ {y}) \ {x}]
      BY <1>2, <1>6, <3>1
    <3>3. it[s \ {x}] = f[y] + it[(s \ {x}) \ {y}]
      BY <1>2, <1>6, <3>1
    <3>4. (s \ {x}) \ {y} = (s \ {y}) \ {x}
      OBVIOUS
    <3>5. PICK r : r = it[(s \ {y}) \ {x}]
      OBVIOUS
    <3>6. r \in Nat
      BY <1>2, <1>6, <3>1, <3>5
    <3>7. f[x] \in Nat /\ f[y] \in Nat /\ it[s] = f[y] + it[s \ {y}]
      BY <1>5, <1>6, <3>1
    <3>8. it[s \ {y}] = f[x] + r /\ it[s \ {x}] = f[y] + r
      BY <3>2, <3>3, <3>4, <3>5
    <3>9. QED
      BY <3>6, <3>7, <3>8
  <2>3. QED
    BY <2>1, <2>2
<1>10. QED
  BY <1>1, <1>8, <1>9

\* g is f with one more element.
OneMore(f, g, S, x) ==
    /\ IsFiniteSet(S) /\ x \notin S
    /\ DOMAIN f = S /\ DOMAIN g = S \cup {x}
    /\ \A y \in S : f[y] \in Nat /\ g[y] = f[y]
    /\ g[x] \in Nat

\* One more element adds its value.
LEMMA SumOneMore ==
    ASSUME NEW S, NEW x, NEW f, NEW g, OneMore(f, g, S, x)
    PROVE  SumFunction(f) \in Nat /\ SumFunction(g) = SumFunction(f) + g[x]
<1> USE DEF OneMore
<1>1. PICK it : IsSum(it, f, S) /\ SumFunction(f) = it[S]
  BY SumFunctionIsSum
<1>2. IsFiniteSet(S \cup {x})
  BY FS_AddElement
<1>3. PICK is : IsSum(is, g, S \cup {x}) /\ SumFunction(g) = is[S \cup {x}]
  BY <1>2, SumFunctionIsSum
<1>4. \A s \in SUBSET S : it[s] \in Nat /\ \A y \in s : it[s] = f[y] + it[s \ {y}]
  <2>1. Additive(it, f, S)
    BY <1>1, SumFacts
  <2>2. QED
    BY <2>1 DEF Additive
<1>5. \A s \in SUBSET (S \cup {x}) : is[s] \in Nat /\ \A y \in s : is[s] = g[y] + is[s \ {y}]
  <2>1. \A y \in S \cup {x} : g[y] \in Nat
    OBVIOUS
  <2>2. Additive(is, g, S \cup {x})
    BY <1>2, <1>3, <2>1, SumFacts
  <2>3. QED
    BY <2>2 DEF Additive
<1>6. \A s \in SUBSET S : is[s] = it[s]
  <2> DEFINE F == {s \in SUBSET S : is[s] # it[s]}
  <2> SUFFICES ASSUME F # {} PROVE FALSE
    OBVIOUS
  <2>1. PICK s \in F : \A u \in F : u \subseteq s => u = s
    <3>1. F \subseteq SUBSET S
      OBVIOUS
    <3> HIDE DEF F
    <3>2. QED
      BY <3>1, MinimalSubset
  <2>2. CASE s = {}
    BY <1>1, <1>3, <2>1, <2>2 DEF IsSum
  <2>3. CASE s # {}
    <3>1. PICK y \in s : TRUE
      BY <2>3
    <3>2. y \in S /\ s \ {y} \in SUBSET S /\ s \ {y} \subseteq s /\ s \ {y} # s
          /\ s \in SUBSET S /\ s \in SUBSET (S \cup {x})
      BY <2>1
    <3>3. is[s \ {y}] = it[s \ {y}]
      BY <2>1, <3>2
    <3>4. is[s] = g[y] + is[s \ {y}] /\ it[s] = f[y] + it[s \ {y}]
      BY <1>4, <1>5, <3>2
    <3>5. is[s] = it[s]
      BY <3>2, <3>3, <3>4
    <3>6. QED
      BY <2>1, <3>5
  <2>4. QED
    BY <2>2, <2>3
<1>7. is[S \cup {x}] = g[x] + is[(S \cup {x}) \ {x}]
  BY <1>5
<1>8. (S \cup {x}) \ {x} = S
  OBVIOUS
<1>9. is[S] = it[S] /\ it[S] \in Nat
  BY <1>4, <1>6
<1>10. QED
  BY <1>1, <1>3, <1>7, <1>8, <1>9

\* No element adds nothing, and a sum is a number.
LEMMA SumOfNone ==
    ASSUME NEW f, DOMAIN f = {}
    PROVE  SumFunction(f) = 0
<1>1. IsFiniteSet(DOMAIN f)
  BY FS_EmptySet
<1>2. PICK it : IsSum(it, f, DOMAIN f) /\ SumFunction(f) = it[DOMAIN f]
  BY <1>1, SumFunctionIsSum
<1>3. QED
  BY <1>2 DEF IsSum

\* A sum of numbers is a number.
LEMMA SumIsNat ==
    ASSUME NEW f, IsFiniteSet(DOMAIN f), \A x \in DOMAIN f : f[x] \in Nat
    PROVE  SumFunction(f) \in Nat
<1>1. PICK it : IsSum(it, f, DOMAIN f) /\ SumFunction(f) = it[DOMAIN f]
  BY SumFunctionIsSum
<1>2. Additive(it, f, DOMAIN f)
  BY <1>1, SumFacts
<1>3. QED
  BY <1>1, <1>2 DEF Additive

-----------------------------------------------------------------------------
(* How large an arena has to be.                                           *)

Paths == Seq(Segments) \ {<<>>}

\* A node for each of the paths P, and an entry for each of the properties I.
SizeOf(P, I) ==
    PROP_BT_SIZE + SumFunction([p \in P |-> NodeSize(Last(p))])
                 + SumFunction([name \in DOMAIN I |-> InfoSize(name, I[name])])

Registry(P, I) ==
    /\ IsFiniteSet(P) /\ P \subseteq Paths
    /\ IsFiniteSet(DOMAIN I) /\ DOMAIN I \subseteq P
    /\ \A name \in DOMAIN I : I[name].len \in Nat

\* alloc rounds up.
LEMMA AlignedFacts == \A size \in Nat : Aligned(size) \in Nat /\ Aligned(size) >= size
BY DEF Aligned

\* Every node takes room.
LEMMA NodeSizeFacts ==
    ASSUME NEW segment \in Segments
    PROVE  NodeSize(segment) \in Nat /\ NodeSize(segment) > 0
<1>1. PROP_BT_SIZE + segment.len + 1 \in Nat /\ PROP_BT_SIZE + segment.len + 1 > 0
  BY DEF Segments, PROP_BT_SIZE
<1>2. PICK size \in Nat : size = PROP_BT_SIZE + segment.len + 1 /\ size > 0
  BY <1>1
<1>3. Aligned(size) \in Nat /\ Aligned(size) >= size
  BY AlignedFacts
<1>4. NodeSize(segment) = Aligned(size)
  BY <1>2 DEF NodeSize
<1>5. QED
  BY <1>2, <1>3, <1>4

\* And so does every property.
LEMMA InfoSizeFacts ==
    ASSUME NEW name \in Paths, NEW value, value.len \in Nat
    PROVE  InfoSize(name, value) \in Nat /\ InfoSize(name, value) > 0
<1>1. Len(name) \in Nat /\ Len(name) > 0 /\ DOMAIN name = 1 .. Len(name)
      /\ \A i \in DOMAIN name : name[i] \in Segments
  BY EmptySeq DEF Paths
<1>2. PICK f : f = [i \in DOMAIN name |-> name[i].len]
  OBVIOUS
<1>3. IsFiniteSet(DOMAIN f) /\ \A i \in DOMAIN f : f[i] \in Nat
  BY <1>1, <1>2, FS_Interval DEF Segments
<1>4. SumFunction(f) \in Nat
  BY <1>3, SumIsNat
<1>5. NameLength(name) = Len(name) - 1 + SumFunction(f)
  BY <1>2 DEF NameLength
<1>6. PICK size \in Nat : size = PROP_INFO_SIZE + NameLength(name) + 1 /\ size > 0
  BY <1>1, <1>4, <1>5 DEF PROP_INFO_SIZE
<1>7. PICK rest \in Nat : rest = value.len + 1
  OBVIOUS
<1>8. Aligned(size) \in Nat /\ Aligned(size) >= size /\ Aligned(rest) \in Nat
  BY AlignedFacts
<1>9. InfoSize(name, value) = Aligned(size) + IF value.len >= PROP_VALUE_MAX THEN Aligned(rest) ELSE 0
  BY <1>6, <1>7 DEF InfoSize
<1>10. QED
  BY <1>6, <1>8, <1>9

\* The last of a path is a segment.
LEMMA LastFacts ==
    ASSUME NEW p \in Paths
    PROVE  Last(p) \in Segments
<1>1. Len(p) \in Nat /\ Len(p) > 0
  BY EmptySeq DEF Paths
<1>2. p[Len(p)] \in Segments
  BY <1>1 DEF Paths
<1>3. QED
  BY <1>2 DEF Last

\* The two sums are numbers.
LEMMA SizeParts ==
    ASSUME NEW P, NEW I, Registry(P, I)
    PROVE  /\ SumFunction([p \in P |-> NodeSize(Last(p))]) \in Nat
           /\ SumFunction([name \in DOMAIN I |-> InfoSize(name, I[name])]) \in Nat
           /\ SizeOf(P, I) \in Nat /\ SizeOf(P, I) >= PROP_BT_SIZE
<1>1. PICK f : f = [p \in P |-> NodeSize(Last(p))]
  OBVIOUS
<1>2. PICK g : g = [name \in DOMAIN I |-> InfoSize(name, I[name])]
  OBVIOUS
<1>3. SumFunction(f) \in Nat
  <2>1. DOMAIN f = P /\ \A p \in P : f[p] \in Nat
    BY <1>1, LastFacts, NodeSizeFacts DEF Registry
  <2>2. QED
    BY <2>1, SumIsNat DEF Registry
<1>4. SumFunction(g) \in Nat
  <2>1. DOMAIN g = DOMAIN I /\ \A name \in DOMAIN I : g[name] \in Nat
    BY <1>2, InfoSizeFacts DEF Registry
  <2>2. QED
    BY <2>1, SumIsNat DEF Registry
<1>5. SizeOf(P, I) = PROP_BT_SIZE + SumFunction(f) + SumFunction(g)
  BY <1>1, <1>2 DEF SizeOf
<1>6. QED
  BY <1>1, <1>2, <1>3, <1>4, <1>5 DEF PROP_BT_SIZE

LargerByNode(P, I, q) ==
    Registry(P \cup {q}, I) /\ SizeOf(P \cup {q}, I) = SizeOf(P, I) + NodeSize(Last(q))

LargerByInfo(P, I, J, name, value) ==
    Registry(P, J) /\ SizeOf(P, J) = SizeOf(P, I) + InfoSize(name, value)

\* One more path takes its node.
LEMMA SizeOfOneMorePath ==
    ASSUME NEW P, NEW I, Registry(P, I), NEW q \in Paths, q \notin P
    PROVE  LargerByNode(P, I, q)
<1>1. PICK f : f = [p \in P |-> NodeSize(Last(p))]
  OBVIOUS
<1>2. PICK g : g = [p \in P \cup {q} |-> NodeSize(Last(p))]
  OBVIOUS
<1>3. PICK h : h = SumFunction([name \in DOMAIN I |-> InfoSize(name, I[name])])
  OBVIOUS
<1>4. /\ DOMAIN f = P /\ DOMAIN g = P \cup {q} /\ g[q] = NodeSize(Last(q))
      /\ \A p \in P : f[p] \in Nat /\ g[p] = f[p]
      /\ g[q] \in Nat
  BY <1>1, <1>2, LastFacts, NodeSizeFacts DEF Registry
<1>5. SumFunction(f) \in Nat /\ SumFunction(g) = SumFunction(f) + g[q]
  <2>1. OneMore(f, g, P, q)
    BY <1>4 DEF OneMore, Registry
  <2>2. QED
    BY <2>1, SumOneMore
<1>6. h \in Nat
  BY <1>3, SizeParts
<1>7. SizeOf(P, I) = PROP_BT_SIZE + SumFunction(f) + h
  BY <1>1, <1>3 DEF SizeOf
<1>8. SizeOf(P \cup {q}, I) = PROP_BT_SIZE + SumFunction(g) + h
  BY <1>2, <1>3 DEF SizeOf
<1>9. Registry(P \cup {q}, I)
  BY FS_AddElement DEF Registry
<1>10. QED
  BY <1>4, <1>5, <1>6, <1>7, <1>8, <1>9 DEF PROP_BT_SIZE, LargerByNode

\* One more property takes its entry.
LEMMA SizeOfOneMoreName ==
    ASSUME NEW P, NEW I, Registry(P, I), NEW name \in P, name \notin DOMAIN I,
           NEW value, value.len \in Nat, NEW J, J = With(I, name, value)
    PROVE  LargerByInfo(P, I, J, name, value)
<1>1. PICK f : f = [n \in DOMAIN I |-> InfoSize(n, I[n])]
  OBVIOUS
<1>2. PICK g : g = [n \in DOMAIN J |-> InfoSize(n, J[n])]
  OBVIOUS
<1>3. PICK h : h = SumFunction([p \in P |-> NodeSize(Last(p))])
  OBVIOUS
<1>4. /\ DOMAIN J = DOMAIN I \cup {name} /\ J[name] = value
      /\ \A n \in DOMAIN I : J[n] = I[n]
  BY DEF With
<1>5. name \in Paths
  BY DEF Registry
<1>6. /\ DOMAIN f = DOMAIN I /\ DOMAIN g = DOMAIN I \cup {name}
      /\ g[name] = InfoSize(name, value)
      /\ \A n \in DOMAIN I : f[n] \in Nat /\ g[n] = f[n]
      /\ g[name] \in Nat
  BY <1>1, <1>2, <1>4, <1>5, InfoSizeFacts DEF Registry
<1>7. SumFunction(f) \in Nat /\ SumFunction(g) = SumFunction(f) + g[name]
  <2>1. OneMore(f, g, DOMAIN I, name)
    BY <1>6 DEF OneMore, Registry
  <2>2. QED
    BY <2>1, SumOneMore
<1>8. h \in Nat
  BY <1>3, SizeParts
<1>9. SizeOf(P, I) = PROP_BT_SIZE + h + SumFunction(f)
  BY <1>1, <1>3 DEF SizeOf
<1>10. SizeOf(P, J) = PROP_BT_SIZE + h + SumFunction(g)
  BY <1>2, <1>3 DEF SizeOf
<1>11. Registry(P, J)
  BY <1>4, FS_AddElement DEF Registry
<1>12. QED
  BY <1>6, <1>7, <1>8, <1>9, <1>10, <1>11 DEF PROP_BT_SIZE, LargerByInfo

-----------------------------------------------------------------------------
(* What an area holds while it is written.                                 *)

Fields(a) == a = [ok |-> a.ok, used |-> a.used, node |-> a.node, info |-> a.info, at |-> a.at]

Bounds(a) ==
    /\ Fields(a) /\ a.ok \in BOOLEAN /\ a.used \in PROP_BT_SIZE .. ArenaSize
    /\ DOMAIN a.node \cup DOMAIN a.info \subseteq 0 .. a.used

\* The entries of a node are those of its path.
Entries(a, path, I) ==
    /\ \A n \in DOMAIN a.node :
          LET e == a.node[n].prop
          IN  IF path[n] \in DOMAIN I THEN e # 0 /\ e \in DOMAIN a.info /\ a.info[e] = I[path[n]]
              ELSE e = 0
    /\ \A o \in DOMAIN a.info : o < a.used

\* A node for each of the paths P, at the place the next segment goes on from p.
Holds(a, par, path, P, I, p) ==
    /\ Tree(a, par, path) /\ Entries(a, path, I) /\ a.used = SizeOf(P, I)
    /\ \A n \in DOMAIN a.node : n # 0 => path[n] \in P
    /\ \A q \in P : \E n \in DOMAIN a.node : n # 0 /\ path[n] = q
    /\ a.at \in DOMAIN a.node /\ path[a.at] = p

HoldsAt(a, P, I, p) == \E par, path : Holds(a, par, path, P, I, p)

\* The area so far: it failed where a segment was empty or the room did not suffice.
Stage(a, P, I, wellFormed, p) ==
    /\ Bounds(a) /\ Registry(P, I) /\ wellFormed \in BOOLEAN
    /\ a.ok <=> wellFormed /\ SizeOf(P, I) <= ArenaSize
    /\ a.ok => HoldsAt(a, P, I, p)

Made(a, b, from, link, segment) ==
    /\ Fields(b) /\ b.ok = a.ok /\ b.used = a.used + NodeSize(segment)
    /\ b.at = a.used /\ b.info = a.info
    /\ Hangs(a, b, from, link, segment)
    /\ \A n \in DOMAIN b.node : b.node[n] \in Recs

\* new_bt makes such a node where there is room, and fails where there is none.
LEMMA NewNodeFacts ==
    ASSUME NEW a, NEW from \in DOMAIN a.node, NEW link \in Links, NEW segment \in Segments,
           Fields(a), Linked(a), a.node[from].link[link] = 0,
           \A n \in DOMAIN a.node : a.node[n] \in Recs,
           Fits(a, NodeSize(segment)),
           NEW b, b = NewNode(a, from, link, segment)
    PROVE  Made(a, b, from, link, segment)
<1> DEFINE f == a.node
           g == b.node
           u == a.used
<1>1. /\ Fields(b) /\ b.ok = a.ok /\ b.used = a.used + NodeSize(segment)
      /\ b.at = a.used /\ b.info = a.info
      /\ g = With([f EXCEPT ![from].link[link] = u], u, Node(segment))
  BY DEF NewNode, Fields
<1>2. u \in Nat /\ u \notin DOMAIN f
  BY DEF Linked
<1> HIDE DEF g, u
<1>3. DOMAIN g = DOMAIN f \cup {u} /\ g[u] = Node(segment)
  BY <1>1 DEF With
<1>4. \A n \in DOMAIN f : n # from => g[n] = f[n]
  BY <1>1, <1>2 DEF With
<1>5. PICK m \in Recs : m = f[from]
  OBVIOUS
<1>6. g[from] = [m EXCEPT !.link = [m.link EXCEPT ![link] = u]]
  BY <1>1, <1>2, <1>5 DEF With
<1>7. \E x, y, z : m = [name |-> x, prop |-> y, link |-> z]
  BY DEF Recs
<1>8. /\ g[from].name = m.name /\ g[from].prop = m.prop
      /\ g[from].link = [m.link EXCEPT ![link] = u]
  BY <1>6, <1>7
<1>9. m.link \in [Links -> Nat] /\ m.name \in Segments /\ m.prop \in Nat
  BY DEF Recs
<1>10. \A l \in Links : g[from].link[l] = IF l = link THEN u ELSE m.link[l]
  BY <1>8, <1>9
<1>11. \A n \in DOMAIN f : g[n].name = f[n].name /\ g[n].prop = f[n].prop
  BY <1>4, <1>5, <1>8
<1>12. \A n \in DOMAIN f : \A l \in Links :
         g[n].link[l] = IF n = from /\ l = link THEN u ELSE f[n].link[l]
  BY <1>4, <1>5, <1>10
<1>13. Hangs(a, b, from, link, segment)
  <2>1. b.used \in Nat /\ b.used > a.used
    BY <1>1, <1>2, NodeSizeFacts DEF u
  <2>2. QED
    BY <2>1, <1>3, <1>4, <1>11, <1>12 DEF Hangs, g, u
<1>14. g[from] \in Recs
  <2>1. [m.link EXCEPT ![link] = u] \in [Links -> Nat]
    BY <1>2, <1>9
  <2>2. g[from] = [name |-> m.name, prop |-> m.prop, link |-> [m.link EXCEPT ![link] = u]]
    BY <1>6, <1>7
  <2>3. QED
    BY <1>9, <2>1, <2>2 DEF Recs
<1>15. g[u] \in Recs
  <2>1. [l \in Links |-> 0] \in [Links -> Nat]
    OBVIOUS
  <2>2. QED
    BY <1>3, <2>1 DEF Node, Recs
<1>16. \A n \in DOMAIN g : g[n] \in Recs
  BY <1>3, <1>4, <1>14, <1>15
<1>17. QED
  BY <1>1, <1>13, <1>16 DEF g, u, Made

\* A failed area is left alone.
LEMMA FailedFacts ==
    ASSUME NEW a, Bounds(a), NEW b, b = Failed(a)
    PROVE  Bounds(b) /\ b.ok = FALSE
<1>1. PICK ok, used, node, info, at :
         /\ a = [ok |-> ok, used |-> used, node |-> node, info |-> info, at |-> at]
         /\ used = a.used /\ node = a.node /\ info = a.info
  BY DEF Bounds, Fields
<1>2. b = [ok |-> FALSE, used |-> used, node |-> node, info |-> info, at |-> at]
  BY <1>1 DEF Failed
<1>3. Fields(b) /\ b.ok = FALSE /\ b.used = a.used /\ b.node = a.node /\ b.info = a.info
  BY <1>1, <1>2 DEF Fields
<1>4. QED
  BY <1>3 DEF Bounds

Moved(a, m) == [a EXCEPT !.at = m]

SameContents(a, b) ==
    b.ok = a.ok /\ b.used = a.used /\ b.node = a.node /\ b.info = a.info

\* Only where the next segment goes on changes.
LEMMA AtFacts ==
    ASSUME NEW a, Bounds(a), NEW m, NEW b, b = Moved(a, m)
    PROVE  Bounds(b) /\ b.at = m /\ SameContents(a, b)
<1>1. PICK ok, used, node, info, at :
         /\ a = [ok |-> ok, used |-> used, node |-> node, info |-> info, at |-> at]
         /\ ok = a.ok /\ used = a.used /\ node = a.node /\ info = a.info
  BY DEF Bounds, Fields
<1>2. b = [ok |-> ok, used |-> used, node |-> node, info |-> info, at |-> m]
  BY <1>1 DEF Moved
<1>3. QED
  BY <1>1, <1>2 DEF Bounds, Fields, SameContents

\* b has the names and links of a.
SameShape(a, b) ==
    /\ DOMAIN b.node = DOMAIN a.node /\ b.used \in Nat /\ b.used >= a.used
    /\ \A n \in DOMAIN a.node :
          b.node[n].name = a.node[n].name /\ b.node[n].link = a.node[n].link /\ b.node[n] \in Recs

\* A tree is its names and links.
LEMMA TreeIsItsShape ==
    ASSUME NEW a, NEW b, SameShape(a, b), NEW par, NEW path, Tree(a, par, path)
    PROVE  Tree(b, par, path)
<1> DEFINE D == DOMAIN a.node
<1>1. Linked(a) /\ Parents(a, par) /\ Reached(a, par)
  BY DEF Tree
<1>2. Linked(b)
  BY <1>1 DEF Linked, SameShape
<1>3. Parents(b, par)
  BY <1>1 DEF Parents, SameShape
<1>4. ASSUME NEW segment
      PROVE  \A n \in D : BionicSibling(b, n, segment) = BionicSibling(a, n, segment)
  <2> DEFINE G == {n \in D : BionicSibling(b, n, segment) = BionicSibling(a, n, segment)}
  <2>1. a.used \in Nat /\ \A n \in D : n \in Nat /\ n <= a.used
    BY <1>1 DEF Linked
  <2>2. ASSUME NEW n \in D, \A m \in D : m > n => m \in G
        PROVE  n \in G
    <3>1. n \in DOMAIN b.node /\ b.node[n].name = a.node[n].name
          /\ b.node[n].link = a.node[n].link
      BY DEF SameShape
    <3>2. PICK m : m = LinkOf(a, n, segment)
      OBVIOUS
    <3>3. LinkOf(b, n, segment) = m
      BY <3>1, <3>2 DEF LinkOf, Branch
    <3>4. m = 0 \/ (m \in D /\ m > n)
      BY <1>1, <3>2, BranchIsALink DEF Linked, LinkOf
    <3>5. /\ BionicSibling(a, 0, segment) = 0
          /\ n # 0 => BionicSibling(a, n, segment) =
                         IF a.node[n].name = segment THEN n ELSE BionicSibling(a, m, segment)
      BY <1>1, <3>2, SiblingStep
    <3>6. /\ BionicSibling(b, 0, segment) = 0
          /\ n # 0 => BionicSibling(b, n, segment) =
                         IF a.node[n].name = segment THEN n ELSE BionicSibling(b, m, segment)
      BY <1>2, <3>1, <3>3, SiblingStep
    <3>7. BionicSibling(b, m, segment) = BionicSibling(a, m, segment)
      BY <2>2, <3>4, <3>5, <3>6
    <3>8. QED
      BY <3>5, <3>6, <3>7
  <2> HIDE DEF G
  <2>3. \A n \in D : n \in G
    BY <2>1, <2>2, FromTheLast
  <2>4. QED
    BY <2>3 DEF G
<1>5. Reached(b, par)
  <2> SUFFICES ASSUME NEW n \in D, n # 0 PROVE Child(b, par[n], b.node[n].name) = n
    BY DEF Reached, SameShape
  <2>1. PICK c, t : c = a.node[par[n]].link["children"] /\ t = a.node[n].name
    OBVIOUS
  <2>2. par[n] \in D /\ BionicSibling(a, c, t) = n
    BY <1>1, <2>1 DEF Parents, Reached, Child
  <2>3. b.node[par[n]].link["children"] = c /\ b.node[n].name = t
    BY <2>1, <2>2 DEF SameShape
  <2>4. c \in D
    BY <1>1, <2>1, <2>2 DEF Linked, Links
  <2>5. BionicSibling(b, c, t) = n
    BY <1>4, <2>2, <2>4
  <2>6. QED
    BY <2>3, <2>5 DEF Child
<1>6. QED
  BY <1>2, <1>3, <1>5 DEF Tree, SameShape

\* b goes on at a node of a whose path is q.
GoesOnAt(a, b, path, q) == b.at \in DOMAIN a.node /\ q = path[b.at]

\* An area with the same nodes at another place.
LEMMA HoldsElsewhere ==
    ASSUME NEW a, NEW b, NEW par, NEW path, NEW P, NEW I, NEW p, Holds(a, par, path, P, I, p),
           SameContents(a, b), NEW q, GoesOnAt(a, b, path, q)
    PROVE  Holds(b, par, path, P, I, q)
<1>1. Tree(b, par, path)
  <2>1. Tree(a, par, path)
    BY DEF Holds
  <2>2. SameShape(a, b)
    BY <2>1 DEF SameShape, Tree, Linked, SameContents
  <2>3. QED
    BY <2>1, <2>2, TreeIsItsShape
<1>2. Entries(b, path, I)
  BY DEF Entries, Holds, SameContents
<1>3. QED
  BY <1>1, <1>2 DEF Holds, SameContents, GoesOnAt

\* One step down finds a node or makes one.
LEMMA DescendCases ==
    ASSUME NEW a, a.ok, Linked(a), a.at \in DOMAIN a.node, NEW segment, segment.len # 0
    PROVE  \/ \E first, m :
                 /\ first = a.node[a.at].link["children"] /\ first # 0
                 /\ m = Nearest(a, first, segment) /\ a.node[m].name = segment
                 /\ Descend(a, segment) = Moved(a, m)
           \/ \E from, link :
                 /\ Place(a, a.at, from, link, segment)
                 /\ Descend(a, segment) = NewNode(a, from, link, segment)
<1>1. PICK first : first = a.node[a.at].link["children"]
  OBVIOUS
<1>2. CASE first = 0
  <2>1. Descend(a, segment) = NewNode(a, a.at, "children", segment)
    BY <1>1, <1>2 DEF Descend
  <2>2. Place(a, a.at, a.at, "children", segment)
    BY <1>1, <1>2 DEF Place
  <2>3. QED
    BY <2>1, <2>2
<1>3. CASE first # 0
  <2>1. PICK m : m = Nearest(a, first, segment)
    OBVIOUS
  <2>2. Descend(a, segment) = find_bt(a, first, segment)
    BY <1>1, <1>3 DEF Descend
  <2>3. CASE a.node[m].name = segment
    <3>1. Descend(a, segment) = Moved(a, m)
      BY <2>1, <2>2, <2>3 DEF find_bt, Moved
    <3>2. QED
      BY <1>1, <1>3, <2>1, <2>3, <3>1
  <2>4. CASE a.node[m].name # segment
    <3>1. Descend(a, segment) = NewNode(a, m, Branch(a, m, segment), segment)
      BY <2>1, <2>2, <2>4 DEF find_bt
    <3>2. Place(a, a.at, m, Branch(a, m, segment), segment)
      BY <1>1, <1>3, <2>1, <2>4 DEF Place
    <3>3. QED
      BY <3>1, <3>2
  <2>5. QED
    BY <2>3, <2>4
<1>4. QED
  BY <1>2, <1>3

\* The step to a node that was there.
LEMMA DescendFinds ==
    ASSUME NEW a, NEW P, NEW I, NEW p \in Seq(Segments), Stage(a, P, I, TRUE, p), a.ok,
           NEW segment \in Segments, NEW first, NEW m,
           first = a.node[a.at].link["children"], first # 0,
           m = Nearest(a, first, segment), a.node[m].name = segment,
           NEW b, b = Moved(a, m)
    PROVE  Append(p, segment) \in P /\ Stage(b, P, I, TRUE, Append(p, segment))
<1>1. PICK par, path : Holds(a, par, path, P, I, p)
  BY DEF Stage, HoldsAt
<1>2. /\ Tree(a, par, path) /\ Linked(a) /\ Parents(a, par) /\ a.at \in DOMAIN a.node
      /\ path[a.at] = p
  BY <1>1 DEF Holds, Tree
<1>3. first \in DOMAIN a.node /\ par[first] = a.at
  BY <1>2 DEF Linked, Parents, Links
<1>4. m \in DOMAIN a.node /\ m # 0 /\ par[m] = par[first]
  <2>1. StaysAt(a, par, segment, first, Nearest(a, first, segment))
    BY <1>2, <1>3, NearestStays
  <2>2. QED
    BY <2>1 DEF StaysAt
<1>5. path[m] = Append(p, segment)
  <2>1. path[m] = Append(path[par[m]], a.node[m].name)
    BY <1>2, <1>4 DEF Tree
  <2>2. QED
    BY <1>2, <1>3, <1>4, <2>1
<1>6. path[m] \in P
  BY <1>1, <1>4 DEF Holds
<1>7. /\ Bounds(b) /\ b.at = m
      /\ b.ok = a.ok /\ b.used = a.used /\ b.node = a.node /\ b.info = a.info
      /\ SameContents(a, b)
  <2>1. Bounds(a)
    BY DEF Stage
  <2>2. Bounds(b) /\ b.at = m
    BY SMTT(30), <2>1, AtFacts
  <2>3. SameContents(a, b)
    BY <2>1, AtFacts
  <2>4. QED
    BY <2>2, <2>3 DEF SameContents
<1>8. PICK q : q = path[m] /\ q = Append(p, segment)
  BY <1>5
<1>9. Holds(b, par, path, P, I, q)
  <2>1. GoesOnAt(a, b, path, q)
    BY <1>4, <1>7, <1>8 DEF GoesOnAt
  <2>2. QED
    BY <1>1, <1>7, <2>1, HoldsElsewhere
<1>10. Stage(b, P, I, TRUE, q)
  BY <1>7, <1>9 DEF Stage, HoldsAt
<1>11. QED
  BY <1>6, <1>8, <1>10

\* The step to a node that is new.
LEMMA DescendMakes ==
    ASSUME NEW a, NEW P, NEW I, NEW p \in Seq(Segments), Stage(a, P, I, TRUE, p), a.ok,
           NEW segment \in Segments, NEW from, NEW link,
           Place(a, a.at, from, link, segment),
           NEW b, b = NewNode(a, from, link, segment),
           NEW q, q = Append(p, segment)
    PROVE  Stage(b, P \cup {q}, I, TRUE, q)
<1>1. PICK par, path : Holds(a, par, path, P, I, p)
  BY DEF Stage, HoldsAt
<1>2. /\ Tree(a, par, path) /\ Linked(a) /\ Parents(a, par)
      /\ a.at \in DOMAIN a.node /\ path[a.at] = p
      /\ \A n \in DOMAIN a.node : a.node[n] \in Recs
  BY <1>1 DEF Holds, Tree
<1>3. from \in DOMAIN a.node /\ link \in Links /\ a.node[from].link[link] = 0
  BY <1>2, PlaceIsFree
<1>4. \A n \in DOMAIN a.node : path[n] # q
  BY <1>2, PlaceIsNew
<1>5. q \notin P
  BY <1>1, <1>4 DEF Holds
<1>6. q \in Paths /\ Last(q) = segment
  <2>1. q \in Seq(Segments) /\ Len(q) = Len(p) + 1 /\ q[Len(p) + 1] = segment
    OBVIOUS
  <2>2. q # <<>>
    BY AppendIsNotEmpty
  <2>3. QED
    BY <2>1, <2>2 DEF Paths, Last
<1>7. NodeSize(segment) \in Nat /\ NodeSize(segment) > 0
  BY NodeSizeFacts
<1>8. /\ Registry(P \cup {q}, I)
      /\ SizeOf(P \cup {q}, I) = a.used + NodeSize(segment)
      /\ Bounds(a) /\ Registry(P, I)
  <2>1. Registry(P, I) /\ Bounds(a)
    BY DEF Stage
  <2>2. a.used = SizeOf(P, I)
    BY <1>1 DEF Holds
  <2>3. LargerByNode(P, I, q)
    BY <1>5, <1>6, <2>1, SizeOfOneMorePath
  <2>4. QED
    BY <1>6, <2>1, <2>2, <2>3 DEF LargerByNode
<1>9. CASE ~Fits(a, NodeSize(segment))
  <2>1. b = Failed(a)
    BY <1>9 DEF NewNode
  <2>2. ~(SizeOf(P \cup {q}, I) <= ArenaSize)
    BY <1>8, <1>9 DEF Fits
  <2>3. Bounds(b) /\ b.ok = FALSE
    BY <1>8, <2>1, FailedFacts
  <2>4. QED
    BY <1>8, <2>2, <2>3 DEF Stage
<1>10. CASE Fits(a, NodeSize(segment))
  <2>1. Fields(a)
    BY <1>8 DEF Bounds
  <2>2. /\ Fields(b) /\ b.ok = a.ok /\ b.used = a.used + NodeSize(segment)
        /\ b.at = a.used /\ b.info = a.info
        /\ Hangs(a, b, from, link, segment)
        /\ \A n \in DOMAIN b.node : b.node[n] \in Recs
    <3>1. Made(a, b, from, link, segment)
      BY <1>2, <1>3, <1>10, <2>1, NewNodeFacts
    <3>2. QED
      BY <3>1 DEF Made
  <2>3. PICK u : u = a.used /\ u \in Nat /\ u \notin DOMAIN a.node /\ u # 0
    BY <1>2, <2>2, HangsLinked DEF Linked
  <2>4. DOMAIN b.node = DOMAIN a.node \cup {u} /\ b.node[u] = Node(segment)
        /\ \A n \in DOMAIN a.node : b.node[n].prop = a.node[n].prop
    BY <2>2, <2>3 DEF Hangs
  <2>5. PICK par2, path2 :
           /\ par2[u] = a.at /\ path2[u] = q
           /\ \A n \in DOMAIN a.node : par2[n] = par[n] /\ path2[n] = path[n]
    <3>1. PICK par2 : par2 = [n \in DOMAIN a.node \cup {u} |-> IF n = u THEN a.at ELSE par[n]]
      OBVIOUS
    <3>2. PICK path2 : path2 = [n \in DOMAIN a.node \cup {u} |-> IF n = u THEN q ELSE path[n]]
      OBVIOUS
    <3>3. par2[u] = a.at /\ \A n \in DOMAIN a.node : par2[n] = par[n]
      BY <2>3, <3>1
    <3>4. path2[u] = q /\ \A n \in DOMAIN a.node : path2[n] = path[n]
      BY <2>3, <3>2
    <3>5. QED
      BY <3>3, <3>4
  <2>6. Tree(b, par2, path2)
    BY <1>2, <2>2, <2>3, <2>5, PlaceGrows
  <2>7. Entries(b, path2, I)
    <3>1. q \notin DOMAIN I
      BY <1>5, <1>8 DEF Registry
    <3>2. b.node[u].prop = 0
      BY <2>4 DEF Node
    <3>3. Entries(a, path, I)
      BY <1>1 DEF Holds
    <3>4. \A o \in DOMAIN b.info : o < b.used
      <4>1. \A o \in DOMAIN a.info : o < u /\ o \in Nat
        BY <1>8, <2>3, <3>3 DEF Entries, Bounds
      <4>2. QED
        BY <1>7, <2>2, <2>3, <4>1
    <3>5. \A n \in DOMAIN a.node :
            LET e == b.node[n].prop
            IN  IF path2[n] \in DOMAIN I THEN e # 0 /\ e \in DOMAIN b.info /\ b.info[e] = I[path2[n]]
                ELSE e = 0
      BY <2>2, <2>4, <2>5, <3>3 DEF Entries
    <3>6. path2[u] \notin DOMAIN I /\ b.node[u].prop = 0
      BY <2>5, <3>1, <3>2
    <3>7. \A n \in DOMAIN b.node :
            LET e == b.node[n].prop
            IN  IF path2[n] \in DOMAIN I THEN e # 0 /\ e \in DOMAIN b.info /\ b.info[e] = I[path2[n]]
                ELSE e = 0
      BY <2>4, <3>5, <3>6
    <3>8. QED
      BY <3>4, <3>7 DEF Entries
  <2>8. /\ \A n \in DOMAIN b.node : n # 0 => path2[n] \in P \cup {q}
        /\ \A r \in P \cup {q} : \E n \in DOMAIN b.node : n # 0 /\ path2[n] = r
    <3>1. /\ \A n \in DOMAIN a.node : n # 0 => path[n] \in P
          /\ \A r \in P : \E n \in DOMAIN a.node : n # 0 /\ path[n] = r
      BY <1>1 DEF Holds
    <3>2. \A n \in DOMAIN b.node : n # 0 => path2[n] \in P \cup {q}
      BY <2>4, <2>5, <3>1
    <3>3. \A r \in P : \E n \in DOMAIN b.node : n # 0 /\ path2[n] = r
      BY <2>4, <2>5, <3>1
    <3>4. u \in DOMAIN b.node /\ u # 0 /\ path2[u] = q
      BY <2>3, <2>4, <2>5
    <3>5. QED
      BY <3>2, <3>3, <3>4
  <2>9. Holds(b, par2, path2, P \cup {q}, I, q)
    BY <1>8, <2>2, <2>3, <2>4, <2>5, <2>6, <2>7, <2>8 DEF Holds
  <2>10. b.used <= ArenaSize /\ b.used = SizeOf(P \cup {q}, I)
    BY <1>8, <1>10, <2>2 DEF Fits
  <2>11. Bounds(b)
    <3>1. b.used \in PROP_BT_SIZE .. ArenaSize
      BY <1>7, <1>8, <2>2, <2>10 DEF Bounds, PROP_BT_SIZE
    <3>2. \A o \in 0 .. a.used : o \in 0 .. b.used
      BY <1>7, <2>2, <2>3
    <3>3. DOMAIN b.node \cup DOMAIN b.info \subseteq 0 .. b.used
      BY <1>8, <2>2, <2>3, <2>4, <3>2 DEF Bounds
    <3>4. QED
      BY <1>8, <2>2, <3>1, <3>3 DEF Bounds
  <2>12. QED
    BY <1>8, <2>2, <2>9, <2>10, <2>11 DEF Stage, HoldsAt
<1>11. QED
  BY <1>9, <1>10

\* One segment further.
LEMMA DescendStage ==
    ASSUME NEW a, NEW P, NEW I, NEW W, NEW p \in Seq(Segments), Stage(a, P, I, W, p),
           NEW segment \in Segments, NEW q, q = Append(p, segment)
    PROVE  Stage(Descend(a, segment), P \cup {q}, I, W /\ segment.len > 0, q)
<1>1. PICK b : b = Descend(a, segment)
  OBVIOUS
<1>2. Registry(P \cup {q}, I) /\ SizeOf(P, I) \in Nat /\ SizeOf(P \cup {q}, I) \in Nat
      /\ SizeOf(P \cup {q}, I) >= SizeOf(P, I)
  <2>1. q \in Paths
    <3>1. q \in Seq(Segments)
      OBVIOUS
    <3>2. Append(p, segment) # <<>>
      BY AppendIsNotEmpty
    <3>3. QED
      BY <3>1, <3>2 DEF Paths
  <2>2. NodeSize(Last(q)) \in Nat
    BY <2>1, LastFacts, NodeSizeFacts
  <2>3. Registry(P, I) /\ SizeOf(P, I) \in Nat
    BY SizeParts DEF Stage
  <2>4. CASE q \in P
    <3>1. PICK R : R = P \cup {q}
      OBVIOUS
    <3>2. R = P
      BY <2>4, <3>1
    <3>3. Registry(R, I) /\ SizeOf(R, I) = SizeOf(P, I)
      BY <2>3, <3>2
    <3>4. PICK x \in Nat : x = SizeOf(P, I) /\ x = SizeOf(R, I)
      BY <2>3, <3>3
    <3>5. x >= x
      OBVIOUS
    <3>6. QED
      BY <3>1, <3>3, <3>4, <3>5
  <2>5. CASE q \notin P
    <3>1. LargerByNode(P, I, q)
      BY <2>1, <2>3, <2>5, SizeOfOneMorePath
    <3>2. Registry(P \cup {q}, I) /\ SizeOf(P \cup {q}, I) = SizeOf(P, I) + NodeSize(Last(q))
      BY <3>1 DEF LargerByNode
    <3>3. PICK x, y, z : x = SizeOf(P, I) /\ y = NodeSize(Last(q)) /\ z = SizeOf(P \cup {q}, I)
      OBVIOUS
    <3>4. x \in Nat /\ y \in Nat /\ z = x + y
      BY <2>2, <2>3, <3>2, <3>3
    <3>5. z \in Nat /\ z >= x
      BY <3>4
    <3>6. QED
      BY <2>3, <3>2, <3>3, <3>5
  <2>6. QED
    BY <2>4, <2>5
<1>3. segment.len \in Nat
  BY DEF Segments
<1>4. CASE ~a.ok
  <2>1. b = a
    BY <1>1, <1>4 DEF Descend
  <2>2. ~(W /\ SizeOf(P, I) <= ArenaSize)
    BY <1>4 DEF Stage
  <2>3. ~(W /\ SizeOf(P \cup {q}, I) <= ArenaSize)
    BY <1>2, <2>2, AreaAssumption
  <2>4. QED
    BY <1>1, <1>2, <1>4, <2>1, <2>3 DEF Stage
<1>5. CASE a.ok /\ segment.len = 0
  <2>1. b = Failed(a)
    BY <1>1, <1>5 DEF Descend
  <2>2. Bounds(b) /\ b.ok = FALSE
    BY <2>1, FailedFacts DEF Stage
  <2>3. QED
    BY <1>1, <1>2, <1>3, <1>5, <2>2 DEF Stage
<1>6. CASE a.ok /\ segment.len # 0
  <2>1. W = TRUE /\ (W /\ segment.len > 0) = TRUE
    BY <1>3, <1>6 DEF Stage
  <2>2. Stage(a, P, I, TRUE, p)
    BY <2>1
  <2>3. Linked(a) /\ a.at \in DOMAIN a.node
    BY <1>6 DEF Stage, HoldsAt, Holds, Tree
  <2>4. CASE \E first, m :
                 /\ first = a.node[a.at].link["children"] /\ first # 0
                 /\ m = Nearest(a, first, segment) /\ a.node[m].name = segment
                 /\ Descend(a, segment) = Moved(a, m)
    <3>1. PICK first, m :
                 /\ first = a.node[a.at].link["children"] /\ first # 0
                 /\ m = Nearest(a, first, segment) /\ a.node[m].name = segment
                 /\ b = Moved(a, m)
      BY <1>1, <2>4
    <3>2. q \in P /\ Stage(b, P, I, TRUE, q)
      BY <1>6, <2>2, <3>1, DescendFinds
    <3>3. P \cup {q} = P
      BY <3>2
    <3>4. QED
      BY <1>1, <2>1, <3>2, <3>3
  <2>5. CASE \E from, link :
                 /\ Place(a, a.at, from, link, segment)
                 /\ Descend(a, segment) = NewNode(a, from, link, segment)
    <3>1. PICK from, link : /\ Place(a, a.at, from, link, segment)
                            /\ b = NewNode(a, from, link, segment)
      BY <1>1, <2>5
    <3>2. Stage(b, P \cup {q}, I, TRUE, q)
      BY <1>6, <2>2, <3>1, DescendMakes
    <3>3. QED
      BY <1>1, <2>1, <3>2
  <2>6. QED
    BY <1>6, <2>3, <2>4, <2>5, DescendCases
<1>7. QED
  BY <1>4, <1>5, <1>6

-----------------------------------------------------------------------------
(* Names and lines, one element at a time.                                 *)

\* Descent goes through the segments of a name.
LEMMA DescentSteps ==
    ASSUME NEW a, NEW name, Len(name) \in Nat
    PROVE  \E down :
              /\ down[0] = Moved(a, 0)
              /\ \A n \in 1 .. Len(name) : down[n] = Descend(down[n - 1], name[n])
              /\ Descent(a, name) = down[Len(name)]
<1> DEFINE Is(g, k) == g = [n \in 0 .. k |-> IF n = 0 THEN Moved(a, 0) ELSE Descend(g[n - 1], name[n])]
           S == {k \in Nat : \E g : Is(g, k)}
<1>1. 0 \in S
  <2>1. Is([n \in 0 .. 0 |-> Moved(a, 0)], 0)
    OBVIOUS
  <2>2. QED
    BY <2>1
<1>2. ASSUME NEW k \in Nat, k \in S
      PROVE  k + 1 \in S
  <2>1. PICK g : Is(g, k)
    BY <1>2
  <2> DEFINE h == [n \in 0 .. k + 1 |-> IF n = k + 1 THEN Descend(g[(k + 1) - 1], name[(k + 1)]) ELSE g[n]]
  <2>2. \A n \in 0 .. k : g[n] = IF n = 0 THEN Moved(a, 0) ELSE Descend(g[n - 1], name[n])
    BY <2>1
  <2>3. \A n \in 0 .. k : n \in 0 .. k + 1 /\ n # k + 1 /\ h[n] = g[n]
    OBVIOUS
  <2>4. \A n \in 1 .. k : n - 1 \in 0 .. k /\ n \in 0 .. k
    OBVIOUS
  <2>5. h[k + 1] = Descend(g[(k + 1) - 1], name[(k + 1)])
    OBVIOUS
  <2>6. (k + 1) - 1 = k /\ k + 1 # 0 /\ k \in 0 .. k /\ 0 \in 0 .. k
    OBVIOUS
  <2>7. \A n \in 0 .. k + 1 : n = 0 \/ n \in 1 .. k \/ n = k + 1
    OBVIOUS
  <2> HIDE DEF h
  <2>8. \A n \in 0 .. k + 1 : h[n] = IF n = 0 THEN Moved(a, 0) ELSE Descend(h[n - 1], name[n])
    BY <2>2, <2>3, <2>4, <2>5, <2>6, <2>7
  <2>9. Is(h, k + 1)
    BY <2>8 DEF h
  <2> HIDE DEF Is
  <2>10. QED
    BY <2>9
<1> HIDE DEF S
<1>3. Len(name) \in S
  BY <1>1, <1>2, Induction
<1>4. PICK f : Is(f, Len(name))
  BY <1>3 DEF S
<1> DEFINE down == CHOOSE g : Is(g, Len(name))
<1>5. Descent(a, name) = down[Len(name)]
  BY DEF Descent, Moved
<1>6. Is(down, Len(name))
  BY <1>4
<1> HIDE DEF down
<1>7. down[0] = Moved(a, 0)
  BY <1>6
<1>8. \A n \in 1 .. Len(name) : down[n] = Descend(down[n - 1], name[n])
  <2> SUFFICES ASSUME NEW n \in 1 .. Len(name)
               PROVE  down[n] = Descend(down[n - 1], name[n])
    OBVIOUS
  <2>1. n \in 0 .. Len(name) /\ n # 0
    OBVIOUS
  <2>2. QED
    BY <1>6, <2>1
<1>9. QED
  BY <1>5, <1>7, <1>8

\* So does find.
LEMMA FindSteps ==
    ASSUME NEW a, NEW name, Len(name) \in Nat
    PROVE  \E down :
              /\ down[0] = 0
              /\ \A n \in 1 .. Len(name) : down[n] = (IF n > 1 /\ down[n - 1] = 0 THEN 0 ELSE Child(a, down[n - 1], name[n]))
              /\ BionicNode(a, name) = down[Len(name)]
<1> DEFINE Is(g, k) == g = [n \in 0 .. k |-> IF n = 0 THEN 0 ELSE (IF n > 1 /\ g[n - 1] = 0 THEN 0 ELSE Child(a, g[n - 1], name[n]))]
           S == {k \in Nat : \E g : Is(g, k)}
<1>1. 0 \in S
  <2>1. Is([n \in 0 .. 0 |-> 0], 0)
    OBVIOUS
  <2>2. QED
    BY <2>1
<1>2. ASSUME NEW k \in Nat, k \in S
      PROVE  k + 1 \in S
  <2>1. PICK g : Is(g, k)
    BY <1>2
  <2> DEFINE h == [n \in 0 .. k + 1 |-> IF n = k + 1 THEN (IF (k + 1) > 1 /\ g[(k + 1) - 1] = 0 THEN 0 ELSE Child(a, g[(k + 1) - 1], name[(k + 1)])) ELSE g[n]]
  <2>2. \A n \in 0 .. k : g[n] = IF n = 0 THEN 0 ELSE (IF n > 1 /\ g[n - 1] = 0 THEN 0 ELSE Child(a, g[n - 1], name[n]))
    BY <2>1
  <2>3. \A n \in 0 .. k : n \in 0 .. k + 1 /\ n # k + 1 /\ h[n] = g[n]
    OBVIOUS
  <2>4. \A n \in 1 .. k : n - 1 \in 0 .. k /\ n \in 0 .. k
    OBVIOUS
  <2>5. h[k + 1] = (IF (k + 1) > 1 /\ g[(k + 1) - 1] = 0 THEN 0 ELSE Child(a, g[(k + 1) - 1], name[(k + 1)]))
    OBVIOUS
  <2>6. (k + 1) - 1 = k /\ k + 1 # 0 /\ k \in 0 .. k /\ 0 \in 0 .. k
    OBVIOUS
  <2>7. \A n \in 0 .. k + 1 : n = 0 \/ n \in 1 .. k \/ n = k + 1
    OBVIOUS
  <2> HIDE DEF h
  <2>8. \A n \in 0 .. k + 1 : h[n] = IF n = 0 THEN 0 ELSE (IF n > 1 /\ h[n - 1] = 0 THEN 0 ELSE Child(a, h[n - 1], name[n]))
    BY <2>2, <2>3, <2>4, <2>5, <2>6, <2>7
  <2>9. Is(h, k + 1)
    BY <2>8 DEF h
  <2> HIDE DEF Is
  <2>10. QED
    BY <2>9
<1> HIDE DEF S
<1>3. Len(name) \in S
  BY <1>1, <1>2, Induction
<1>4. PICK f : Is(f, Len(name))
  BY <1>3 DEF S
<1> DEFINE down == CHOOSE g : Is(g, Len(name))
<1>5. BionicNode(a, name) = down[Len(name)]
  BY DEF BionicNode, Child
<1>6. Is(down, Len(name))
  BY <1>4
<1> HIDE DEF down
<1>7. down[0] = 0
  BY <1>6
<1>8. \A n \in 1 .. Len(name) : down[n] = (IF n > 1 /\ down[n - 1] = 0 THEN 0 ELSE Child(a, down[n - 1], name[n]))
  <2> SUFFICES ASSUME NEW n \in 1 .. Len(name)
               PROVE  down[n] = (IF n > 1 /\ down[n - 1] = 0 THEN 0 ELSE Child(a, down[n - 1], name[n]))
    OBVIOUS
  <2>1. n \in 0 .. Len(name) /\ n # 0
    OBVIOUS
  <2>2. QED
    BY <1>6, <2>1
<1>9. QED
  BY <1>5, <1>7, <1>8

\* The lines of a directory are merged one by one.
LEMMA MergeSteps ==
    ASSUME NEW lines, Len(lines) \in Nat
    PROVE  \E upTo :
              /\ upTo[0] = <<>>
              /\ \A n \in 1 .. Len(lines) : upTo[n] = Override(upTo[n - 1], lines[n])
              /\ merged(lines) = upTo[Len(lines)]
<1> DEFINE Is(g, k) == g = [n \in 0 .. k |-> IF n = 0 THEN <<>> ELSE Override(g[n - 1], lines[n])]
           S == {k \in Nat : \E g : Is(g, k)}
<1>1. 0 \in S
  <2>1. Is([n \in 0 .. 0 |-> <<>>], 0)
    OBVIOUS
  <2>2. QED
    BY <2>1
<1>2. ASSUME NEW k \in Nat, k \in S
      PROVE  k + 1 \in S
  <2>1. PICK g : Is(g, k)
    BY <1>2
  <2> DEFINE h == [n \in 0 .. k + 1 |-> IF n = k + 1 THEN Override(g[(k + 1) - 1], lines[(k + 1)]) ELSE g[n]]
  <2>2. \A n \in 0 .. k : g[n] = IF n = 0 THEN <<>> ELSE Override(g[n - 1], lines[n])
    BY <2>1
  <2>3. \A n \in 0 .. k : n \in 0 .. k + 1 /\ n # k + 1 /\ h[n] = g[n]
    OBVIOUS
  <2>4. \A n \in 1 .. k : n - 1 \in 0 .. k /\ n \in 0 .. k
    OBVIOUS
  <2>5. h[k + 1] = Override(g[(k + 1) - 1], lines[(k + 1)])
    OBVIOUS
  <2>6. (k + 1) - 1 = k /\ k + 1 # 0 /\ k \in 0 .. k /\ 0 \in 0 .. k
    OBVIOUS
  <2>7. \A n \in 0 .. k + 1 : n = 0 \/ n \in 1 .. k \/ n = k + 1
    OBVIOUS
  <2> HIDE DEF h
  <2>8. \A n \in 0 .. k + 1 : h[n] = IF n = 0 THEN <<>> ELSE Override(h[n - 1], lines[n])
    BY <2>2, <2>3, <2>4, <2>5, <2>6, <2>7
  <2>9. Is(h, k + 1)
    BY <2>8 DEF h
  <2> HIDE DEF Is
  <2>10. QED
    BY <2>9
<1> HIDE DEF S
<1>3. Len(lines) \in S
  BY <1>1, <1>2, Induction
<1>4. PICK f : Is(f, Len(lines))
  BY <1>3 DEF S
<1> DEFINE upTo == CHOOSE g : Is(g, Len(lines))
<1>5. merged(lines) = upTo[Len(lines)]
  BY DEF merged
<1>6. Is(upTo, Len(lines))
  BY <1>4
<1> HIDE DEF upTo
<1>7. upTo[0] = <<>>
  BY <1>6
<1>8. \A n \in 1 .. Len(lines) : upTo[n] = Override(upTo[n - 1], lines[n])
  <2> SUFFICES ASSUME NEW n \in 1 .. Len(lines)
               PROVE  upTo[n] = Override(upTo[n - 1], lines[n])
    OBVIOUS
  <2>1. n \in 0 .. Len(lines) /\ n # 0
    OBVIOUS
  <2>2. QED
    BY <1>6, <2>1
<1>9. QED
  BY <1>5, <1>7, <1>8

\* The lines are written one by one.
LEMMA WriteSteps ==
    ASSUME NEW lines, Len(lines) \in Nat
    PROVE  \E upTo :
              /\ upTo[0] = NewArea
              /\ \A n \in 1 .. Len(lines) : upTo[n] = add(upTo[n - 1], lines[n].name, lines[n].value)
              /\ Write(lines) = upTo[Len(lines)]
<1> DEFINE Is(g, k) == g = [n \in 0 .. k |-> IF n = 0 THEN NewArea ELSE add(g[n - 1], lines[n].name, lines[n].value)]
           S == {k \in Nat : \E g : Is(g, k)}
<1>1. 0 \in S
  <2>1. Is([n \in 0 .. 0 |-> NewArea], 0)
    OBVIOUS
  <2>2. QED
    BY <2>1
<1>2. ASSUME NEW k \in Nat, k \in S
      PROVE  k + 1 \in S
  <2>1. PICK g : Is(g, k)
    BY <1>2
  <2> DEFINE h == [n \in 0 .. k + 1 |-> IF n = k + 1 THEN add(g[(k + 1) - 1], lines[(k + 1)].name, lines[(k + 1)].value) ELSE g[n]]
  <2>2. \A n \in 0 .. k : g[n] = IF n = 0 THEN NewArea ELSE add(g[n - 1], lines[n].name, lines[n].value)
    BY <2>1
  <2>3. \A n \in 0 .. k : n \in 0 .. k + 1 /\ n # k + 1 /\ h[n] = g[n]
    OBVIOUS
  <2>4. \A n \in 1 .. k : n - 1 \in 0 .. k /\ n \in 0 .. k
    OBVIOUS
  <2>5. h[k + 1] = add(g[(k + 1) - 1], lines[(k + 1)].name, lines[(k + 1)].value)
    OBVIOUS
  <2>6. (k + 1) - 1 = k /\ k + 1 # 0 /\ k \in 0 .. k /\ 0 \in 0 .. k
    OBVIOUS
  <2>7. \A n \in 0 .. k + 1 : n = 0 \/ n \in 1 .. k \/ n = k + 1
    OBVIOUS
  <2> HIDE DEF h
  <2>8. \A n \in 0 .. k + 1 : h[n] = IF n = 0 THEN NewArea ELSE add(h[n - 1], lines[n].name, lines[n].value)
    BY <2>2, <2>3, <2>4, <2>5, <2>6, <2>7
  <2>9. Is(h, k + 1)
    BY <2>8 DEF h
  <2> HIDE DEF Is
  <2>10. QED
    BY <2>9
<1> HIDE DEF S
<1>3. Len(lines) \in S
  BY <1>1, <1>2, Induction
<1>4. PICK f : Is(f, Len(lines))
  BY <1>3 DEF S
<1> DEFINE upTo == CHOOSE g : Is(g, Len(lines))
<1>5. Write(lines) = upTo[Len(lines)]
  BY DEF Write
<1>6. Is(upTo, Len(lines))
  BY <1>4
<1> HIDE DEF upTo
<1>7. upTo[0] = NewArea
  BY <1>6
<1>8. \A n \in 1 .. Len(lines) : upTo[n] = add(upTo[n - 1], lines[n].name, lines[n].value)
  <2> SUFFICES ASSUME NEW n \in 1 .. Len(lines)
               PROVE  upTo[n] = add(upTo[n - 1], lines[n].name, lines[n].value)
    OBVIOUS
  <2>1. n \in 0 .. Len(lines) /\ n # 0
    OBVIOUS
  <2>2. QED
    BY <1>6, <2>1
<1>9. QED
  BY <1>5, <1>7, <1>8

-----------------------------------------------------------------------------
(* Adding a property.                                                      *)

PrefixesTo(name, i) == {SubSeq(name, 1, j) : j \in 1 .. i}

FineTo(name, i) == \A j \in 1 .. i : name[j].len > 0

\* A prefix is the one before it and a segment.
LEMMA PrefixFacts ==
    ASSUME NEW name \in Seq(Segments), NEW i \in 1 .. Len(name)
    PROVE  /\ SubSeq(name, 1, i - 1) \in Seq(Segments)
           /\ name[i] \in Segments
           /\ SubSeq(name, 1, i) = Append(SubSeq(name, 1, i - 1), name[i])
<1>1. i \in Nat /\ i - 1 \in Nat /\ Len(name) \in Nat /\ i <= Len(name) /\ i >= 1
  OBVIOUS
<1>2. name[i] \in Segments
  OBVIOUS
<1>3. PICK p : p = SubSeq(name, 1, i - 1)
  OBVIOUS
<1>4. PICK q : q = SubSeq(name, 1, i)
  OBVIOUS
<1>5. p \in Seq(Segments) /\ Len(p) = i - 1 /\ \A j \in 1 .. i - 1 : p[j] = name[j]
  BY <1>1, <1>3, SubSeqProperties
<1>6. q \in Seq(Segments) /\ Len(q) = i /\ \A j \in 1 .. i : q[j] = name[j]
  BY <1>1, <1>4, SubSeqProperties
<1>7. PICK r : r = Append(p, name[i])
  OBVIOUS
<1>8. r \in Seq(Segments) /\ Len(r) = i /\ r[i] = name[i] /\ \A j \in 1 .. i - 1 : r[j] = p[j]
  BY <1>1, <1>2, <1>5, <1>7, AppendProperties
<1>9. \A j \in 1 .. i : r[j] = q[j]
  <2> SUFFICES ASSUME NEW j \in 1 .. i PROVE r[j] = q[j]
    OBVIOUS
  <2>1. CASE j = i
    BY <1>1, <1>6, <1>8, <2>1
  <2>2. CASE j # i
    <3>1. j \in 1 .. i - 1
      BY <1>1, <2>2
    <3>2. QED
      BY <1>5, <1>6, <1>8, <3>1
  <2>3. QED
    BY <2>1, <2>2
<1>10. r = q
  BY <1>6, <1>8, <1>9, SeqEqual
<1>11. QED
  BY <1>2, <1>3, <1>4, <1>5, <1>7, <1>10

\* The shortest and the longest prefix.
LEMMA PrefixEnds ==
    ASSUME NEW name \in Seq(Segments)
    PROVE  SubSeq(name, 1, 0) = <<>> /\ SubSeq(name, 1, Len(name)) = name
<1>1. Len(name) \in Nat
  OBVIOUS
<1>2. PICK q : q = SubSeq(name, 1, Len(name))
  OBVIOUS
<1>3. q \in Seq(Segments) /\ Len(q) = Len(name) /\ \A j \in 1 .. Len(name) : q[j] = name[j]
  BY <1>1, <1>2, SubSeqProperties
<1>4. q = name
  BY <1>3, SeqEqual
<1>5. SubSeq(name, 1, 0) = <<>>
  BY <1>1, SubSeqProperties
<1>6. QED
  BY <1>2, <1>4, <1>5

\* The way down a name.
LEMMA DescentStage ==
    ASSUME NEW a, NEW P, NEW I, NEW W, NEW p, Stage(a, P, I, W, p),
           NEW name \in Seq(Segments)
    PROVE  Stage(Descent(a, name), P \cup PrefixesTo(name, Len(name)), I,
                 W /\ FineTo(name, Len(name)), name)
<1>1. Len(name) \in Nat
  OBVIOUS
<1>2. PICK down :
        /\ down[0] = Moved(a, 0)
        /\ \A n \in 1 .. Len(name) : down[n] = Descend(down[n - 1], name[n])
        /\ Descent(a, name) = down[Len(name)]
  BY <1>1, DescentSteps
<1> DEFINE Good(i) == Stage(down[i], P \cup PrefixesTo(name, i), I,
                            W /\ FineTo(name, i), SubSeq(name, 1, i))
           S == {i \in Nat : i <= Len(name) => Good(i)}
<1>3. 0 \in S
  <2>1. PICK b : b = Moved(a, 0)
    OBVIOUS
  <2>2. Bounds(a) /\ W \in BOOLEAN
    BY DEF Stage
  <2>3. Bounds(b) /\ b.at = 0 /\ SameContents(a, b)
    BY <2>1, <2>2, AtFacts
  <2>4. ASSUME b.ok
        PROVE  HoldsAt(b, P, I, <<>>)
    <3>1. a.ok
      BY <2>3, <2>4 DEF SameContents
    <3>2. PICK par, path : Holds(a, par, path, P, I, p)
      BY <3>1 DEF Stage, HoldsAt
    <3>3. 0 \in DOMAIN a.node /\ path[0] = <<>>
      BY <3>2 DEF Holds, Tree, Linked
    <3>4. PICK q : q = path[b.at] /\ q = <<>> /\ b.at \in DOMAIN a.node
      BY <2>3, <3>3
    <3>5. SameContents(a, b)
      BY <2>3
    <3>6. Holds(b, par, path, P, I, q)
      <4>1. GoesOnAt(a, b, path, q)
        BY <3>4 DEF GoesOnAt
      <4>2. QED
        BY <3>2, <3>5, <4>1, HoldsElsewhere
    <3>7. QED
      BY <3>4, <3>6 DEF HoldsAt
  <2>5. Stage(b, P, I, W, <<>>)
    BY <2>3, <2>4 DEF Stage, SameContents
  <2>6. P \cup PrefixesTo(name, 0) = P
    BY DEF PrefixesTo
  <2>7. (W /\ FineTo(name, 0)) = W
    BY <2>2 DEF FineTo
  <2>8. SubSeq(name, 1, 0) = <<>>
    BY PrefixEnds
  <2>9. Good(0)
    BY <1>2, <2>1, <2>5, <2>6, <2>7, <2>8
  <2> HIDE DEF Good
  <2>10. QED
    BY <2>9
<1>4. ASSUME NEW i \in Nat, i \in S
      PROVE  i + 1 \in S
  <2> SUFFICES ASSUME i + 1 <= Len(name) PROVE Good(i + 1)
    OBVIOUS
  <2>1. PICK j : j = i + 1 /\ j \in 1 .. Len(name) /\ j - 1 = i
    BY <1>1
  <2>2. PICK x, y, P2, W2 : /\ x = SubSeq(name, 1, i) /\ y = SubSeq(name, 1, j)
                            /\ P2 = P \cup PrefixesTo(name, i)
                            /\ W2 = (W /\ FineTo(name, i))
    OBVIOUS
  <2>3. x \in Seq(Segments) /\ name[j] \in Segments /\ y = Append(x, name[j])
    BY <2>1, <2>2, PrefixFacts
  <2>4. Stage(down[i], P2, I, W2, x)
    BY <1>1, <1>4, <2>2
  <2>5. Stage(Descend(down[i], name[j]), P2 \cup {y}, I, W2 /\ name[j].len > 0, y)
    BY <2>3, <2>4, DescendStage
  <2>6. down[j] = Descend(down[i], name[j])
    BY <1>2, <2>1
  <2>7. P2 \cup {y} = P \cup PrefixesTo(name, j)
    <3>1. \A k : k \in 1 .. j <=> k \in 1 .. i \/ k = j
      BY <2>1
    <3>2. PrefixesTo(name, j) = PrefixesTo(name, i) \cup {y}
      BY <2>2, <3>1 DEF PrefixesTo
    <3>3. QED
      BY <2>2, <3>2
  <2>8. (W2 /\ name[j].len > 0) = (W /\ FineTo(name, j))
    <3>1. \A k : k \in 1 .. j <=> k \in 1 .. i \/ k = j
      BY <2>1
    <3>2. FineTo(name, j) <=> FineTo(name, i) /\ name[j].len > 0
      BY <3>1 DEF FineTo
    <3>3. QED
      BY <2>2, <3>2
  <2>9. Good(j)
    BY <2>2, <2>5, <2>6, <2>7, <2>8
  <2>10. QED
    BY <2>1, <2>9
<1> HIDE DEF S
<1>5. Len(name) \in S
  BY <1>1, <1>3, <1>4, Induction
<1>6. Good(Len(name))
  BY <1>1, <1>5 DEF S
<1>7. SubSeq(name, 1, Len(name)) = name
  BY PrefixEnds
<1>8. QED
  BY <1>2, <1>6, <1>7

\* b is a with an entry of the value for the node n.
Filled(a, b, n, value, size) ==
    /\ Fields(b) /\ b.ok = a.ok /\ b.at = a.at /\ b.used = a.used + size
    /\ DOMAIN b.node = DOMAIN a.node
    /\ \A m \in DOMAIN a.node :
          /\ b.node[m].name = a.node[m].name /\ b.node[m].link = a.node[m].link
          /\ b.node[m] \in Recs
          /\ b.node[m].prop = IF m = n THEN a.used ELSE a.node[m].prop
    /\ DOMAIN b.info = DOMAIN a.info \cup {a.used} /\ b.info[a.used] = value
    /\ \A o \in DOMAIN a.info : o # a.used => b.info[o] = a.info[o]

\* The entry that add makes.
LEMMA FilledFacts ==
    ASSUME NEW a, Fields(a), a.used \in Nat, a.at \in DOMAIN a.node,
           \A m \in DOMAIN a.node : a.node[m] \in Recs,
           NEW value, NEW size, NEW b,
           b = [a EXCEPT !.node[a.at].prop = a.used,
                         !.info = With(@, a.used, value),
                         !.used = @ + size]
    PROVE  Filled(a, b, a.at, value, size)
<1> DEFINE f == a.node
           g == b.node
<1>1. PICK n, u : n = a.at /\ u = a.used
  OBVIOUS
<1>2. /\ Fields(b) /\ b.ok = a.ok /\ b.at = a.at /\ b.used = a.used + size
      /\ b.info = With(a.info, u, value)
      /\ g = [f EXCEPT ![n].prop = u]
  BY <1>1 DEF Fields
<1>3. DOMAIN b.info = DOMAIN a.info \cup {u} /\ b.info[u] = value
      /\ \A o \in DOMAIN a.info : o # u => b.info[o] = a.info[o]
  BY <1>2 DEF With
<1> HIDE DEF g
<1>4. DOMAIN g = DOMAIN f
  BY <1>2
<1>5. \A m \in DOMAIN f : m # n => g[m] = f[m]
  BY <1>2
<1>6. PICK r \in Recs : r = f[n]
  BY <1>1
<1>7. g[n] = [r EXCEPT !.prop = u]
  BY <1>1, <1>2, <1>6
<1>8. PICK x, y, z : r = [name |-> x, prop |-> y, link |-> z]
                     /\ x \in Segments /\ z \in [Links -> Nat]
  BY DEF Recs
<1>9. g[n] = [name |-> x, prop |-> u, link |-> z]
  BY <1>7, <1>8
<1>10. g[n] \in Recs /\ g[n].name = r.name /\ g[n].link = r.link /\ g[n].prop = u
  BY <1>1, <1>8, <1>9 DEF Recs
<1>11. \A m \in DOMAIN f : /\ g[m].name = f[m].name /\ g[m].link = f[m].link
                           /\ g[m] \in Recs
                           /\ g[m].prop = IF m = n THEN u ELSE f[m].prop
  BY <1>5, <1>6, <1>10
<1>12. QED
  BY <1>1, <1>2, <1>3, <1>4, <1>11 DEF g, Filled

\* A filled area holds the property too.
LEMMA FilledHolds ==
    ASSUME NEW a, NEW par, NEW path, NEW P, NEW I, NEW name, Holds(a, par, path, P, I, name),
           Bounds(a), Registry(P, I),
           name \in P, name \notin DOMAIN I, NEW value, NEW size \in Nat, size > 0,
           NEW b, Filled(a, b, a.at, value, size),
           NEW J, J = With(I, name, value), SizeOf(P, J) = a.used + size
    PROVE  Holds(b, par, path, P, J, name)
<1>1. /\ Tree(a, par, path) /\ a.at \in DOMAIN a.node /\ path[a.at] = name
      /\ a.used \in Nat /\ a.used # 0
  <2>1. a.used \in Nat /\ a.used # 0
    BY DEF Bounds, PROP_BT_SIZE
  <2>2. QED
    BY <2>1 DEF Holds
<1>2. Tree(b, par, path)
  <2>1. b.used \in Nat /\ b.used >= a.used
    BY <1>1 DEF Filled
  <2>2. SameShape(a, b)
    BY <2>1 DEF SameShape, Filled
  <2>3. QED
    BY <1>1, <2>2, TreeIsItsShape
<1>3. /\ DOMAIN J = DOMAIN I \cup {name} /\ J[name] = value
      /\ \A n \in DOMAIN I : J[n] = I[n]
  BY DEF With
<1>4. \A o \in DOMAIN a.info : o < a.used /\ o \in Nat
  BY DEF Holds, Entries, Bounds
<1>5. a.used \notin DOMAIN a.info
  BY <1>1, <1>4
<1>6. ASSUME NEW n \in DOMAIN b.node
      PROVE  LET e == b.node[n].prop
             IN  IF path[n] \in DOMAIN J THEN e # 0 /\ e \in DOMAIN b.info /\ b.info[e] = J[path[n]]
                 ELSE e = 0
  <2>1. n \in DOMAIN a.node
    BY <1>6 DEF Filled
  <2>2. CASE n = a.at
    <3>1. b.node[n].prop = a.used /\ path[n] = name
      BY <1>1, <2>1, <2>2 DEF Filled
    <3>2. a.used \in DOMAIN b.info /\ b.info[a.used] = value
      BY DEF Filled
    <3>3. QED
      BY <1>1, <1>3, <3>1, <3>2
  <2>3. CASE n # a.at
    <3>1. path[n] # name
      BY <1>1, <2>1, <2>3, PathsDiffer
    <3>2. b.node[n].prop = a.node[n].prop
      BY <2>1, <2>3 DEF Filled
    <3>3. LET e == a.node[n].prop
          IN  IF path[n] \in DOMAIN I THEN e # 0 /\ e \in DOMAIN a.info /\ a.info[e] = I[path[n]]
              ELSE e = 0
      BY <2>1 DEF Holds, Entries
    <3>4. \A o \in DOMAIN a.info : o \in DOMAIN b.info /\ b.info[o] = a.info[o]
      BY <1>5 DEF Filled
    <3>5. QED
      BY <1>3, <3>1, <3>2, <3>3, <3>4
  <2>4. QED
    BY <2>2, <2>3
<1>7. \A o \in DOMAIN b.info : o < b.used
  <2>1. a.used < b.used /\ b.used = a.used + size
    BY <1>1 DEF Filled
  <2>2. QED
    BY <1>1, <1>4, <2>1 DEF Filled
<1>8. Entries(b, path, J)
  BY <1>6, <1>7 DEF Entries
<1>9. b.used = SizeOf(P, J) /\ b.at \in DOMAIN b.node /\ path[b.at] = name
  BY <1>1 DEF Filled
<1>10. /\ \A n \in DOMAIN b.node : n # 0 => path[n] \in P
       /\ \A q \in P : \E n \in DOMAIN b.node : n # 0 /\ path[n] = q
  BY DEF Holds, Filled
<1>11. QED
  BY <1>2, <1>8, <1>9, <1>10 DEF Holds

\* With a property of that name the paths, the properties and the verdict are Q, J and V.
OneMoreProperty(P, I, W, name, value, Q, J, V) ==
    /\ name \in Paths /\ name \notin DOMAIN I /\ value.len \in Nat
    /\ Q = P \cup PrefixesTo(name, Len(name))
    /\ J = With(I, name, value)
    /\ V = (W /\ FineTo(name, Len(name)))

\* One property more.
LEMMA AddStage ==
    ASSUME NEW a, NEW P, NEW I, NEW W, NEW p, Stage(a, P, I, W, p),
           NEW name, NEW value, NEW Q, NEW J, NEW V,
           OneMoreProperty(P, I, W, name, value, Q, J, V)
    PROVE  Stage(add(a, name, value), Q, J, V, name)
<1> USE DEF OneMoreProperty
<1>1. PICK b, end : b = add(a, name, value) /\ end = Descent(a, name)
  OBVIOUS
<1>2. name \in Seq(Segments) /\ name # <<>> /\ Len(name) \in Nat /\ Len(name) > 0
  BY EmptySeq DEF Paths
<1>3. Stage(end, Q, I, V, name)
  BY <1>1, <1>2, DescentStage
<1>4. /\ Bounds(end) /\ Registry(Q, I) /\ V \in BOOLEAN
      /\ end.ok <=> V /\ SizeOf(Q, I) <= ArenaSize
      /\ end.ok => HoldsAt(end, Q, I, name)
  BY <1>3 DEF Stage
<1>5. name \in Q
  <2>1. SubSeq(name, 1, Len(name)) = name /\ Len(name) \in 1 .. Len(name)
    BY <1>2, PrefixEnds
  <2>2. name \in PrefixesTo(name, Len(name))
    BY <2>1 DEF PrefixesTo
  <2>3. QED
    BY <2>2
<1>6. PICK size : size = InfoSize(name, value)
  OBVIOUS
<1>7. size \in Nat /\ size > 0
  BY <1>6, InfoSizeFacts
<1>8. Registry(Q, J) /\ SizeOf(Q, J) = SizeOf(Q, I) + size
  <2>1. LargerByInfo(Q, I, J, name, value)
    BY <1>4, <1>5, SizeOfOneMoreName
  <2>2. QED
    BY <1>6, <2>1 DEF LargerByInfo
<1>9. SizeOf(Q, I) \in Nat
  BY <1>4, SizeParts
<1>10. CASE ~end.ok
  <2>1. b = Failed(end)
    BY <1>1, <1>10 DEF add
  <2>2. Bounds(b) /\ b.ok = FALSE
    BY <1>4, <2>1, FailedFacts
  <2>3. ~(V /\ SizeOf(Q, I) <= ArenaSize)
    BY <1>4, <1>10
  <2>4. ~(V /\ SizeOf(Q, J) <= ArenaSize)
    BY <1>7, <1>8, <1>9, <2>3, AreaAssumption
  <2>5. QED
    BY <1>1, <1>4, <1>8, <2>2, <2>4 DEF Stage
<1>11. CASE end.ok
  <2>1. PICK par, path : Holds(end, par, path, Q, I, name)
    BY <1>4, <1>11 DEF HoldsAt
  <2>2. /\ end.at \in DOMAIN end.node /\ path[end.at] = name /\ end.used = SizeOf(Q, I)
        /\ \A m \in DOMAIN end.node : end.node[m] \in Recs
    BY <2>1 DEF Holds, Tree
  <2>3. end.node[end.at].prop = 0
    BY <2>1, <2>2 DEF Holds, Entries
  <2>4. CASE ~Fits(end, size)
    <3>1. b = Failed(end)
      BY <1>1, <1>6, <1>11, <2>3, <2>4 DEF add
    <3>2. Bounds(b) /\ b.ok = FALSE
      BY <1>4, <3>1, FailedFacts
    <3>3. ~(SizeOf(Q, J) <= ArenaSize)
      BY <1>8, <2>2, <2>4 DEF Fits
    <3>4. QED
      BY <1>1, <1>4, <1>8, <3>2, <3>3 DEF Stage
  <2>5. CASE Fits(end, size)
    <3>1. b = [end EXCEPT !.node[end.at].prop = end.used,
                          !.info = With(@, end.used, value),
                          !.used = @ + size]
      BY <1>1, <1>6, <1>11, <2>3, <2>5 DEF add
    <3>2. Fields(end) /\ end.used \in Nat /\ end.used >= PROP_BT_SIZE
      BY <1>4 DEF Bounds, PROP_BT_SIZE
    <3>3. Filled(end, b, end.at, value, size)
      BY <2>2, <3>1, <3>2, FilledFacts
    <3>4. SizeOf(Q, J) = end.used + size
      BY <1>8, <2>2
    <3>5. Holds(b, par, path, Q, J, name)
      BY <1>4, <1>5, <1>7, <2>1, <3>3, <3>4, FilledHolds
    <3>6. b.used = end.used + size /\ b.used <= ArenaSize /\ b.used >= end.used
      <4>1. b.used = end.used + size
        BY <3>3 DEF Filled
      <4>2. QED
        BY <1>7, <2>5, <3>2, <4>1 DEF Fits
    <3>7. Bounds(b)
      <4>1. Fields(b) /\ b.ok = end.ok
        BY <3>3 DEF Filled
      <4>2. b.used \in PROP_BT_SIZE .. ArenaSize
        BY <1>7, <3>2, <3>6, AreaAssumption DEF PROP_BT_SIZE
      <4>3. \A o \in 0 .. end.used : o \in 0 .. b.used
        BY <1>7, <3>2, <3>6
      <4>4. DOMAIN b.node \cup DOMAIN b.info \subseteq 0 .. end.used
        BY <1>4, <3>2, <3>3 DEF Filled, Bounds
      <4>5. QED
        BY <1>4, <4>1, <4>2, <4>3, <4>4 DEF Bounds
    <3>8. b.ok /\ V /\ SizeOf(Q, J) <= ArenaSize
      <4>1. b.ok
        BY <1>11, <3>3 DEF Filled
      <4>2. V
        BY <1>4, <1>11
      <4>3. QED
        BY <3>4, <3>6, <4>1, <4>2
    <3>9. QED
      BY <1>1, <1>4, <1>8, <3>5, <3>7, <3>8 DEF Stage, HoldsAt
  <2>6. QED
    BY <2>4, <2>5
<1>12. QED
  BY <1>10, <1>11

-----------------------------------------------------------------------------
(* Merging lines.                                                          *)

\* m has one line for each name of the first n lines: the last of the name.
Merges(m, lines, n) ==
    /\ m \in Seq(Lines)
    /\ \A i \in 1 .. Len(m) : \A j \in 1 .. Len(m) : m[i].name = m[j].name => i = j
    /\ \A i \in 1 .. Len(m) : \E j \in 1 .. n :
          m[i] = lines[j] /\ \A k \in 1 .. n : lines[k].name = m[i].name => k <= j
    /\ \A j \in 1 .. n : \E i \in 1 .. Len(m) : m[i].name = lines[j].name

\* A line of a name that is there takes the place of the earlier one.
LEMMA OverrideReplaces ==
    ASSUME NEW lines \in Seq(Lines), NEW n \in Nat, NEW k, k = n + 1, k <= Len(lines),
           NEW m, Merges(m, lines, n), NEW i0 \in 1 .. Len(m), m[i0].name = lines[k].name
    PROVE  Merges(Override(m, lines[k]), lines, k)
<1>1. m \in Seq(Lines) /\ Len(m) \in Nat /\ DOMAIN m = 1 .. Len(m)
  BY DEF Merges
<1>2. PICK l \in Lines : l = lines[k]
  BY SMTT(30)
<1>3. PICK r : r = [i \in 1 .. Len(m) |-> IF m[i].name = l.name THEN l ELSE m[i]]
  OBVIOUS
<1>4. Override(m, lines[k]) = r
  BY <1>1, <1>2, <1>3 DEF Override
<1>5. \A i \in 1 .. Len(m) : m[i] \in Lines
  BY <1>1
<1>6. r \in Seq(Lines) /\ Len(r) = Len(m)
  BY <1>1, <1>3, <1>5, IsASeq
<1>7. \A i \in 1 .. Len(m) : r[i] = IF m[i].name = l.name THEN l ELSE m[i]
  BY <1>3
<1>8. \A i \in 1 .. Len(m) : r[i].name = m[i].name
  BY <1>7
<1>9. \A i \in 1 .. Len(r) : \A j \in 1 .. Len(r) : r[i].name = r[j].name => i = j
  BY <1>6, <1>8 DEF Merges
<1>10. ASSUME NEW i \in 1 .. Len(r)
       PROVE  \E j \in 1 .. k :
                 r[i] = lines[j] /\ \A h \in 1 .. k : lines[h].name = r[i].name => h <= j
  <2>1. i \in 1 .. Len(m)
    BY <1>6
  <2>2. CASE m[i].name = l.name
    <3>1. k \in 1 .. k /\ \A h \in 1 .. k : h <= k
      OBVIOUS
    <3>2. r[i] = lines[k]
      BY <1>2, <1>7, <2>1, <2>2
    <3>3. QED
      BY <3>1, <3>2
  <2>3. CASE m[i].name # l.name
    <3>1. r[i] = m[i]
      BY <1>7, <2>1, <2>3
    <3>2. PICK j \in 1 .. n :
             m[i] = lines[j] /\ \A h \in 1 .. n : lines[h].name = m[i].name => h <= j
      BY <2>1 DEF Merges
    <3>3. \A h \in 1 .. k : h \in 1 .. n \/ h = k
      OBVIOUS
    <3>4. j \in 1 .. k
      OBVIOUS
    <3>5. \A h \in 1 .. k : lines[h].name = r[i].name => h <= j
      BY <1>2, <2>3, <3>1, <3>2, <3>3
    <3>6. QED
      BY <3>1, <3>2, <3>4, <3>5
  <2>4. QED
    BY <2>2, <2>3
<1>11. \A j \in 1 .. k : \E i \in 1 .. Len(r) : r[i].name = lines[j].name
  <2>1. \A h \in 1 .. k : h \in 1 .. n \/ h = k
    OBVIOUS
  <2>2. \A j \in 1 .. n : \E i \in 1 .. Len(m) : m[i].name = lines[j].name
    BY DEF Merges
  <2>3. \A j \in 1 .. k : \E i \in 1 .. Len(m) : m[i].name = lines[j].name
    BY <2>1, <2>2
  <2>4. QED
    BY <1>6, <1>8, <2>3
<1>12. QED
  BY <1>4, <1>6, <1>9, <1>10, <1>11 DEF Merges

\* A line of a new name comes last.
LEMMA OverrideAppends ==
    ASSUME NEW lines \in Seq(Lines), NEW n \in Nat, NEW k, k = n + 1, k <= Len(lines),
           NEW m, Merges(m, lines, n), \A i \in 1 .. Len(m) : m[i].name # lines[k].name
    PROVE  Merges(Override(m, lines[k]), lines, k)
<1>1. m \in Seq(Lines) /\ Len(m) \in Nat /\ DOMAIN m = 1 .. Len(m)
  BY DEF Merges
<1>2. PICK l \in Lines : l = lines[k]
  BY SMTT(30)
<1>3. PICK r : r = Append(m, l)
  OBVIOUS
<1>4. Override(m, lines[k]) = r
  BY <1>1, <1>2, <1>3 DEF Override
<1>5. PICK e \in Nat : e = Len(m)
  BY <1>1
<1>6. r \in Seq(Lines) /\ Len(r) = e + 1 /\ r[e + 1] = l /\ \A i \in 1 .. e : r[i] = m[i]
  BY <1>1, <1>3, <1>5, AppendProperties
<1>7. \A i \in 1 .. Len(r) : i \in 1 .. e \/ i = e + 1
  BY <1>6
<1>8. \A i \in 1 .. e : i # e + 1 /\ i \in 1 .. Len(r)
  BY <1>6
<1>9. /\ \A i \in 1 .. e : \A j \in 1 .. e : m[i].name = m[j].name => i = j
      /\ \A i \in 1 .. e : \E j \in 1 .. n :
            m[i] = lines[j] /\ \A h \in 1 .. n : lines[h].name = m[i].name => h <= j
      /\ \A j \in 1 .. n : \E i \in 1 .. e : m[i].name = lines[j].name
      /\ \A i \in 1 .. e : m[i].name # l.name
  BY <1>2, <1>5 DEF Merges
<1>10. \A h \in 1 .. k : h \in 1 .. n \/ h = k
  OBVIOUS
<1>11. \A i \in 1 .. Len(r) : \A j \in 1 .. Len(r) : r[i].name = r[j].name => i = j
  BY ZenonT(60), <1>6, <1>7, <1>9
<1>12. ASSUME NEW i \in 1 .. Len(r)
       PROVE  \E j \in 1 .. k :
                 r[i] = lines[j] /\ \A h \in 1 .. k : lines[h].name = r[i].name => h <= j
  <2>1. CASE i = e + 1
    <3>1. k \in 1 .. k /\ \A h \in 1 .. k : h <= k
      OBVIOUS
    <3>2. r[i] = lines[k]
      BY <1>2, <1>6, <2>1
    <3>3. QED
      BY <3>1, <3>2
  <2>2. CASE i \in 1 .. e
    <3>1. r[i] = m[i]
      BY <1>6, <2>2
    <3>2. PICK j \in 1 .. n :
             m[i] = lines[j] /\ \A h \in 1 .. n : lines[h].name = m[i].name => h <= j
      BY <1>9, <2>2
    <3>3. j \in 1 .. k
      OBVIOUS
    <3>4. \A h \in 1 .. k : lines[h].name = r[i].name => h <= j
      BY <1>2, <1>9, <1>10, <2>2, <3>1, <3>2
    <3>5. QED
      BY <3>1, <3>2, <3>3, <3>4
  <2>3. QED
    BY <1>7, <2>1, <2>2
<1>13. \A j \in 1 .. k : \E i \in 1 .. Len(r) : r[i].name = lines[j].name
  <2>1. e + 1 \in 1 .. Len(r) /\ r[e + 1].name = lines[k].name
    BY <1>2, <1>6
  <2>2. ASSUME NEW j \in 1 .. n
        PROVE  \E i \in 1 .. Len(r) : r[i].name = lines[j].name
    <3>1. PICK i \in 1 .. e : m[i].name = lines[j].name
      BY <1>9
    <3>2. i \in 1 .. Len(r) /\ r[i] = m[i]
      BY <1>6, <1>8
    <3>3. QED
      BY <3>1, <3>2
  <2>3. QED
    BY <1>10, <2>1, <2>2
<1>14. Merges(r, lines, k)
  <2>1. r \in Seq(Lines)
    BY <1>6
  <2>2. QED
    BY <1>11, <1>12, <1>13, <2>1 DEF Merges
<1>15. QED
  BY <1>4, <1>14

\* Merging keeps one line for each name, with its last value.
LEMMA MergedMerges ==
    ASSUME NEW lines \in Seq(Lines)
    PROVE  Merges(merged(lines), lines, Len(lines))
<1>1. Len(lines) \in Nat
  OBVIOUS
<1>2. PICK upTo :
        /\ upTo[0] = <<>>
        /\ \A n \in 1 .. Len(lines) : upTo[n] = Override(upTo[n - 1], lines[n])
        /\ merged(lines) = upTo[Len(lines)]
  BY <1>1, MergeSteps
<1> DEFINE S == {n \in Nat : n <= Len(lines) => Merges(upTo[n], lines, n)}
<1>3. 0 \in S
  <2>1. <<>> \in Seq(Lines) /\ Len(<<>>) = 0
    OBVIOUS
  <2>2. Merges(<<>>, lines, 0)
    BY <2>1 DEF Merges
  <2>3. QED
    BY <1>2, <2>2
<1>4. ASSUME NEW n \in Nat, n \in S
      PROVE  n + 1 \in S
  <2> SUFFICES ASSUME n + 1 <= Len(lines) PROVE Merges(upTo[n + 1], lines, n + 1)
    OBVIOUS
  <2>1. PICK k : k = n + 1 /\ k \in 1 .. Len(lines) /\ k - 1 = n /\ k <= Len(lines)
    BY <1>1
  <2>2. PICK m : m = upTo[n]
    OBVIOUS
  <2>3. Merges(m, lines, n)
    BY <1>1, <1>4, <2>2
  <2>4. upTo[k] = Override(m, lines[k])
    BY <1>2, <2>1, <2>2
  <2>5. CASE \E i \in 1 .. Len(m) : m[i].name = lines[k].name
    BY <2>1, <2>3, <2>4, <2>5, OverrideReplaces
  <2>6. CASE \A i \in 1 .. Len(m) : m[i].name # lines[k].name
    BY <2>1, <2>3, <2>4, <2>6, OverrideAppends
  <2>7. QED
    BY <2>5, <2>6
<1> HIDE DEF S
<1>5. Len(lines) \in S
  BY <1>1, <1>3, <1>4, Induction
<1>6. QED
  BY <1>1, <1>2, <1>5 DEF S

-----------------------------------------------------------------------------
(* Writing the lines.                                                      *)

AllPaths(lines, n) == UNION {PrefixesTo(lines[i].name, Len(lines[i].name)) : i \in 1 .. n}

AllFine(lines, n) == \A i \in 1 .. n : FineTo(lines[i].name, Len(lines[i].name))

\* I has the values of the first n lines.
LastValues(I, lines, n) ==
    /\ DOMAIN I = {lines[i].name : i \in 1 .. n}
    /\ \A i \in 1 .. n : I[lines[i].name] = lines[i].value

\* A new area holds nothing.
LEMMA NewAreaStage == Stage(NewArea, {}, <<>>, TRUE, <<>>)
<1>1. PICK a : a = NewArea
  OBVIOUS
<1>2. /\ Fields(a) /\ a.ok = TRUE /\ a.used = 20 /\ a.info = <<>> /\ a.at = 0
      /\ DOMAIN a.node = {0} /\ a.node[0] = Node(RootName)
  BY <1>1 DEF NewArea, Fields, PROP_BT_SIZE
<1>3. /\ a.node[0] \in Recs /\ a.node[0].prop = 0
      /\ \A l \in Links : a.node[0].link[l] = 0
  <2>1. [l \in Links |-> 0] \in [Links -> Nat] /\ RootName \in Segments
    BY DEF RootName, Segments
  <2>2. QED
    BY <1>2, <2>1 DEF Node, Recs
<1>4. DOMAIN a.info = {}
  BY <1>2
<1>5. Bounds(a)
  <2>1. a.ok \in BOOLEAN
    BY <1>2
  <2>2. a.used \in PROP_BT_SIZE .. ArenaSize
    BY <1>2, AreaAssumption DEF PROP_BT_SIZE
  <2>3. DOMAIN a.node \cup DOMAIN a.info \subseteq 0 .. a.used
    BY <1>2, <1>4
  <2>4. QED
    BY <1>2, <2>1, <2>2, <2>3 DEF Bounds
<1>6. Registry({}, <<>>)
  BY FS_EmptySet DEF Registry
<1>7. SizeOf({}, <<>>) = 20
  <2>1. PICK f : f = [p \in {} |-> NodeSize(Last(p))]
    OBVIOUS
  <2>2. PICK I : I = <<>> /\ DOMAIN I = {}
    OBVIOUS
  <2>3. PICK g : g = [n \in DOMAIN I |-> InfoSize(n, I[n])]
    OBVIOUS
  <2>4. SumFunction(f) = 0 /\ SumFunction(g) = 0
    BY <2>1, <2>2, <2>3, SumOfNone
  <2>5. SizeOf({}, I) = PROP_BT_SIZE + SumFunction(f) + SumFunction(g)
    BY <2>1, <2>3 DEF SizeOf
  <2>6. QED
    BY <2>2, <2>4, <2>5 DEF PROP_BT_SIZE
<1>8. PICK par : par = [n \in {0} |-> 0]
  OBVIOUS
<1>9. PICK path : path = [n \in {0} |-> <<>>]
  OBVIOUS
<1>10. par[0] = 0 /\ path[0] = <<>>
  BY <1>8, <1>9
<1>11. Tree(a, par, path)
  <2>1. Linked(a)
    BY <1>2, <1>3 DEF Linked
  <2>2. Parents(a, par)
    BY <1>2, <1>3, <1>10 DEF Parents, Links
  <2>3. Reached(a, par)
    BY <1>2 DEF Reached
  <2>4. <<>> \in Seq(Segments)
    OBVIOUS
  <2>5. QED
    BY ZenonT(60), <1>2, <1>3, <1>10, <2>1, <2>2, <2>3, <2>4 DEF Tree
<1>12. Entries(a, path, <<>>)
  <2>1. DOMAIN (<<>>) = {}
    OBVIOUS
  <2>2. QED
    BY <1>2, <1>3, <1>4, <2>1 DEF Entries
<1>13. Holds(a, par, path, {}, <<>>, <<>>)
  BY <1>2, <1>7, <1>10, <1>11, <1>12 DEF Holds
<1>14. SizeOf({}, <<>>) <= ArenaSize
  BY <1>7, AreaAssumption DEF PROP_BT_SIZE
<1>15. QED
  BY <1>1, <1>2, <1>5, <1>6, <1>13, <1>14 DEF Stage, HoldsAt

\* The area of the lines.
LEMMA WriteStage ==
    ASSUME NEW lines \in Seq(Lines),
           \A i \in 1 .. Len(lines) : \A j \in 1 .. Len(lines) :
              lines[i].name = lines[j].name => i = j
    PROVE  \E I, p : /\ LastValues(I, lines, Len(lines))
                     /\ Stage(Write(lines), AllPaths(lines, Len(lines)), I,
                              AllFine(lines, Len(lines)), p)
<1>1. Len(lines) \in Nat
  OBVIOUS
<1>2. PICK upTo :
        /\ upTo[0] = NewArea
        /\ \A n \in 1 .. Len(lines) : upTo[n] = add(upTo[n - 1], lines[n].name, lines[n].value)
        /\ Write(lines) = upTo[Len(lines)]
  BY <1>1, WriteSteps
<1> DEFINE Good(n) == \E I, p : LastValues(I, lines, n)
                                /\ Stage(upTo[n], AllPaths(lines, n), I, AllFine(lines, n), p)
           S == {n \in Nat : n <= Len(lines) => Good(n)}
<1>3. 0 \in S
  <2>1. AllPaths(lines, 0) = {}
    BY DEF AllPaths
  <2>2. AllFine(lines, 0) = TRUE
    BY DEF AllFine
  <2>3. LastValues(<<>>, lines, 0)
    BY DEF LastValues
  <2>4. Good(0)
    BY <1>2, <2>1, <2>2, <2>3, NewAreaStage
  <2> HIDE DEF Good
  <2>5. QED
    BY <2>4
<1>4. ASSUME NEW n \in Nat, n \in S
      PROVE  n + 1 \in S
  <2> SUFFICES ASSUME n + 1 <= Len(lines) PROVE Good(n + 1)
    OBVIOUS
  <2>1. PICK k : k = n + 1 /\ k \in 1 .. Len(lines) /\ k - 1 = n
    BY <1>1
  <2>2. PICK line \in Lines : line = lines[k]
    BY <2>1, SMTT(30)
  <2>3. PICK name, value : /\ name \in Paths /\ value.len \in Nat
                            /\ name = line.name /\ value = line.value
    BY AreaAssumption DEF Paths
  <2>4. PICK I, p : /\ LastValues(I, lines, n)
                    /\ Stage(upTo[n], AllPaths(lines, n), I, AllFine(lines, n), p)
    BY <1>1, <1>4
  <2>5. \A h : h \in 1 .. k <=> h \in 1 .. n \/ h = k
    BY <2>1
  <2>6. name \notin DOMAIN I
    <3>1. \A h \in 1 .. n : h \in 1 .. Len(lines) /\ h # k
      BY <2>1
    <3>2. QED
      BY <2>1, <2>2, <2>3, <2>4, <3>1 DEF LastValues
  <2>7. PICK J : J = With(I, name, value)
    OBVIOUS
  <2>8. PICK Q : Q = AllPaths(lines, n) \cup PrefixesTo(name, Len(name))
    OBVIOUS
  <2>9. PICK a, P, V : a = upTo[n] /\ P = AllPaths(lines, n) /\ V = AllFine(lines, n)
    OBVIOUS
  <2>10. PICK V2 : /\ V2 = (V /\ FineTo(name, Len(name)))
                  /\ Stage(add(a, name, value), Q, J, V2, name)
    <3>1. Stage(a, P, I, V, p)
      BY <2>4, <2>9
    <3>2. Q = P \cup PrefixesTo(name, Len(name))
      BY <2>8, <2>9
    <3>3. PICK V2 : V2 = (V /\ FineTo(name, Len(name)))
      OBVIOUS
    <3>4. Stage(add(a, name, value), Q, J, V2, name)
      <4>1. OneMoreProperty(P, I, V, name, value, Q, J, V2)
        BY <2>3, <2>6, <2>7, <3>2, <3>3 DEF OneMoreProperty
      <4>2. QED
        BY <3>1, <4>1, AddStage
    <3>5. QED
      BY <3>3, <3>4
  <2>11. upTo[k] = add(a, name, value)
    BY <1>2, <2>1, <2>2, <2>3, <2>9
  <2>12. Q = AllPaths(lines, k)
    BY <2>2, <2>3, <2>5, <2>8 DEF AllPaths
  <2>13. V2 = AllFine(lines, k)
    <3>1. AllFine(lines, k) <=> AllFine(lines, n) /\ FineTo(name, Len(name))
      BY <2>2, <2>3, <2>5 DEF AllFine
    <3>2. V = AllFine(lines, n)
      BY <2>9
    <3>3. AllFine(lines, n) \in BOOLEAN /\ AllFine(lines, k) \in BOOLEAN
      BY DEF AllFine
    <3>4. (V /\ FineTo(name, Len(name))) = AllFine(lines, k)
      BY <3>1, <3>2, <3>3
    <3>5. QED
      BY <2>10, <3>4
  <2>14. LastValues(J, lines, k)
    <3>1. DOMAIN J = DOMAIN I \cup {name} /\ J[name] = value
          /\ \A x \in DOMAIN I : J[x] = I[x]
      BY <2>6, <2>7 DEF With
    <3>2. DOMAIN J = {lines[h].name : h \in 1 .. k}
      BY ZenonT(60), <2>2, <2>3, <2>4, <2>5, <3>1 DEF LastValues
    <3>3. \A h \in 1 .. k : J[lines[h].name] = lines[h].value
      BY <2>2, <2>3, <2>4, <2>5, <3>1 DEF LastValues
    <3>4. QED
      BY <3>2, <3>3 DEF LastValues
  <2>15. Good(k)
    BY <2>10, <2>11, <2>12, <2>13, <2>14
  <2>16. QED
    BY <2>1, <2>15
<1> HIDE DEF S
<1>5. Len(lines) \in S
  BY <1>1, <1>3, <1>4, Induction
<1>6. Good(Len(lines))
  BY <1>1, <1>5 DEF S
<1>7. QED
  BY <1>2, <1>6

-----------------------------------------------------------------------------
(* Finding.                                                                *)

\* c is the node whose path is q, or there is none and c is 0.
NodeOf(a, path, q, c) ==
    /\ c # 0 => c \in DOMAIN a.node /\ path[c] = q
    /\ \A m \in DOMAIN a.node : path[m] = q => m # 0 /\ c = m

LongerBy(x, segment, q) == q = Append(x, segment)

\* A child with a segment is the node of the path that is longer by it.
LEMMA ChildFacts ==
    ASSUME NEW a, NEW par, NEW path, Tree(a, par, path), NEW n \in DOMAIN a.node,
           NEW segment, NEW q, LongerBy(path[n], segment, q)
    PROVE  NodeOf(a, path, q, Child(a, n, segment))
<1>0. q = Append(path[n], segment)
  BY DEF LongerBy
<1>1. /\ Linked(a) /\ Parents(a, par) /\ Reached(a, par)
      /\ path[0] = <<>>
      /\ \A m \in DOMAIN a.node : path[m] \in Seq(Segments)
      /\ \A m \in DOMAIN a.node : m # 0 => path[m] = Append(path[par[m]], a.node[m].name)
  BY DEF Tree
<1>2. PICK c, f : c = Child(a, n, segment) /\ f = a.node[n].link["children"]
  OBVIOUS
<1>3. ASSUME c # 0
      PROVE  c \in DOMAIN a.node /\ path[c] = q
  <2>1. c = BionicSibling(a, f, segment)
    BY <1>2 DEF Child
  <2>2. f # 0
    <3>1. BionicSibling(a, 0, segment) = 0
      BY <1>1, SiblingStep
    <3>2. QED
      BY <1>3, <2>1, <3>1
  <2>3. f \in DOMAIN a.node /\ par[f] = n
    BY <1>1, <1>2, <2>2 DEF Linked, Parents, Links
  <2>4. c \in DOMAIN a.node /\ par[c] = par[f] /\ a.node[c].name = segment
    BY <1>1, <1>3, <2>1, <2>2, <2>3, SiblingStays
  <2>5. QED
    BY <1>0, <1>1, <1>3, <2>3, <2>4
<1>4. ASSUME NEW m \in DOMAIN a.node, path[m] = q
      PROVE  m # 0 /\ Child(a, n, segment) = m
  <2>1. q # <<>>
    BY <1>0, <1>1, AppendIsNotEmpty
  <2>2. m # 0
    BY <1>1, <1>4, <2>1
  <2>3. par[m] \in DOMAIN a.node
    BY <1>1, <2>2 DEF Parents
  <2>4. PICK x, y, t : x = path[par[m]] /\ y = path[n] /\ t = a.node[m].name
    OBVIOUS
  <2>5. Append(x, t) = Append(y, segment)
    BY <1>0, <1>1, <1>4, <2>2, <2>4
  <2>t. x \in Seq(Segments) /\ y \in Seq(Segments)
    BY <1>1, <2>3, <2>4
  <2>6. x = y /\ t = segment
    BY <2>t, <2>5, AppendIsOneToOne
  <2>7. par[m] = n
    BY <2>3, <2>4, <2>6, PathsDiffer
  <2>8. QED
    BY <1>1, <2>2, <2>4, <2>6, <2>7 DEF Reached
<1>5. QED
  BY <1>2, <1>3, <1>4 DEF NodeOf

\* bionic finds the node whose path is the name, if there is one, and no other.
LEMMA FindFacts ==
    ASSUME NEW a, NEW par, NEW path, Tree(a, par, path), NEW name \in Paths
    PROVE  /\ LET n == BionicNode(a, name) IN n # 0 => n \in DOMAIN a.node /\ path[n] = name
           /\ \A m \in DOMAIN a.node : path[m] = name => m # 0 /\ BionicNode(a, name) = m
<1>1. name \in Seq(Segments) /\ Len(name) \in Nat /\ Len(name) > 0
  BY EmptySeq DEF Paths
<1>2. PICK down :
        /\ down[0] = 0
        /\ \A n \in 1 .. Len(name) :
              down[n] = IF n > 1 /\ down[n - 1] = 0 THEN 0 ELSE Child(a, down[n - 1], name[n])
        /\ BionicNode(a, name) = down[Len(name)]
  BY <1>1, FindSteps
<1> DEFINE Good(i) ==
              /\ down[i] # 0 => down[i] \in DOMAIN a.node /\ path[down[i]] = SubSeq(name, 1, i)
              /\ \A m \in DOMAIN a.node :
                    path[m] = SubSeq(name, 1, i) => m = down[i] /\ (i > 0 => m # 0)
           S == {i \in Nat : i <= Len(name) => Good(i)}
<1>3. 0 \in DOMAIN a.node /\ path[0] = <<>> /\ SubSeq(name, 1, 0) = <<>>
  BY <1>1, PrefixEnds DEF Tree, Linked
<1>4. 0 \in S
  <2>1. \A m \in DOMAIN a.node : path[m] = SubSeq(name, 1, 0) => m = 0
    BY <1>3, PathsDiffer
  <2>2. QED
    BY <1>2, <2>1
<1>5. ASSUME NEW i \in Nat, i \in S
      PROVE  i + 1 \in S
  <2> SUFFICES ASSUME i + 1 <= Len(name) PROVE Good(i + 1)
    OBVIOUS
  <2>1. PICK j : j = i + 1 /\ j \in 1 .. Len(name) /\ j - 1 = i /\ j > 0 /\ (j > 1 <=> i # 0)
    BY <1>1
  <2>2. PICK x, y, t, n : x = SubSeq(name, 1, i) /\ y = SubSeq(name, 1, j) /\ t = name[j]
                          /\ n = down[i]
    OBVIOUS
  <2>3. x \in Seq(Segments) /\ t \in Segments /\ y = Append(x, t)
    BY <1>1, <2>1, <2>2, PrefixFacts
  <2>4. /\ n # 0 => n \in DOMAIN a.node /\ path[n] = x
        /\ \A m \in DOMAIN a.node : path[m] = x => m = n /\ (i > 0 => m # 0)
    BY <1>1, <1>5, <2>2
  <2>5. down[j] = IF i # 0 /\ n = 0 THEN 0 ELSE Child(a, n, t)
    BY <1>2, <2>1, <2>2
  <2>6. CASE i # 0 /\ n = 0
    <3>1. \A m \in DOMAIN a.node : path[m] # x
      BY <2>4, <2>6
    <3>2. ASSUME NEW m \in DOMAIN a.node, path[m] = y
          PROVE  FALSE
      <4>1. m # 0
        BY <1>3, <2>3, <3>2, AppendIsNotEmpty
      <4>2. par[m] \in DOMAIN a.node /\ path[par[m]] \in Seq(Segments)
            /\ y = Append(path[par[m]], a.node[m].name)
        BY <3>2, <4>1 DEF Tree, Parents
      <4>3. PICK z, u : z = path[par[m]] /\ u = a.node[m].name
        OBVIOUS
      <4>t. z \in Seq(Segments) /\ x \in Seq(Segments)
        BY <2>3, <4>2, <4>3
      <4>4. Append(z, u) = Append(x, t)
        BY <2>3, <4>2, <4>3
      <4>5. z = x
        BY SMTT(30), <4>t, <4>4, AppendIsOneToOne
      <4>6. QED
        BY <3>1, <4>2, <4>3, <4>5
    <3>3. down[j] = 0
      BY <2>5, <2>6
    <3>4. QED
      BY <2>1, <2>2, <3>2, <3>3
  <2>7. CASE ~(i # 0 /\ n = 0)
    <3>1. n \in DOMAIN a.node /\ path[n] = x
      BY <1>2, <1>3, <2>2, <2>4, <2>7
    <3>2. down[j] = Child(a, n, t)
      BY <2>5, <2>7
    <3>3. NodeOf(a, path, y, Child(a, n, t))
      <4>1. LongerBy(path[n], t, y)
        BY <2>3, <3>1 DEF LongerBy
      <4>2. QED
        BY <3>1, <4>1, ChildFacts
    <3>4. QED
      BY <2>1, <2>2, <3>2, <3>3 DEF NodeOf
  <2>8. QED
    BY <2>6, <2>7
<1> HIDE DEF S
<1>6. Len(name) \in S
  BY <1>1, <1>4, <1>5, Induction
<1>7. Good(Len(name))
  BY <1>1, <1>6 DEF S
<1>8. SubSeq(name, 1, Len(name)) = name
  BY <1>1, PrefixEnds
<1>9. QED
  BY <1>1, <1>2, <1>7, <1>8

\* find of a path of the area is the value the area has for it.
LEMMA FindValue ==
    ASSUME NEW a, NEW P, NEW I, NEW p, HoldsAt(a, P, I, p), Registry(P, I), NEW name \in Paths
    PROVE  BionicFind(a, name) = IF name \in DOMAIN I THEN <<I[name]>> ELSE <<>>
<1>1. PICK par, path : Holds(a, par, path, P, I, p)
  BY DEF HoldsAt
<1>2. Tree(a, par, path) /\ Entries(a, path, I)
  BY <1>1 DEF Holds
<1>3. PICK n : n = BionicNode(a, name)
  OBVIOUS
<1>4. /\ n # 0 => n \in DOMAIN a.node /\ path[n] = name
      /\ \A m \in DOMAIN a.node : path[m] = name => m # 0 /\ n = m
  BY <1>2, <1>3, FindFacts
<1>5. BionicFind(a, name) = IF n = 0 \/ a.node[n].prop = 0 THEN <<>>
                            ELSE <<a.info[a.node[n].prop]>>
  BY <1>3 DEF BionicFind
<1>6. CASE name \in DOMAIN I
  <2>1. name \in P
    BY <1>6 DEF Registry
  <2>2. PICK m \in DOMAIN a.node : path[m] = name
    BY <1>1, <2>1 DEF Holds
  <2>3. n = m /\ n # 0
    BY <1>4, <2>2
  <2>4. a.node[n].prop # 0 /\ a.info[a.node[n].prop] = I[name]
    BY <1>2, <1>6, <2>2, <2>3 DEF Entries
  <2>5. QED
    BY <1>5, <1>6, <2>3, <2>4
<1>7. CASE name \notin DOMAIN I
  <2>1. CASE n = 0
    BY <1>5, <1>7, <2>1
  <2>2. CASE n # 0
    <3>1. a.node[n].prop = 0
      BY <1>2, <1>4, <1>7, <2>2 DEF Entries
    <3>2. QED
      BY <1>5, <1>7, <3>1
  <2>3. QED
    BY <2>1, <2>2
<1>8. QED
  BY <1>6, <1>7

-----------------------------------------------------------------------------
(* What the area holds in the end.                                         *)

AreaInv ==
    /\ props \in Seq(Lines) /\ Len(props) <= MaxLines
    /\ area = write_properties_dir(props)

\* The value that merging leaves a name is that of its last line.
LEMMA LatestFacts ==
    ASSUME props \in Seq(Lines), NEW m, Merges(m, props, Len(props))
    PROVE  /\ Given = {m[i].name : i \in 1 .. Len(m)}
           /\ \A i \in 1 .. Len(m) : Latest(m[i].name) = m[i].value
<1>1. DOMAIN props = 1 .. Len(props) /\ Len(props) \in Nat
  OBVIOUS
<1>2. /\ \A i \in 1 .. Len(m) : \E j \in 1 .. Len(props) :
            m[i] = props[j] /\ \A k \in 1 .. Len(props) : props[k].name = m[i].name => k <= j
      /\ \A j \in 1 .. Len(props) : \E i \in 1 .. Len(m) : m[i].name = props[j].name
  BY DEF Merges
<1>3. Given = {m[i].name : i \in 1 .. Len(m)}
  <2>1. \A x \in Given : x \in {m[i].name : i \in 1 .. Len(m)}
    BY <1>1, <1>2 DEF Given
  <2>2. ASSUME NEW i \in 1 .. Len(m)
        PROVE  m[i].name \in Given
    <3>1. PICK j \in 1 .. Len(props) : m[i] = props[j]
      BY <1>2
    <3>2. QED
      BY <1>1, <3>1 DEF Given
  <2>3. QED
    BY <2>1, <2>2
<1>4. ASSUME NEW i \in 1 .. Len(m)
      PROVE  Latest(m[i].name) = m[i].value
  <2>1. PICK name : name = m[i].name
    OBVIOUS
  <2>2. PICK j \in 1 .. Len(props) :
           m[i] = props[j] /\ \A k \in 1 .. Len(props) : props[k].name = name => k <= j
    BY <1>2, <2>1
  <2> DEFINE Is(k) == props[k].name = name
                      /\ \A h \in DOMAIN props : props[h].name = name => h <= k
  <2>3. j \in DOMAIN props /\ Is(j)
    BY <1>1, <2>1, <2>2
  <2>4. \A k \in DOMAIN props : Is(k) => k = j
    BY <1>1, <2>3
  <2>5. Latest(name) = props[CHOOSE k \in DOMAIN props : Is(k)].value
    BY DEF Latest
  <2>6. (CHOOSE k \in DOMAIN props : Is(k)) = j
    <3> HIDE DEF Is
    <3>1. QED
      BY <2>3, <2>4
  <2>7. QED
    BY <2>1, <2>2, <2>5, <2>6
<1>5. QED
  BY <1>3, <1>4

\* What is written holds what its lines say.
LEMMA WrittenHolds ==
    ASSUME AreaInv
    PROVE  AreaTypeOK /\ PropertiesAreFound
<1>1. PICK m : m = merged(props)
  OBVIOUS
<1>2. props \in Seq(Lines) /\ Len(props) <= MaxLines /\ area = Write(m)
  BY <1>1 DEF AreaInv, write_properties_dir
<1>3. Merges(m, props, Len(props))
  BY <1>1, <1>2, MergedMerges
<1>4. /\ m \in Seq(Lines)
      /\ \A i \in 1 .. Len(m) : \A j \in 1 .. Len(m) : m[i].name = m[j].name => i = j
  BY <1>3 DEF Merges
<1>5. PICK I, p : /\ LastValues(I, m, Len(m))
                  /\ Stage(area, AllPaths(m, Len(m)), I, AllFine(m, Len(m)), p)
  BY <1>2, <1>4, WriteStage
<1>6. /\ Given = {m[i].name : i \in 1 .. Len(m)}
      /\ \A i \in 1 .. Len(m) : Latest(m[i].name) = m[i].value
  BY <1>2, <1>3, LatestFacts
<1>7. DOMAIN I = Given /\ \A name \in Given : I[name] = Latest(name)
  BY <1>5, <1>6 DEF LastValues
<1>8. AllPaths(m, Len(m)) = Nodes
  <2>1. PICK G : G = {m[i].name : i \in 1 .. Len(m)}
    OBVIOUS
  <2>2. G = Given
    BY <1>6, <2>1
  <2>3. \A x : x \in AllPaths(m, Len(m)) <=> \E name \in G : x \in PrefixesTo(name, Len(name))
    BY <2>1 DEF AllPaths
  <2>4. \A x : x \in Nodes <=> \E name \in Given : x \in PrefixesTo(name, Len(name))
    BY DEF Nodes, PrefixesTo
  <2>5. QED
    BY <2>2, <2>3, <2>4
<1>9. \A name \in Given : name \in Paths /\ DOMAIN name = 1 .. Len(name)
  <2>1. \A i \in 1 .. Len(m) : m[i] \in Lines
    BY <1>4
  <2>2. \A name \in Given : name \in Paths
    BY <1>6, <2>1, AreaAssumption DEF Paths
  <2>3. QED
    BY <2>2 DEF Paths
<1>10. AllFine(m, Len(m)) <=> WellFormed
  BY <1>6, <1>9 DEF AllFine, FineTo, WellFormed
<1>11. Registry(Nodes, I) /\ Bounds(area)
  BY <1>5, <1>8 DEF Stage
<1>12. SizeOf(Nodes, I) = SizeNeeded
  <2>1. [name \in DOMAIN I |-> InfoSize(name, I[name])] =
           [name \in Given |-> InfoSize(name, Latest(name))]
    BY <1>7
  <2>2. QED
    BY <2>1 DEF SizeOf, SizeNeeded
<1>13. area.ok <=> WellFormed /\ SizeNeeded <= ArenaSize
  BY <1>5, <1>8, <1>10, <1>12 DEF Stage
<1>14. ASSUME area.ok, NEW line \in Lines
       PROVE  BionicFind(area, line.name) =
                 IF line.name \in Given THEN <<Latest(line.name)>> ELSE <<>>
  <2>1. HoldsAt(area, Nodes, I, p)
    BY <1>5, <1>8, <1>14 DEF Stage
  <2>2. PICK name \in Paths : name = line.name
    BY AreaAssumption DEF Paths
  <2>3. BionicFind(area, name) = IF name \in DOMAIN I THEN <<I[name]>> ELSE <<>>
    BY <1>11, <2>1, FindValue
  <2>4. QED
    BY <1>7, <2>2, <2>3
<1>15. AreaTypeOK
  BY <1>2, <1>11 DEF Bounds, AreaTypeOK
<1>16. QED
  BY <1>13, <1>14, <1>15 DEF PropertiesAreFound

AreaSpec == AreaInit /\ [][AreaNext]_areaVars

\* A new area holds what no lines say.
LEMMA AreaInitially == AreaInit => AreaInv
<1> SUFFICES ASSUME AreaInit PROVE AreaInv
  OBVIOUS
<1>1. props = <<>> /\ area = NewArea
  BY DEF AreaInit
<1>2. PICK none : none = <<>> /\ none \in Seq(Lines) /\ Len(none) = 0 /\ Len(none) \in Nat
  <2>1. <<>> \in Seq(Lines)
    OBVIOUS
  <2>2. Len(<<>>) = 0 /\ Len(<<>>) \in Nat
    OBVIOUS
  <2>3. QED
    BY <2>1, <2>2
<1>3. merged(none) = none
  <2>1. PICK upTo : upTo[0] = <<>> /\ merged(none) = upTo[Len(none)]
    BY <1>2, MergeSteps
  <2>2. QED
    BY <1>2, <2>1
<1>4. Write(none) = NewArea
  <2>1. PICK upTo : upTo[0] = NewArea /\ Write(none) = upTo[Len(none)]
    BY <1>2, WriteSteps
  <2>2. QED
    BY <1>2, <2>1
<1>5. Len(none) <= MaxLines
  BY <1>2, AreaAssumption
<1>6. QED
  BY <1>1, <1>2, <1>3, <1>4, <1>5 DEF AreaInv, write_properties_dir

\* Each line that is read keeps the invariant.
LEMMA AreaStep == AreaInv /\ [AreaNext]_areaVars => AreaInv'
<1> SUFFICES ASSUME AreaInv, [AreaNext]_areaVars PROVE AreaInv'
  OBVIOUS
<1>1. CASE AreaNext
  <2>1. PICK line \in Lines : ReadLine(line)
    BY <1>1 DEF AreaNext
  <2>2. /\ Len(props) < MaxLines /\ props' = Append(props, line)
        /\ area' = write_properties_dir(props')
    BY <2>1 DEF ReadLine
  <2>3. props \in Seq(Lines) /\ Len(props) \in Nat /\ MaxLines \in Nat
    BY AreaAssumption DEF AreaInv
  <2>4. props' \in Seq(Lines) /\ Len(props') = Len(props) + 1
    BY <2>2, <2>3, AppendProperties
  <2>5. Len(props') <= MaxLines
    BY <2>2, <2>3, <2>4
  <2>6. QED
    BY <2>2, <2>4, <2>5 DEF AreaInv
<1>2. CASE UNCHANGED areaVars
  BY <1>2 DEF AreaInv, areaVars
<1>3. QED
  BY <1>1, <1>2

\* For any lines and any size of the arena, every property is found with its last value,
\* a name that was not given is not found, and the write fails only where a segment is
\* empty or what is needed does not fit.
THEOREM PropertiesAreFoundAlways == AreaSpec => [](AreaTypeOK /\ PropertiesAreFound)
<1>1. AreaInit => AreaInv
  BY AreaInitially
<1>2. AreaInv /\ [AreaNext]_areaVars => AreaInv'
  BY AreaStep
<1>3. AreaInv => AreaTypeOK /\ PropertiesAreFound
  BY WrittenHolds
<1>4. QED
  BY <1>1, <1>2, <1>3, PTL DEF AreaSpec
=============================================================================
