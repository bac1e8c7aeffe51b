---------------------------- MODULE SequenceFacts ---------------------------
(***************************************************************************)
(* Facts about numbers and sequences that the proofs of several components *)
(* rest on: induction and least elements, without a predicate as parameter *)
(* (they follow from the well-founded inclusion of finite sets), and what  *)
(* VecRetain!Retain leaves of a sequence.                                  *)
(***************************************************************************)
EXTENDS VecRetain, SequenceTheorems, FiniteSetTheorems, WellFoundedInduction, TLAPS

\* Among subsets of a finite set there is one that contains no other.
LEMMA MinimalSubset ==
    ASSUME NEW S, IsFiniteSet(S), NEW F, F \subseteq SUBSET S, F # {}
    PROVE  \E T \in F : \A U \in F : U \subseteq T => U = T
<1>1. IsWellFoundedOn(StrictSubsetOrdering(S), FiniteSubsetsOf(S))
  BY FS_StrictSubsetOrderingWellFounded
<1>2. FiniteSubsetsOf(S) = SUBSET S
  BY FS_FiniteSubsetsOfFinite
<1>3. PICK T \in F : \A U \in F : ~(<<U, T>> \in StrictSubsetOrdering(S))
  BY <1>1, <1>2, WFMin
<1>4. ASSUME NEW U \in F, U \subseteq T, U # T
      PROVE FALSE
  <2>1. <<U, T>> \in (SUBSET S) \X (SUBSET S)
    OBVIOUS
  <2>2. <<U, T>> \in StrictSubsetOrdering(S)
    BY <1>4, <2>1 DEF StrictSubsetOrdering
  <2>3. QED
    BY <1>3, <2>2
<1>5. QED
  BY <1>4

\* A set of natural numbers with 0 and with every successor has them all.
LEMMA Induction ==
    ASSUME NEW S, 0 \in S, \A n \in Nat : n \in S => n + 1 \in S
    PROVE  \A n \in Nat : n \in S
<1> SUFFICES ASSUME NEW k \in Nat, k \notin S PROVE FALSE
  OBVIOUS
<1> DEFINE K == 0 .. k
           F == {T \in SUBSET (0 .. k) : \E n \in (0 .. k) \ S : T = 0 .. n}
<1>1. IsFiniteSet(K)
  BY FS_Interval
<1>2. F \subseteq SUBSET K /\ F # {}
  OBVIOUS
<1> HIDE DEF F, K
<1>3. PICK T \in F : \A U \in F : U \subseteq T => U = T
  BY <1>1, <1>2, MinimalSubset
<1> USE DEF F, K
<1>4. PICK n \in (0 .. k) \ S : T = 0 .. n
  OBVIOUS
<1>5. n # 0 /\ n - 1 \in Nat /\ n - 1 \in 0 .. k /\ (n - 1) + 1 = n
  OBVIOUS
<1>6. n - 1 \notin S
  BY <1>5
<1>7. 0 .. n - 1 \in F
  BY <1>5, <1>6
<1>8. 0 .. n - 1 \subseteq 0 .. n /\ n \in 0 .. n /\ n \notin 0 .. n - 1
  BY <1>5
<1>9. QED
  BY <1>3, <1>4, <1>7, <1>8

\* A set of natural numbers that is not empty has a least element.
LEMMA LeastNatural ==
    ASSUME NEW S \in SUBSET Nat, S # {}
    PROVE  \E n \in S : \A k \in S : n <= k
<1> SUFFICES ASSUME \A n \in S : \E k \in S : k < n PROVE FALSE
  OBVIOUS
<1> DEFINE R == {n \in Nat : \A k \in S : n <= k}
<1>1. 0 \in R
  OBVIOUS
<1>2. ASSUME NEW n \in Nat, n \in R
      PROVE  n + 1 \in R
  <2>1. n \notin S
    BY <1>2
  <2>2. QED
    BY <1>2, <2>1
<1> HIDE DEF R
<1>3. \A n \in Nat : n \in R
  BY <1>1, <1>2, Induction
<1>4. PICK n \in S : TRUE
  OBVIOUS
<1>5. n + 1 \in R
  BY <1>3
<1>6. QED
  BY <1>4, <1>5 DEF R

-----------------------------------------------------------------------------
\* Retain goes through the sequence element by element.
LEMMA RetainSteps ==
    ASSUME NEW q, Len(q) \in Nat, NEW keep
    PROVE  \E left :
              /\ left[0] = <<>>
              /\ \A n \in 1 .. Len(q) :
                    left[n] = IF q[n] \in keep THEN Append(left[n - 1], q[n]) ELSE left[n - 1]
              /\ Retain(q, keep) = left[Len(q)]
<1> DEFINE Is(g, k) == g = [n \in 0 .. k |->
                              IF n = 0 THEN <<>>
                              ELSE IF q[n] \in keep THEN Append(g[n - 1], q[n])
                              ELSE g[n - 1]]
           S == {k \in Nat : \E g : Is(g, k)}
<1>1. 0 \in S
  <2>1. Is([n \in 0 .. 0 |-> <<>>], 0)
    OBVIOUS
  <2>2. QED
    BY <2>1
<1>2. ASSUME NEW k \in Nat, k \in S
      PROVE  k + 1 \in S
  <2>1. PICK g : Is(g, k)
    BY <1>2
  <2> DEFINE h == [n \in 0 .. k + 1 |->
                     IF n = k + 1
                     THEN IF q[k + 1] \in keep THEN Append(g[k], q[k + 1]) ELSE g[k]
                     ELSE g[n]]
  <2>2. \A n \in 0 .. k : g[n] = IF n = 0 THEN <<>>
                                 ELSE IF q[n] \in keep THEN Append(g[n - 1], q[n])
                                 ELSE g[n - 1]
    BY <2>1
  <2>3. \A n \in 0 .. k : n \in 0 .. k + 1 /\ n # k + 1 /\ h[n] = g[n]
    OBVIOUS
  <2>4. \A n \in 1 .. k : n - 1 \in 0 .. k /\ n \in 0 .. k
    OBVIOUS
  <2>5. h[k + 1] = IF q[k + 1] \in keep THEN Append(g[k], q[k + 1]) ELSE g[k]
    OBVIOUS
  <2>6. (k + 1) - 1 = k /\ k + 1 # 0 /\ k \in 0 .. k /\ 0 \in 0 .. k
    OBVIOUS
  <2>7. \A n \in 0 .. k + 1 : n = 0 \/ n \in 1 .. k \/ n = k + 1
    OBVIOUS
  <2> HIDE DEF h
  <2>8. \A n \in 0 .. k + 1 : h[n] = IF n = 0 THEN <<>>
                                     ELSE IF q[n] \in keep THEN Append(h[n - 1], q[n])
                                     ELSE h[n - 1]
    BY <2>2, <2>3, <2>4, <2>5, <2>6, <2>7
  <2>9. Is(h, k + 1)
    BY <2>8 DEF h
  <2>10. QED
    BY SMTT(30), <2>9
<1> HIDE DEF S
<1>3. Len(q) \in S
  BY <1>1, <1>2, Induction
<1>4. PICK f : Is(f, Len(q))
  BY <1>3 DEF S
<1> DEFINE left == CHOOSE g : Is(g, Len(q))
<1>5. Retain(q, keep) = left[Len(q)]
  BY DEF Retain
<1>6. Is(left, Len(q))
  BY <1>4
<1> HIDE DEF left
<1>7. left[0] = <<>>
  BY <1>6
<1>8. \A n \in 1 .. Len(q) :
        left[n] = IF q[n] \in keep THEN Append(left[n - 1], q[n]) ELSE left[n - 1]
  <2> SUFFICES ASSUME NEW n \in 1 .. Len(q)
               PROVE  left[n] = IF q[n] \in keep THEN Append(left[n - 1], q[n]) ELSE left[n - 1]
    OBVIOUS
  <2>1. n \in 0 .. Len(q) /\ n # 0
    OBVIOUS
  <2>2. QED
    BY <1>6, <2>1
<1>9. QED
  BY <1>5, <1>7, <1>8

\* What is retained of a sequence is a sequence of those of its elements that are kept.
LEMMA RetainFacts ==
    ASSUME NEW T, NEW q \in Seq(T), NEW keep
    PROVE  /\ Retain(q, keep) \in Seq(T)
           /\ Len(Retain(q, keep)) <= Len(q)
           /\ \A i \in DOMAIN Retain(q, keep) :
                 /\ Retain(q, keep)[i] \in keep
                 /\ \E j \in DOMAIN q : q[j] = Retain(q, keep)[i]
           /\ \A j \in DOMAIN q : q[j] \in keep =>
                 \E i \in DOMAIN Retain(q, keep) : Retain(q, keep)[i] = q[j]
<1>1. PICK left :
              /\ left[0] = <<>>
              /\ \A n \in 1 .. Len(q) :
                    left[n] = IF q[n] \in keep THEN Append(left[n - 1], q[n]) ELSE left[n - 1]
              /\ Retain(q, keep) = left[Len(q)]
  BY RetainSteps
<1> DEFINE Good(n) ==
             /\ left[n] \in Seq(T)
             /\ Len(left[n]) <= n
             /\ \A i \in 1 .. Len(left[n]) :
                   left[n][i] \in keep /\ \E j \in 1 .. n : q[j] = left[n][i]
             /\ \A j \in 1 .. n : q[j] \in keep => \E i \in 1 .. Len(left[n]) : left[n][i] = q[j]
           S == {n \in Nat : n <= Len(q) => Good(n)}
<1>2. 0 \in S
  <2>1. left[0] \in Seq(T) /\ Len(left[0]) = 0
    BY <1>1
  <2>2. QED
    BY <2>1
<1>3. ASSUME NEW n \in Nat, n \in S
      PROVE  n + 1 \in S
  <2> SUFFICES ASSUME n + 1 <= Len(q) PROVE Good(n + 1)
    OBVIOUS
  <2>1. Good(n) /\ n + 1 \in 1 .. Len(q) /\ (n + 1) - 1 = n /\ q[n + 1] \in T
    BY <1>3
  <2>2. left[n + 1] = IF q[n + 1] \in keep THEN Append(left[n], q[n + 1]) ELSE left[n]
    BY <1>1, <2>1
  <2>3. CASE q[n + 1] \notin keep
    BY <2>1, <2>2, <2>3
  <2>4. CASE q[n + 1] \in keep
    <3> DEFINE l == left[n]
               m == left[n + 1]
    <3>1. /\ m \in Seq(T) /\ Len(m) = Len(l) + 1 /\ m[Len(l) + 1] = q[n + 1]
          /\ \A i \in 1 .. Len(l) : m[i] = l[i]
      BY <2>1, <2>2, <2>4
    <3>2. l \in Seq(T) /\ Len(l) \in Nat /\ Len(l) <= n
      BY <2>1
    <3>3. \A i \in 1 .. Len(l) : l[i] \in keep /\ \E j \in 1 .. n : q[j] = l[i]
      BY <2>1
    <3>4. \A j \in 1 .. n : q[j] \in keep => \E i \in 1 .. Len(l) : l[i] = q[j]
      BY <2>1
    <3> HIDE DEF l, m
    <3>5. Len(m) <= n + 1
      BY <3>1, <3>2
    <3>6. \A i \in 1 .. Len(m) : m[i] \in keep /\ \E j \in 1 .. n + 1 : q[j] = m[i]
      BY <3>1, <3>2, <3>3, <2>4
    <3>7. \A j \in 1 .. n + 1 : q[j] \in keep => \E i \in 1 .. Len(m) : m[i] = q[j]
      BY <3>1, <3>2, <3>4
    <3>8. QED
      BY <3>1, <3>5, <3>6, <3>7 DEF m
  <2>5. QED
    BY <2>3, <2>4
<1> HIDE DEF S
<1>4. Len(q) \in S
  BY <1>2, <1>3, Induction
<1>5. Good(Len(q)) /\ DOMAIN q = 1 .. Len(q)
  BY <1>4 DEF S
<1>6. ASSUME NEW r \in Seq(T) PROVE DOMAIN r = 1 .. Len(r)
  OBVIOUS
<1>7. Retain(q, keep) = left[Len(q)] /\ DOMAIN left[Len(q)] = 1 .. Len(left[Len(q)])
  BY <1>1, <1>5, <1>6
<1>8. QED
  BY <1>5, <1>7
=============================================================================
