--------------------------- MODULE SelectionProofs ---------------------------
(***************************************************************************)
(* What Among gives, for every sequence and every set.  A recursive        *)
(* function is reasoned about by an induction over a set of naturals,      *)
(* which needs no more than that < is well-founded on them.                *)
(***************************************************************************)
EXTENDS Selection, Integers, FiniteSetTheorems, TLAPS

\* A set of naturals that is not empty has a least element.
LEMMA LeastElement ==
    ASSUME NEW T, T \subseteq Nat, T # {}
    PROVE  \E x \in T : \A y \in T : x <= y
<1> DEFINE R == OpToRel(<, Nat)
<1>1. IsWellFoundedOn(R, Nat)
    BY NatLessThanWellFounded, Zenon
<1>2. \A x, y \in Nat : y < x => <<y, x>> \in R
    BY DEF OpToRel
<1> HIDE DEF R
<1>3. \E x \in T : \A y \in T : ~(<<y, x>> \in R)
    BY <1>1, WFMin
<1>4. PICK x \in T : \A y \in T : ~(<<y, x>> \in R)
    BY <1>3
<1>5. ASSUME NEW y \in T
      PROVE  x <= y
    <2>1. ~(y < x)
        BY <1>2, <1>4
    <2> QED
        BY <2>1
<1> QED
    BY <1>4, <1>5

\* Every set of naturals with 0 and the successors of its elements has all of them.
LEMMA Induction ==
    ASSUME NEW T, 0 \in T, \A n \in Nat : n \in T => n + 1 \in T
    PROVE  Nat \subseteq T
<1> SUFFICES ASSUME NEW z \in Nat \ T
             PROVE  FALSE
    OBVIOUS
<1>1. PICK x \in Nat \ T : \A y \in Nat \ T : x <= y
    BY LeastElement
<1>2. x - 1 \in Nat /\ (x - 1) + 1 = x
    BY <1>1
<1>3. x - 1 \in T
    BY <1>1, <1>2
<1> QED
    BY <1>1, <1>2, <1>3

\* The recursive definition is one: there is a function that satisfies it.
LEMMA GatheredDef ==
    ASSUME NEW s, Len(s) \in Nat, NEW S
    PROVE  LET g == Gathered(s, S) IN
           g = [n \in 0..Len(s) |->
                  IF n = 0 THEN <<>>
                  ELSE IF s[n] \in S THEN Append(g[n - 1], s[n]) ELSE g[n - 1]]
<1> DEFINE Step(f, n) == IF n = 0 THEN <<>>
                         ELSE IF s[n] \in S THEN Append(f[n - 1], s[n]) ELSE f[n - 1]
           T == {m \in Nat : \E f : f = [n \in 0..m |-> Step(f, n)]}
<1>1. 0 \in T
    <2> DEFINE f == [n \in 0..0 |-> <<>>]
    <2>1. f = [n \in 0..0 |-> Step(f, n)]
        OBVIOUS
    <2> QED
        BY <2>1
<1>2. ASSUME NEW m \in Nat, m \in T
      PROVE  m + 1 \in T
    <2>1. PICK g : g = [n \in 0..m |-> Step(g, n)]
        BY <1>2
    <2> HIDE DEF Step
    <2>2. \A n \in 0..m : g[n] = Step(g, n)
        BY <2>1
    <2> DEFINE h == [n \in 0..(m + 1) |-> IF n = m + 1 THEN Step(g, n) ELSE g[n]]
    <2>3. \A n \in 0..(m + 1) : h[n] = Step(h, n)
        <3> SUFFICES ASSUME NEW n \in 0..(m + 1)
                     PROVE  h[n] = Step(h, n)
            OBVIOUS
        <3>1. h[n] = Step(g, n)
            BY <2>2
        <3>2. n # 0 => h[n - 1] = g[n - 1]
            OBVIOUS
        <3> HIDE DEF h
        <3> QED
            BY <3>1, <3>2 DEF Step
    <2>4. h = [n \in 0..(m + 1) |-> Step(h, n)]
        <3> DEFINE r == [n \in 0..(m + 1) |-> Step(h, n)]
        <3>1. DOMAIN h = 0..(m + 1) /\ h = [n \in 0..(m + 1) |-> h[n]]
            OBVIOUS
        <3> HIDE DEF h
        <3> QED
            BY <3>1, <2>3
    <2> HIDE DEF h
    <2> QED
        BY <2>4
<1> HIDE DEF T
<1>3. Nat \subseteq T
    BY <1>1, <1>2, Induction
<1>4. PICK f : f = [n \in 0..Len(s) |-> Step(f, n)]
    BY <1>3 DEF T
<1>5. Gathered(s, S) = CHOOSE g : g = [n \in 0..Len(s) |-> Step(g, n)]
    BY DEF Gathered
<1> QED
    BY <1>4, <1>5

\* The elements of r are those elements of s, at places up to n, that are in S, in
\* the same order: f[k] is the place of the k-th of them.
Follows(r, s, S, n, f) ==
    /\ f \in [1..Len(r) -> 1..n]
    /\ \A k \in 1..Len(r) : r[k] = s[f[k]]
    /\ \A k, m \in 1..Len(r) : k < m => f[k] < f[m]
    /\ \A p \in 1..n : s[p] \in S <=> \E k \in 1..Len(r) : f[k] = p

\* One more element is passed over.
LEMMA FollowsSkip ==
    ASSUME NEW T, NEW r \in Seq(T), NEW s, NEW S, NEW n \in Nat, NEW f,
           Follows(r, s, S, n, f), s[n + 1] \notin S
    PROVE  Follows(r, s, S, n + 1, f)
<1>1. \A k \in 1..Len(r) : f[k] \in 1..n
    BY DEF Follows
<1>2. f \in [1..Len(r) -> 1..(n + 1)]
    BY DEF Follows
<1>3. ASSUME NEW p \in 1..(n + 1)
      PROVE  s[p] \in S <=> \E k \in 1..Len(r) : f[k] = p
    BY <1>1 DEF Follows
<1> QED
    BY <1>2, <1>3 DEF Follows

\* One more element is taken.
LEMMA FollowsTake ==
    ASSUME NEW T, NEW r \in Seq(T), NEW s, NEW S, NEW n \in Nat, NEW f,
           Follows(r, s, S, n, f), s[n + 1] \in S, s[n + 1] \in T
    PROVE  \E h : Follows(Append(r, s[n + 1]), s, S, n + 1, h)
<1> DEFINE q == Append(r, s[n + 1])
           h == [k \in 1..(Len(r) + 1) |-> IF k = Len(r) + 1 THEN n + 1 ELSE f[k]]
<1>8. Len(r) \in Nat /\ Len(q) = Len(r) + 1 /\ q[Len(r) + 1] = s[n + 1]
    OBVIOUS
<1>9. \A k \in 1..Len(r) : q[k] = r[k]
    OBVIOUS
<1>10. \A k \in 1..Len(r) : f[k] \in 1..n
    BY DEF Follows
<1>11. /\ \A k \in 1..Len(r) : h[k] = f[k]
       /\ h[Len(r) + 1] = n + 1
    BY <1>8
<1>1. /\ Len(r) \in Nat /\ Len(q) = Len(r) + 1
      /\ \A k \in 1..Len(r) : q[k] = r[k] /\ f[k] \in 1..n /\ h[k] = f[k]
      /\ q[Len(r) + 1] = s[n + 1] /\ h[Len(r) + 1] = n + 1
    BY <1>8, <1>9, <1>10, <1>11
<1>2. h \in [1..Len(q) -> 1..(n + 1)]
    <2> HIDE DEF q
    <2>1. \A k \in 1..(Len(r) + 1) :
              (IF k = Len(r) + 1 THEN n + 1 ELSE f[k]) \in 1..(n + 1)
        BY <1>8, <1>10
    <2> QED
        BY <1>8, <2>1
<1> HIDE DEF q, h
<1>7. \A k \in 1..Len(q) : k \in 1..Len(r) \/ k = Len(r) + 1
    BY <1>1
<1>3. ASSUME NEW k \in 1..Len(q)
      PROVE  q[k] = s[h[k]]
    <2>1. CASE k \in 1..Len(r)
        BY <1>1, <2>1 DEF Follows
    <2> QED
        BY <1>1, <1>7, <2>1
<1>4. ASSUME NEW k \in 1..Len(q), NEW m \in 1..Len(q), k < m
      PROVE  h[k] < h[m]
    <2>1. k \in 1..Len(r)
        BY <1>1, <1>4
    <2>2. CASE m \in 1..Len(r)
        BY <1>1, <1>4, <2>1, <2>2 DEF Follows
    <2>3. CASE m = Len(r) + 1
        BY <1>1, <2>1, <2>3
    <2> QED
        BY <1>7, <2>2, <2>3
<1>5. ASSUME NEW p \in 1..(n + 1)
      PROVE  s[p] \in S <=> \E k \in 1..Len(q) : h[k] = p
    <2>1. CASE p = n + 1
        BY <1>1, <2>1
    <2>2. CASE p \in 1..n
        <3>1. s[p] \in S <=> \E k \in 1..Len(r) : f[k] = p
            BY <2>2 DEF Follows
        <3> QED
            BY <1>1, <2>2, <3>1
    <2> QED
        BY <2>1, <2>2
<1> QED
    BY <1>2, <1>3, <1>4, <1>5 DEF Follows, q

\* So it is with what has been gathered from any beginning of the sequence.
LEMMA GatheredFollows ==
    ASSUME NEW T, NEW s \in Seq(T), NEW S, NEW m \in 0..Len(s)
    PROVE  /\ Gathered(s, S)[m] \in Seq(T)
           /\ \E f : Follows(Gathered(s, S)[m], s, S, m, f)
<1> DEFINE g == Gathered(s, S)
           P(n) == g[n] \in Seq(T) /\ \E f : Follows(g[n], s, S, n, f)
           I == {n \in Nat : n <= Len(s) => P(n)}
<1>1. /\ \A n \in 0..Len(s) :
            g[n] = IF n = 0 THEN <<>>
                   ELSE IF s[n] \in S THEN Append(g[n - 1], s[n]) ELSE g[n - 1]
      /\ Len(s) \in Nat
    <2>1. Len(s) \in Nat
        OBVIOUS
    <2>2. g = [n \in 0..Len(s) |->
                 IF n = 0 THEN <<>>
                 ELSE IF s[n] \in S THEN Append(g[n - 1], s[n]) ELSE g[n - 1]]
        BY <2>1, GatheredDef
    <2> HIDE DEF g
    <2> QED
        BY <2>1, <2>2
<1> HIDE DEF g
<1>2. 0 \in I
    <2>1. g[0] = <<>>
        BY <1>1
    <2>2. Follows(<<>>, s, S, 0, [k \in 1..0 |-> 0])
        <3>1. Len(<<>>) = 0 /\ 1..0 = {}
            OBVIOUS
        <3>2. [k \in 1..0 |-> 0] \in [1..0 -> 1..0]
            BY <3>1
        <3> QED
            BY <3>1, <3>2, Zenon DEF Follows
    <2>3. <<>> \in Seq(T)
        OBVIOUS
    <2>4. P(0)
        BY <2>1, <2>2, <2>3
    <2> HIDE DEF P
    <2> QED
        BY <2>4
<1>3. ASSUME NEW n \in Nat, n \in I
      PROVE  n + 1 \in I
    <2> SUFFICES ASSUME n + 1 <= Len(s)
                 PROVE  P(n + 1)
        OBVIOUS
    <2>1. P(n)
        BY <1>1, <1>3
    <2>2. PICK f : Follows(g[n], s, S, n, f)
        BY <2>1
    <2>3. g[n + 1] = (IF s[n + 1] \in S THEN Append(g[n], s[n + 1]) ELSE g[n])
          /\ s[n + 1] \in T
        BY <1>1
    <2>4. CASE s[n + 1] \in S
        BY <2>1, <2>2, <2>3, <2>4, FollowsTake
    <2>5. CASE s[n + 1] \notin S
        BY <2>1, <2>2, <2>3, <2>5, FollowsSkip
    <2> QED
        BY <2>4, <2>5
<1> HIDE DEF P
<1>4. Nat \subseteq I
    <2> HIDE DEF I
    <2> QED
        BY <1>2, <1>3, Induction
<1> QED
    BY <1>1, <1>4 DEF P, g

\* Among gives the elements of the sequence that are in the set, all of them and no
\* others, in the order they have in the sequence.
THEOREM AmongFacts ==
    ASSUME NEW T, NEW s \in Seq(T), NEW S
    PROVE  LET r == Among(s, S) IN
           /\ r \in Seq(T)
           /\ \E f : Follows(r, s, S, Len(s), f)
BY GatheredFollows DEF Among

\* The same, without the places.
THEOREM AmongElements ==
    ASSUME NEW T, NEW s \in Seq(T), NEW S
    PROVE  LET r == Among(s, S) IN
           /\ r \in Seq(T)
           /\ \A k \in 1..Len(r) : r[k] \in S /\ \E p \in 1..Len(s) : r[k] = s[p]
           /\ \A p \in 1..Len(s) : s[p] \in S => \E k \in 1..Len(r) : r[k] = s[p]
           /\ \A k, m \in 1..Len(r) : k < m =>
                \E p, q \in 1..Len(s) : p < q /\ r[k] = s[p] /\ r[m] = s[q]
<1> DEFINE r == Among(s, S)
<1>1. r \in Seq(T) /\ \E f : Follows(r, s, S, Len(s), f)
    BY AmongFacts
<1> HIDE DEF r
<1>2. PICK f : Follows(r, s, S, Len(s), f)
    BY <1>1
<1>3. ASSUME NEW k \in 1..Len(r)
      PROVE  r[k] \in S /\ f[k] \in 1..Len(s) /\ r[k] = s[f[k]]
    BY <1>2 DEF Follows
<1>4. ASSUME NEW p \in 1..Len(s), s[p] \in S
      PROVE  \E k \in 1..Len(r) : r[k] = s[p]
    BY <1>2, <1>4, SMTT(30) DEF Follows
<1>5. ASSUME NEW k \in 1..Len(r), NEW m \in 1..Len(r), k < m
      PROVE  \E p, q \in 1..Len(s) : p < q /\ r[k] = s[p] /\ r[m] = s[q]
    BY <1>2, <1>3, <1>5 DEF Follows
<1> QED
    BY <1>1, <1>3, <1>4, <1>5 DEF r

\* The numbers from one to n are n.
LEMMA IntervalCount ==
    ASSUME NEW n \in Nat
    PROVE  IsFiniteSet(1..n) /\ Cardinality(1..n) = n
<1>1. 1 \in Int /\ n \in Int
    OBVIOUS
<1>2. IsFiniteSet(1..n) /\ Cardinality(1..n) = IF 1 > n THEN 0 ELSE n - 1 + 1
    BY <1>1, FS_Interval, Zenon
<1> QED
    BY <1>2

\* There are no more of them than there are elements.
LEMMA AmongLength ==
    ASSUME NEW T, NEW s \in Seq(T), NEW S
    PROVE  Len(Among(s, S)) <= Len(s)
<1> DEFINE r == Among(s, S)
<1>1. r \in Seq(T) /\ \E f : Follows(r, s, S, Len(s), f)
    BY AmongFacts
<1> HIDE DEF r
<1>2. PICK f : Follows(r, s, S, Len(s), f)
    BY <1>1
<1>3. Len(r) \in Nat /\ Len(s) \in Nat
    BY <1>1
<1>4. f \in [1..Len(r) -> 1..Len(s)] /\ \A k, m \in 1..Len(r) : f[k] = f[m] => k = m
    <2>1. f \in [1..Len(r) -> 1..Len(s)]
        BY <1>2, Zenon DEF Follows
    <2>2. ASSUME NEW k \in 1..Len(r), NEW m \in 1..Len(r), f[k] = f[m]
          PROVE  k = m
        <3>1. /\ k < m => f[k] < f[m]
              /\ m < k => f[m] < f[k]
            BY <1>2, Zenon DEF Follows
        <3>2. f[k] \in Int /\ f[m] \in Int /\ k \in Int /\ m \in Int
            BY <1>3, <2>1
        <3> QED
            BY <2>2, <3>1, <3>2
    <2> QED
        BY <2>1, <2>2, Zenon
<1>5. f \in Injection(1..Len(r), 1..Len(s))
    BY <1>4 DEF Injection, IsInjective
<1>6. /\ IsFiniteSet(1..Len(r)) /\ Cardinality(1..Len(r)) = Len(r)
      /\ IsFiniteSet(1..Len(s)) /\ Cardinality(1..Len(s)) = Len(s)
    BY <1>3, IntervalCount
<1>7. Cardinality(1..Len(r)) <= Cardinality(1..Len(s))
    BY <1>5, <1>6, FS_Injection
<1> QED
    BY <1>6, <1>7 DEF r

\* The elements of s that are in S are those from place lo to place hi.
Block(s, S, lo, hi) ==
    /\ lo \in Nat \ {0} /\ hi \in Nat /\ lo <= hi + 1 /\ hi <= Len(s)
    /\ \A p \in 1..Len(s) : s[p] \in S <=> lo <= p /\ p <= hi

\* r is what stands there.
PartOf(r, s, lo, hi) == Len(r) = hi + 1 - lo /\ \A k \in 1..Len(r) : r[k] = s[lo + k - 1]

\* When they stand side by side in the sequence, Among gives the part they make up.
LEMMA AmongBlock ==
    ASSUME NEW T, NEW s \in Seq(T), NEW S, NEW lo, NEW hi, Block(s, S, lo, hi)
    PROVE  Among(s, S) \in Seq(T) /\ PartOf(Among(s, S), s, lo, hi)
<1>0. /\ lo \in Nat \ {0} /\ hi \in Nat /\ lo <= hi + 1 /\ hi <= Len(s)
      /\ \A p \in 1..Len(s) : s[p] \in S <=> lo <= p /\ p <= hi
    BY DEF Block
<1> DEFINE g == Gathered(s, S)
           Size(n) == IF n < lo THEN 0 ELSE IF n <= hi THEN n + 1 - lo ELSE hi + 1 - lo
           P(n) == /\ g[n] \in Seq(T) /\ Len(g[n]) = Size(n)
                   /\ \A k \in 1..Size(n) : g[n][k] = s[lo + k - 1]
           I == {n \in Nat : n <= Len(s) => P(n)}
<1>1. /\ \A n \in 0..Len(s) :
            g[n] = IF n = 0 THEN <<>>
                   ELSE IF s[n] \in S THEN Append(g[n - 1], s[n]) ELSE g[n - 1]
      /\ Len(s) \in Nat
    <2>1. Len(s) \in Nat
        OBVIOUS
    <2>2. g = [n \in 0..Len(s) |->
                 IF n = 0 THEN <<>>
                 ELSE IF s[n] \in S THEN Append(g[n - 1], s[n]) ELSE g[n - 1]]
        BY <2>1, GatheredDef
    <2> HIDE DEF g
    <2> QED
        BY <2>1, <2>2
<1> HIDE DEF g
<1>2. 0 \in I
    <2>1. g[0] = <<>>
        BY <1>1
    <2>2. Size(0) = 0 /\ 1..0 = {}
        BY <1>0
    <2> HIDE DEF Size
    <2>3. P(0)
        BY <2>1, <2>2
    <2> HIDE DEF P
    <2> QED
        BY <2>3
<1>3. ASSUME NEW n \in Nat, n \in I
      PROVE  n + 1 \in I
    <2> HIDE DEF P
    <2> SUFFICES ASSUME n + 1 <= Len(s)
                 PROVE  P(n + 1)
        OBVIOUS
    <2> USE DEF P
    <2>0. P(n)
        <3> HIDE DEF P
        <3>1. n <= Len(s)
            BY <1>1
        <3> QED
            BY <1>3, <3>1
    <2>1. /\ g[n] \in Seq(T) /\ Len(g[n]) = Size(n)
          /\ \A k \in 1..Size(n) : g[n][k] = s[lo + k - 1]
        BY <2>0
    <2>2. /\ g[n + 1] = (IF s[n + 1] \in S THEN Append(g[n], s[n + 1]) ELSE g[n])
          /\ s[n + 1] \in T
          /\ s[n + 1] \in S <=> lo <= n + 1 /\ n + 1 <= hi
        BY <1>0, <1>1
    <2>3. CASE lo <= n + 1 /\ n + 1 <= hi
        <3>1. Size(n) = n + 1 - lo /\ Size(n + 1) = Size(n) + 1 /\ lo + Size(n + 1) - 1 = n + 1
              /\ Size(n) \in Nat
            BY <1>0, <2>3
        <3>2. g[n + 1] = Append(g[n], s[n + 1])
            BY <2>2, <2>3
        <3> HIDE DEF Size
        <3>3. /\ g[n + 1] \in Seq(T) /\ Len(g[n + 1]) = Size(n) + 1
              /\ g[n + 1][Size(n) + 1] = s[n + 1]
              /\ \A k \in 1..Size(n) : g[n + 1][k] = g[n][k]
            <4>1. PICK r \in Seq(T) : r = g[n]
                BY <2>1
            <4>2. Len(r) = Size(n)
                BY <2>1, <4>1
            <4>3. /\ Append(r, s[n + 1]) \in Seq(T) /\ Len(Append(r, s[n + 1])) = Size(n) + 1
                  /\ Append(r, s[n + 1])[Size(n) + 1] = s[n + 1]
                  /\ \A k \in 1..Size(n) : Append(r, s[n + 1])[k] = r[k]
                <5>1. \A x \in T : /\ Append(r, x) \in Seq(T) /\ Len(Append(r, x)) = Len(r) + 1
                                  /\ Append(r, x)[Len(r) + 1] = x
                                  /\ \A k \in 1..Len(r) : Append(r, x)[k] = r[k]
                    OBVIOUS
                <5> QED
                    BY <2>2, <4>2, <5>1
            <4> QED
                BY <3>2, <4>1, <4>3
        <3>4. ASSUME NEW k \in 1..Size(n + 1)
              PROVE  g[n + 1][k] = s[lo + k - 1]
            <4>1. CASE k = Size(n + 1)
                BY <3>1, <3>3, <4>1
            <4>2. CASE k \in 1..Size(n)
                BY <2>1, <3>3, <4>2
            <4> QED
                BY <3>1, <4>1, <4>2
        <3> QED
            BY <3>1, <3>3, <3>4
    <2>4. CASE ~(lo <= n + 1 /\ n + 1 <= hi)
        <3>1. Size(n + 1) = Size(n)
            BY <1>0, <2>4
        <3>2. g[n + 1] = g[n]
            BY <2>2, <2>4
        <3> HIDE DEF Size
        <3> QED
            BY <2>1, <3>1, <3>2
    <2> QED
        BY <2>3, <2>4
<1>4. Size(Len(s)) = hi + 1 - lo
    BY <1>0, <1>1
<1> HIDE DEF P
<1>5. Nat \subseteq I
    <2> HIDE DEF I
    <2> QED
        BY <1>2, <1>3, Induction
<1>6. P(Len(s))
    BY <1>1, <1>5
<1> HIDE DEF Size
<1> QED
    BY <1>4, <1>6 DEF P, g, Among, PartOf

-----------------------------------------------------------------------------
(* Sequences that have each element of a set once.                         *)

Enumerates(s, S) ==
    /\ s \in Seq(S)
    /\ \A k, m \in 1..Len(s) : s[k] = s[m] => k = m
    /\ \A x \in S : \E k \in 1..Len(s) : s[k] = x

\* Such a sequence is as long as the set has elements.
LEMMA EnumeratesCount ==
    ASSUME NEW S, NEW s, Enumerates(s, S)
    PROVE  IsFiniteSet(S) /\ Cardinality(S) = Len(s) /\ Len(s) \in Nat
<1>1. s \in [1..Len(s) -> S] /\ Len(s) \in Nat
    BY DEF Enumerates
<1>2. s \in Bijection(1..Len(s), S)
    BY <1>1 DEF Enumerates, Bijection, Injection, Surjection, IsInjective
<1>3. ExistsBijection(1..Len(s), S)
    BY <1>2 DEF ExistsBijection
<1> QED
    BY <1>1, <1>3, FS_CountingElements, FS_NatBijection

\* The empty sequence has the elements of the empty set.
LEMMA EnumeratesEmpty == Enumerates(<<>>, {})
BY DEF Enumerates

\* An element more.
LEMMA EnumeratesAppend ==
    ASSUME NEW S, NEW s, Enumerates(s, S), NEW x, x \notin S
    PROVE  Enumerates(Append(s, x), S \cup {x})
<1> DEFINE q == Append(s, x)
<1>1. /\ s \in Seq(S) /\ q \in Seq(S \cup {x}) /\ Len(s) \in Nat /\ Len(q) = Len(s) + 1
      /\ q[Len(s) + 1] = x
    BY DEF Enumerates
<1>2. \A k \in 1..Len(s) : q[k] = s[k] /\ s[k] \in S
    BY <1>1
<1> HIDE DEF q
<1>3. \A k \in 1..Len(q) : k \in 1..Len(s) \/ k = Len(s) + 1
    BY <1>1
<1>4. ASSUME NEW k \in 1..Len(q), NEW m \in 1..Len(q), q[k] = q[m]
      PROVE  k = m
    BY <1>1, <1>2, <1>3, <1>4 DEF Enumerates
<1>5. ASSUME NEW y \in S \cup {x}
      PROVE  \E k \in 1..Len(q) : q[k] = y
    <2>1. CASE y = x
        BY <1>1, <2>1
    <2>2. CASE y \in S
        <3>1. PICK k \in 1..Len(s) : s[k] = y
            BY <2>2 DEF Enumerates
        <3> QED
            BY <1>1, <1>2, <3>1
    <2> QED
        BY <2>1, <2>2
<1> QED
    BY <1>1, <1>4, <1>5 DEF Enumerates, q

\* What is selected from such a sequence.
LEMMA EnumeratesAmong ==
    ASSUME NEW S, NEW s, Enumerates(s, S), NEW X
    PROVE  Enumerates(Among(s, X), S \cap X)
<1> DEFINE r == Among(s, X)
<1>1. s \in Seq(S)
    BY DEF Enumerates
<1>2. PICK f : r \in Seq(S) /\ Follows(r, s, X, Len(s), f)
    BY <1>1, AmongFacts
<1>3. /\ \A k \in 1..Len(r) : r[k] \in X /\ \E p \in 1..Len(s) : r[k] = s[p]
      /\ \A p \in 1..Len(s) : s[p] \in X => \E k \in 1..Len(r) : r[k] = s[p]
    BY <1>1, AmongElements
<1> HIDE DEF r
<1>4. r \in Seq(S \cap X)
    <2>1. \A k \in 1..Len(r) : r[k] \in S \cap X
        BY <1>2, <1>3
    <2>2. r = [k \in 1..Len(r) |-> r[k]] /\ Len(r) \in Nat
        BY <1>2
    <2> QED
        BY <2>1, <2>2
<1>5. ASSUME NEW k \in 1..Len(r), NEW m \in 1..Len(r), r[k] = r[m]
      PROVE  k = m
    <2>1. f[k] \in 1..Len(s) /\ f[m] \in 1..Len(s) /\ s[f[k]] = s[f[m]]
        BY <1>2, <1>5 DEF Follows
    <2>2. f[k] = f[m]
        BY <2>1 DEF Enumerates
    <2>3. k \in Nat /\ m \in Nat /\ (k < m => f[k] < f[m]) /\ (m < k => f[m] < f[k])
        BY <1>2 DEF Follows
    <2> QED
        BY <2>1, <2>2, <2>3
<1>6. ASSUME NEW x \in S \cap X
      PROVE  \E k \in 1..Len(r) : r[k] = x
    BY <1>3 DEF Enumerates
<1> QED
    BY <1>4, <1>5, <1>6 DEF Enumerates, r

\* Another order of it.
LEMMA EnumeratesSorted ==
    ASSUME NEW S, NEW s, Enumerates(s, S), NEW t \in [1..Len(s) -> S],
           \A k, m \in 1..Len(s) : t[k] = t[m] => k = m
    PROVE  Enumerates(t, S) /\ Len(t) = Len(s)
<1>1. /\ IsFiniteSet(S) /\ Cardinality(S) = Len(s) /\ Len(s) \in Nat
    BY EnumeratesCount
<1>2. t \in Seq(S) /\ Len(t) = Len(s)
    BY <1>1
<1>3. t \in Injection(1..Len(s), S)
    BY DEF Injection, IsInjective
<1>4. Cardinality(1..Len(s)) = Len(s)
    <2>1. 1 \in Int /\ Len(s) \in Int
        BY <1>1
    <2>2. Cardinality(1..Len(s)) = IF 1 > Len(s) THEN 0 ELSE Len(s) - 1 + 1
        BY <2>1, FS_Interval, Zenon
    <2> QED
        BY <1>1, <2>2
<1>5. t \in Surjection(1..Len(s), S)
    BY <1>1, <1>3, <1>4, FS_Injection
<1>6. \A x \in S : \E k \in 1..Len(s) : t[k] = x
    BY <1>5 DEF Surjection
<1> QED
    BY <1>2, <1>6 DEF Enumerates
=============================================================================
