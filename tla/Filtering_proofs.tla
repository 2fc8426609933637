--------------------------- MODULE Filtering_proofs ---------------------------
(***************************************************************************)
(* What the proofs about queues need of sequences: induction and recursion *)
(* as facts about sets, the elements of a sequence, and what filtering     *)
(* keeps.                                                                  *)
(***************************************************************************)
EXTENDS Filtering, SequencesExt, SequenceTheorems, FiniteSetTheorems, WellFoundedInduction, TLAPS

-----------------------------------------------------------------------------
(* Induction and recursion.                                                *)

\* A set of numbers that is not empty has a least one.
LEMMA LeastNumber ==
  ASSUME NEW T, T \subseteq Nat, T # {}
  PROVE  \E x \in T : \A y \in T : x <= y
<1>1. PICK x \in T : \A y \in T : ~(<<y, x>> \in OpToRel(<, Nat))
  BY NatLessThanWellFounded, WFMin
<1>2. ASSUME NEW y \in T PROVE x <= y
  <2>1. x \in Nat /\ y \in Nat
    OBVIOUS
  <2>2. ~(y < x)
    BY <1>1, <2>1 DEF OpToRel
  <2>3. QED
    BY <2>1, <2>2
<1>3. QED
  BY <1>2

\* Induction up to n.
LEMMA UpTo ==
  ASSUME NEW n \in Nat, NEW A, 0 \in A,
         \A i \in 0..n : i \in A /\ i < n => i + 1 \in A
  PROVE  \A i \in 0..n : i \in A
<1> SUFFICES ASSUME (0..n) \ A # {} PROVE FALSE
  OBVIOUS
<1>1. (0..n) \ A \subseteq Nat
  OBVIOUS
<1>2. PICK x \in (0..n) \ A : \A y \in (0..n) \ A : x <= y
  BY <1>1, LeastNumber
<1>3. x # 0 /\ x - 1 \in 0..n /\ x - 1 < n
  OBVIOUS
<1>4. x - 1 \in A
  BY <1>2, <1>3
<1>5. (x - 1) + 1 \in A
  BY <1>3, <1>4
<1>6. QED
  BY <1>5

\* f starts from b and takes the steps of g.
Iterates(f, X, n, b, g) ==
  f \in [0..n -> X] /\ f[0] = b /\ \A i \in 1..n : f[i] = g[<<i, f[i - 1]>>]

\* What a recursive function over 0..n says of itself has a solution, as
\* long as its steps stay in a set.
LEMMA Recursion ==
  ASSUME NEW X, NEW n \in Nat, NEW b \in X, NEW g \in [(1..n) \X X -> X]
  PROVE  \E f : Iterates(f, X, n, b, g)
<1> DEFINE A == {k \in 0..n : \E f \in [0..k -> X] :
                                f[0] = b /\ \A i \in 1..k : f[i] = g[<<i, f[i - 1]>>]}
<1>1. 0 \in A
  <2> DEFINE f == [j \in 0..0 |-> b]
  <2>1. f \in [0..0 -> X] /\ f[0] = b
    OBVIOUS
  <2>2. \A i \in 1..0 : f[i] = g[<<i, f[i - 1]>>]
    OBVIOUS
  <2>3. 0 \in 0..n
    OBVIOUS
  <2> HIDE DEF f
  <2>4. QED
    BY <2>1, <2>2, <2>3
<1>2. ASSUME NEW k \in 0..n, k \in A, k < n PROVE k + 1 \in A
  <2>1. PICK f \in [0..k -> X] : f[0] = b /\ \A i \in 1..k : f[i] = g[<<i, f[i - 1]>>]
    BY <1>2
  <2>2. k + 1 \in 1..n /\ k \in 0..k /\ k + 1 \in 0..n
    BY <1>2
  <2>3. g[<<k + 1, f[k]>>] \in X
    BY <2>2
  <2> DEFINE h == [j \in 0..(k + 1) |-> IF j = k + 1 THEN g[<<k + 1, f[k]>>] ELSE f[j]]
  <2>4. h \in [0..(k + 1) -> X]
    BY <2>3
  <2>5. h[0] = b
    BY <2>1
  <2>6. ASSUME NEW i \in 1..(k + 1) PROVE h[i] = g[<<i, h[i - 1]>>]
    <3>1. CASE i = k + 1
      <4>1. h[i] = g[<<k + 1, f[k]>>]
        BY <3>1
      <4>2. h[i - 1] = f[k]
        BY <3>1
      <4>3. QED
        BY <3>1, <4>1, <4>2
    <3>2. CASE i # k + 1
      <4>1. i \in 1..k /\ i - 1 \in 0..k /\ i - 1 # k + 1
        BY <3>2
      <4>2. h[i] = f[i] /\ h[i - 1] = f[i - 1]
        BY <4>1
      <4>3. QED
        BY <4>1, <4>2, <2>1
    <3>3. QED
      BY <3>1, <3>2
  <2> HIDE DEF h
  <2>7. QED
    BY <2>2, <2>4, <2>5, <2>6
<1> HIDE DEF A
<1>3. \A i \in 0..n : i \in A
  BY <1>1, <1>2, UpTo
<1>4. n \in A
  BY <1>3
<1>5. QED
  BY <1>4 DEF A, Iterates

\* Induction over sequences: a set that has the empty one and, with a
\* sequence, all that are longer by one.
LEMMA OverSequences ==
  ASSUME NEW S, NEW A, <<>> \in A,
         \A s \in Seq(S), e \in S : s \in A => Append(s, e) \in A
  PROVE  \A s \in Seq(S) : s \in A
<1> SUFFICES ASSUME NEW s \in Seq(S) PROVE s \in A
  OBVIOUS
<1> DEFINE B == {k \in 0..Len(s) : \A t \in Seq(S) : Len(t) = k => t \in A}
<1>1. 0 \in B
  <2>1. \A t \in Seq(S) : Len(t) = 0 => t = <<>>
    BY EmptySeq
  <2>2. QED
    BY <2>1
<1>2. ASSUME NEW k \in 0..Len(s), k \in B, k < Len(s) PROVE k + 1 \in B
  <2>1. ASSUME NEW t \in Seq(S), Len(t) = k + 1 PROVE t \in A
    <3>1. t # <<>>
      BY <2>1
    <3> DEFINE u == SubSeq(t, 1, Len(t) - 1)
    <3>2. u \in Seq(S) /\ Len(u) = k /\ t[Len(t)] \in S /\ Append(u, t[Len(t)]) = t
      <4>1. u \in Seq(S) /\ Len(u) = k
        BY <2>1, SubSeqProperties
      <4>2. t[Len(t)] \in S
        BY <2>1
      <4>3. Append(u, t[Len(t)]) = t
        BY <2>1, <4>1, <4>2
      <4>4. QED
        BY <4>1, <4>2, <4>3
    <3> HIDE DEF u
    <3>3. u \in A
      BY <1>2, <3>2
    <3>4. QED
      BY <3>2, <3>3
  <2>2. QED
    BY <1>2, <2>1
<1> HIDE DEF B
<1>3. Len(s) \in Nat
  OBVIOUS
<1>4. \A i \in 0..Len(s) : i \in B
  BY <1>1, <1>2, <1>3, UpTo
<1>5. QED
  BY <1>3, <1>4 DEF B

-----------------------------------------------------------------------------
(* The elements of sequences, and sequences without duplicates.            *)

\* The elements of a sequence, by index.
LEMMA Elements ==
  ASSUME NEW S, NEW s \in Seq(S)
  PROVE  /\ ToSet(s) \in SUBSET S
         /\ \A e : e \in ToSet(s) <=> \E k \in 1..Len(s) : s[k] = e
BY DEF ToSet

\* One more element.
LEMMA AppendElements ==
  ASSUME NEW S, NEW s \in Seq(S), NEW e \in S
  PROVE  /\ ToSet(Append(s, e)) = ToSet(s) \cup {e}
         /\ IsInjective(s) /\ e \notin ToSet(s) => IsInjective(Append(s, e))
<1>1. Append(s, e) \in Seq(S)
  OBVIOUS
<1>2. ToSet(Append(s, e)) = ToSet(s) \cup {e}
  <2>1. /\ Len(Append(s, e)) = Len(s) + 1 /\ Append(s, e)[Len(s) + 1] = e
        /\ \A k \in 1..Len(s) : Append(s, e)[k] = s[k]
    BY AppendProperties
  <2>2. QED
    BY <1>1, <2>1 DEF ToSet
<1>3. ASSUME IsInjective(s), e \notin ToSet(s) PROVE IsInjective(Append(s, e))
  BY <1>1, <1>3, Elements DEF IsInjective
<1>4. QED
  BY <1>2, <1>3

\* Two sequences with nothing in common.
LEMMA ConcatElements ==
  ASSUME NEW S, NEW s \in Seq(S), NEW t \in Seq(S)
  PROVE  /\ s \o t \in Seq(S)
         /\ ToSet(s \o t) = ToSet(s) \cup ToSet(t)
         /\ IsInjective(s) /\ IsInjective(t) /\ ToSet(s) \cap ToSet(t) = {} => IsInjective(s \o t)
<1>1. /\ s \o t \in Seq(S) /\ Len(s \o t) = Len(s) + Len(t)
      /\ \A k \in 1..(Len(s) + Len(t)) :
           (s \o t)[k] = IF k <= Len(s) THEN s[k] ELSE t[k - Len(s)]
  BY ConcatProperties
<1>2. ASSUME NEW e, e \in ToSet(s) \cup ToSet(t) PROVE e \in ToSet(s \o t)
  <2>1. CASE e \in ToSet(s)
    BY <1>1, <2>1 DEF ToSet
  <2>2. CASE e \in ToSet(t)
    <3>1. PICK k \in 1..Len(t) : t[k] = e
      BY <2>2, Elements
    <3>2. (s \o t)[k + Len(s)] = e /\ k + Len(s) \in 1..(Len(s) + Len(t))
      BY <1>1, <3>1
    <3>3. QED
      BY <1>1, <3>2, Elements
  <2>3. QED
    BY <1>2, <2>1, <2>2
<1>3. ASSUME NEW e, e \in ToSet(s \o t) PROVE e \in ToSet(s) \cup ToSet(t)
  BY <1>1, <1>3 DEF ToSet
<1>4. ASSUME IsInjective(s), IsInjective(t), ToSet(s) \cap ToSet(t) = {} PROVE IsInjective(s \o t)
  <2> SUFFICES ASSUME NEW j \in 1..Len(s \o t), NEW k \in 1..Len(s \o t),
                      (s \o t)[j] = (s \o t)[k]
               PROVE  j = k
    BY DEF IsInjective
  <2>1. CASE j <= Len(s) /\ k <= Len(s)
    BY <1>1, <1>4, <2>1 DEF IsInjective
  <2>2. CASE j > Len(s) /\ k > Len(s)
    <3>1. j - Len(s) = k - Len(s)
      BY <1>1, <1>4, <2>2 DEF IsInjective
    <3>2. QED
      BY <3>1, <1>1
  <2>3. CASE j <= Len(s) /\ k > Len(s)
    <3>1. s[j] \in ToSet(s) /\ t[k - Len(s)] \in ToSet(t) /\ s[j] = t[k - Len(s)]
      BY <1>1, <2>3, Elements
    <3>2. QED
      BY <3>1, <1>4
  <2>4. CASE k <= Len(s) /\ j > Len(s)
    <3>1. s[k] \in ToSet(s) /\ t[j - Len(s)] \in ToSet(t) /\ s[k] = t[j - Len(s)]
      BY <1>1, <2>4, Elements
    <3>2. QED
      BY <3>1, <1>4
  <2>5. QED
    BY <1>1, <2>1, <2>2, <2>3, <2>4
<1>5. QED
  BY <1>1, <1>2, <1>3, <1>4

\* A sequence cut in two.
LEMMA CutElements ==
  ASSUME NEW S, NEW s \in Seq(S), IsInjective(s), NEW n \in 0..Len(s)
  PROVE  LET a == SubSeq(s, 1, n)  b == SubSeq(s, n + 1, Len(s)) IN
         /\ a \in Seq(S) /\ b \in Seq(S) /\ IsInjective(a) /\ IsInjective(b)
         /\ Len(a) = n /\ Len(b) = Len(s) - n
         /\ \A k \in 1..n : a[k] = s[k]
         /\ \A k \in 1..Len(b) : b[k] = s[k + n]
         /\ ToSet(a) \cap ToSet(b) = {} /\ ToSet(a) \cup ToSet(b) = ToSet(s)
<1> DEFINE a == SubSeq(s, 1, n)  b == SubSeq(s, n + 1, Len(s))
<1>1. /\ a \in Seq(S) /\ Len(a) = n /\ \A k \in 1..n : a[k] = s[k]
  BY SubSeqProperties
<1>2. /\ b \in Seq(S) /\ Len(b) = Len(s) - n
      /\ \A k \in 1..(Len(s) - n) : b[k] = s[k + n]
  <2>1. \A k \in (n + 1)..Len(s) : s[k] \in S
    OBVIOUS
  <2>2. /\ b \in Seq(S) /\ Len(b) = IF n + 1 <= Len(s) THEN Len(s) - (n + 1) + 1 ELSE 0
        /\ \A k \in 1..(Len(s) - (n + 1) + 1) : b[k] = s[(n + 1) + k - 1]
    BY <2>1, SubSeqProperties
  <2>3. QED
    BY <2>2
<1> HIDE DEF a, b
<1>3. IsInjective(a) /\ IsInjective(b)
  <2>1. IsInjective(a)
    BY <1>1 DEF IsInjective
  <2>2. ASSUME NEW j \in 1..Len(b), NEW k \in 1..Len(b), b[j] = b[k] PROVE j = k
    <3>1. s[j + n] = s[k + n] /\ j + n \in 1..Len(s) /\ k + n \in 1..Len(s)
      BY <1>2, <2>2
    <3>2. j + n = k + n
      BY <3>1 DEF IsInjective
    <3>3. QED
      BY <3>2, <1>2
  <2>3. QED
    BY <2>1, <2>2 DEF IsInjective
<1>4. ToSet(a) \cap ToSet(b) = {}
  <2> SUFFICES ASSUME NEW e, e \in ToSet(a), e \in ToSet(b) PROVE FALSE
    OBVIOUS
  <2>1. PICK j \in 1..n : s[j] = e
    BY <1>1, Elements
  <2>2. PICK k \in 1..(Len(s) - n) : s[k + n] = e
    BY <1>2, Elements
  <2>3. QED
    BY <2>1, <2>2 DEF IsInjective
<1>5. ASSUME NEW e, e \in ToSet(a) \cup ToSet(b) PROVE e \in ToSet(s)
  <2>1. CASE e \in ToSet(a)
    BY <1>1, <2>1 DEF ToSet
  <2>2. CASE e \in ToSet(b)
    <3>1. PICK k \in 1..Len(b) : b[k] = e
      BY <1>2, <2>2, Elements
    <3>2. s[k + n] = e /\ k + n \in 1..Len(s)
      BY <1>2, <3>1
    <3>3. QED
      BY <3>2 DEF ToSet
  <2>3. QED
    BY <1>5, <2>1, <2>2
<1>6. ASSUME NEW e, e \in ToSet(s) PROVE e \in ToSet(a) \cup ToSet(b)
  <2>1. PICK k \in 1..Len(s) : s[k] = e
    BY <1>6, Elements
  <2>2. CASE k <= n
    BY <1>1, <2>1, <2>2 DEF ToSet
  <2>3. CASE k > n
    <3>1. k - n \in 1..Len(b) /\ b[k - n] = e
      BY <1>2, <2>1, <2>3
    <3>2. QED
      BY <1>2, <3>1, Elements
  <2>4. QED
    BY <2>1, <2>2, <2>3
<1>7. QED
  BY <1>1, <1>2, <1>3, <1>4, <1>5, <1>6 DEF a, b

-----------------------------------------------------------------------------
(* Filtering.                                                              *)

\* f goes through s as Only does.
Sieves(f, S, s, kept) ==
  /\ f \in [0..Len(s) -> Seq(S)]
  /\ Only(s, kept) = f[Len(s)] /\ f[0] = <<>>
  /\ \A i \in 1..Len(s) : f[i] = IF s[i] \in kept THEN Append(f[i - 1], s[i]) ELSE f[i - 1]

\* How Only goes through its sequence.
LEMMA Sieved ==
  ASSUME NEW S, NEW s \in Seq(S), NEW kept
  PROVE  \E f : Sieves(f, S, s, kept)
<1> DEFINE n == Len(s)
           step == [p \in (1..n) \X Seq(S) |-> IF s[p[1]] \in kept THEN Append(p[2], s[p[1]]) ELSE p[2]]
           Solves(f) == f = [i \in 0..n |-> IF i = 0 THEN <<>>
                                            ELSE IF s[i] \in kept THEN Append(f[i - 1], s[i])
                                            ELSE f[i - 1]]
<1>1. n \in Nat /\ <<>> \in Seq(S)
  OBVIOUS
<1>2. step \in [(1..n) \X Seq(S) -> Seq(S)]
  <2>1. ASSUME NEW p \in (1..n) \X Seq(S)
        PROVE  (IF s[p[1]] \in kept THEN Append(p[2], s[p[1]]) ELSE p[2]) \in Seq(S)
    <3>1. p[1] \in 1..Len(s) /\ p[2] \in Seq(S)
      OBVIOUS
    <3>2. s[p[1]] \in S
      BY <3>1
    <3>3. QED
      BY <3>1, <3>2, AppendProperties
  <2>2. QED
    BY <2>1
<1> HIDE DEF n
<1>3. PICK f \in [0..n -> Seq(S)] : f[0] = <<>> /\ \A i \in 1..n : f[i] = step[<<i, f[i - 1]>>]
  <2> HIDE DEF step
  <2>1. \E f : Iterates(f, Seq(S), n, <<>>, step)
    BY <1>1, <1>2, Recursion, Zenon
  <2>2. QED
    BY <2>1 DEF Iterates
<1>4. ASSUME NEW i \in 1..n
      PROVE  f[i] = IF s[i] \in kept THEN Append(f[i - 1], s[i]) ELSE f[i - 1]
  <2>1. i - 1 \in 0..n
    BY <1>1
  <2>2. <<i, f[i - 1]>> \in (1..n) \X Seq(S)
    BY <2>1
  <2>3. QED
    BY <1>3, <2>2
<1>5. Solves(f)
  <2>1. \A i \in 0..n : i = 0 \/ i \in 1..n
    BY <1>1
  <2>2. QED
    BY <1>3, <1>4, <2>1
<1> DEFINE h == CHOOSE x : Solves(x)
<1>6. Solves(h)
  <2> HIDE DEF Solves
  <2>1. QED
    BY <1>5
<1>7. Only(s, kept) = h[n]
  BY DEF Only, n
<1>8. h[0] = <<>>
  <2>1. 0 \in 0..n
    BY <1>1
  <2> HIDE DEF h
  <2>2. QED
    BY <1>6, <2>1
<1>9. \A i \in 1..n : h[i] = IF s[i] \in kept THEN Append(h[i - 1], s[i]) ELSE h[i - 1]
  <2> SUFFICES ASSUME NEW i \in 1..n
               PROVE  h[i] = IF s[i] \in kept THEN Append(h[i - 1], s[i]) ELSE h[i - 1]
    OBVIOUS
  <2>1. i \in 0..n /\ i # 0
    BY <1>1
  <2> HIDE DEF h
  <2>2. QED
    BY <1>6, <2>1
<1> HIDE DEF h, Solves
<1>10. h \in [0..n -> Seq(S)]
  <2> DEFINE A == {i \in 0..n : h[i] \in Seq(S)}
  <2>1. 0 \in A
    <3>1. 0 \in 0..n /\ h[0] \in Seq(S)
      BY <1>1, <1>8
    <3>2. QED
      BY <3>1
  <2>2. ASSUME NEW i \in 0..n, i \in A, i < n PROVE i + 1 \in A
    <3>1. i + 1 \in 1..n /\ i + 1 \in 0..n /\ (i + 1) - 1 = i
      BY <1>1, <2>2
    <3>2. s[i + 1] \in S
      BY <3>1 DEF n
    <3>3. h[i] \in Seq(S)
      BY <2>2
    <3>4. h[i + 1] \in {Append(h[i], s[i + 1]), h[i]}
      BY <1>9, <3>1
    <3>5. Append(h[i], s[i + 1]) \in Seq(S)
      BY <3>2, <3>3, AppendProperties
    <3>6. QED
      BY <3>1, <3>3, <3>4, <3>5
  <2>3. \A i \in 0..n : i \in A
    <3> HIDE DEF A
    <3>1. QED
      BY <1>1, <2>1, <2>2, UpTo
  <2>4. h = [i \in 0..n |-> h[i]]
    BY <1>6 DEF Solves
  <2>5. QED
    BY <2>3, <2>4
<1>11. Sieves(h, S, s, kept)
  BY <1>7, <1>8, <1>9, <1>10 DEF n, Sieves
<1>12. QED
  BY <1>11

\* What is kept is a sequence again.
LEMMA OnlyType ==
  ASSUME NEW S, NEW s \in Seq(S), NEW kept
  PROVE  Only(s, kept) \in Seq(S)
<1>1. Len(s) \in 0..Len(s)
  OBVIOUS
<1>2. QED
  BY <1>1, Sieved DEF Sieves

\* Nothing is kept of nothing.
LEMMA OnlyEmpty ==
  ASSUME NEW kept
  PROVE  Only(<<>>, kept) = <<>>
<1>1. PICK s : s = <<>>
  OBVIOUS
<1>2. s \in Seq({}) /\ Len(s) = 0
  BY <1>1
<1>3. PICK f : Sieves(f, {}, s, kept)
  BY <1>2, Sieved, Zenon
<1>4. Only(s, kept) = <<>>
  BY <1>2, <1>3 DEF Sieves
<1>5. QED
  BY <1>1, <1>4

\* One element more.
LEMMA OnlyAppend ==
  ASSUME NEW S, NEW s \in Seq(S), NEW e \in S, NEW kept
  PROVE  /\ e \in kept => Only(Append(s, e), kept) = Append(Only(s, kept), e)
         /\ e \notin kept => Only(Append(s, e), kept) = Only(s, kept)
<1> DEFINE t == Append(s, e)
           n == Len(s)
<1>1. /\ t \in Seq(S) /\ Len(t) = n + 1 /\ t[n + 1] = e
      /\ \A i \in 1..n : t[i] = s[i]
  BY AppendProperties
<1>2. n \in Nat
  OBVIOUS
<1>3. PICK f : Sieves(f, S, s, kept)
  BY Sieved
<1> HIDE DEF t
<1>4. PICK g : Sieves(g, S, t, kept)
  BY <1>1, Sieved
<1> HIDE DEF n
<1> DEFINE A == {i \in 0..n : f[i] = g[i]}
<1>5. 0 \in A
  BY <1>2, <1>3, <1>4 DEF Sieves
<1>6. ASSUME NEW i \in 0..n, i \in A, i < n PROVE i + 1 \in A
  <2>1. i + 1 \in 1..n /\ i + 1 \in 1..Len(t) /\ (i + 1) - 1 = i /\ i + 1 \in 0..n
    BY <1>1, <1>2, <1>6
  <2>2. f[i + 1] = g[i + 1]
    BY <1>1, <1>3, <1>4, <1>6, <2>1 DEF Sieves, n
  <2>3. QED
    BY <2>1, <2>2
<1>7. \A i \in 0..n : i \in A
  <2> HIDE DEF A
  <2>1. QED
    BY <1>2, <1>5, <1>6, UpTo
<1>8. f[n] = g[n]
  BY <1>2, <1>7
<1>9. n + 1 \in 1..Len(t) /\ (n + 1) - 1 = n
  BY <1>1, <1>2
<1>10. g[n + 1] = IF e \in kept THEN Append(g[n], e) ELSE g[n]
  BY <1>1, <1>4, <1>9 DEF Sieves
<1>11. Only(s, kept) = f[n] /\ Only(t, kept) = g[n + 1]
  BY <1>1, <1>3, <1>4 DEF Sieves, n
<1>12. QED
  BY <1>8, <1>10, <1>11 DEF t

\* Exactly the elements in the set are kept.
LEMMA OnlyElements ==
  ASSUME NEW S, NEW s \in Seq(S), NEW kept
  PROVE  ToSet(Only(s, kept)) = ToSet(s) \cap kept
<1> DEFINE A == {t \in Seq(S) : ToSet(Only(t, kept)) = ToSet(t) \cap kept}
<1>1. <<>> \in A
  <2>1. <<>> \in Seq(S) /\ ToSet(<<>>) = {}
    BY DEF ToSet
  <2>2. QED
    BY <2>1, OnlyEmpty
<1>2. ASSUME NEW t \in Seq(S), NEW e \in S, t \in A PROVE Append(t, e) \in A
  <2>1. Append(t, e) \in Seq(S) /\ ToSet(Append(t, e)) = ToSet(t) \cup {e}
    BY AppendElements
  <2>2. CASE e \in kept
    <3>1. Only(Append(t, e), kept) = Append(Only(t, kept), e) /\ Only(t, kept) \in Seq(S)
      BY <2>2, OnlyAppend, OnlyType
    <3>2. ToSet(Only(Append(t, e), kept)) = ToSet(Only(t, kept)) \cup {e}
      BY <3>1, AppendElements
    <3>3. QED
      BY <1>2, <2>1, <2>2, <3>2
  <2>3. CASE e \notin kept
    <3>1. Only(Append(t, e), kept) = Only(t, kept)
      BY <2>3, OnlyAppend
    <3>2. QED
      BY <1>2, <2>1, <2>3, <3>1
  <2>4. QED
    BY <2>2, <2>3
<1>3. \A t \in Seq(S) : t \in A
  <2> HIDE DEF A
  <2>1. QED
    BY <1>1, <1>2, OverSequences
<1>4. QED
  BY <1>3

\* Filtering goes through a concatenation.
LEMMA OnlyConcat ==
  ASSUME NEW S, NEW s \in Seq(S), NEW t \in Seq(S), NEW kept
  PROVE  Only(s \o t, kept) = Only(s, kept) \o Only(t, kept)
<1> DEFINE A == {u \in Seq(S) : Only(s \o u, kept) = Only(s, kept) \o Only(u, kept)}
<1>0. Only(s, kept) \in Seq(S)
  BY OnlyType
<1>1. <<>> \in A
  <2>1. <<>> \in Seq(S) /\ s \o <<>> = s /\ Only(s, kept) \o <<>> = Only(s, kept)
    BY <1>0, ConcatEmptySeq
  <2>2. QED
    BY <2>1, OnlyEmpty
<1>2. ASSUME NEW u \in Seq(S), NEW e \in S, u \in A PROVE Append(u, e) \in A
  <2>1. Append(u, e) \in Seq(S) /\ s \o u \in Seq(S) /\ Only(u, kept) \in Seq(S)
    BY OnlyType, ConcatProperties
  <2>2. s \o Append(u, e) = Append(s \o u, e)
    BY <2>1
  <2>a. /\ e \in kept => Only(Append(s \o u, e), kept) = Append(Only(s \o u, kept), e)
        /\ e \notin kept => Only(Append(s \o u, e), kept) = Only(s \o u, kept)
    BY <2>1, OnlyAppend, Zenon
  <2>3. CASE e \in kept
    <3>1. Only(s \o Append(u, e), kept) = Append(Only(s, kept) \o Only(u, kept), e)
      BY <1>2, <2>a, <2>2, <2>3
    <3>2. Append(Only(s, kept) \o Only(u, kept), e) = Only(s, kept) \o Append(Only(u, kept), e)
      <4>1. ASSUME NEW a \in Seq(S), NEW b \in Seq(S) PROVE a \o Append(b, e) = Append(a \o b, e)
        OBVIOUS
      <4>2. QED
        BY <1>0, <2>1, <4>1
    <3>3. Append(Only(u, kept), e) = Only(Append(u, e), kept)
      BY <2>3, OnlyAppend
    <3>4. QED
      BY <2>1, <3>1, <3>2, <3>3
  <2>4. CASE e \notin kept
    <3>1. Only(s \o Append(u, e), kept) = Only(s, kept) \o Only(u, kept)
      BY <1>2, <2>a, <2>2, <2>4
    <3>2. Only(u, kept) = Only(Append(u, e), kept)
      BY <2>4, OnlyAppend
    <3>3. QED
      BY <2>1, <3>1, <3>2
  <2>5. QED
    BY <2>3, <2>4
<1>3. \A u \in Seq(S) : u \in A
  <2> HIDE DEF A
  <2>1. QED
    BY <1>1, <1>2, OverSequences
<1>4. QED
  BY <1>3

\* Sets that agree on the elements keep the same.
LEMMA OnlySame ==
  ASSUME NEW S, NEW s \in Seq(S), NEW kept, NEW also, ToSet(s) \cap kept = ToSet(s) \cap also
  PROVE  Only(s, kept) = Only(s, also)
<1> DEFINE A == {t \in Seq(S) : ToSet(t) \cap kept = ToSet(t) \cap also => Only(t, kept) = Only(t, also)}
<1>1. <<>> \in A
  <2>1. <<>> \in Seq(S)
    OBVIOUS
  <2>2. QED
    BY <2>1, OnlyEmpty
<1>2. ASSUME NEW t \in Seq(S), NEW e \in S, t \in A PROVE Append(t, e) \in A
  <2>1. Append(t, e) \in Seq(S) /\ ToSet(Append(t, e)) = ToSet(t) \cup {e}
    BY AppendElements
  <2>2. ASSUME ToSet(Append(t, e)) \cap kept = ToSet(Append(t, e)) \cap also
        PROVE  Only(Append(t, e), kept) = Only(Append(t, e), also)
    <3>1. ToSet(t) \cap kept = ToSet(t) \cap also /\ (e \in kept <=> e \in also)
      BY <2>1, <2>2
    <3>2. Only(t, kept) = Only(t, also)
      BY <1>2, <3>1
    <3>3. /\ e \in kept => Only(Append(t, e), kept) = Append(Only(t, kept), e)
          /\ e \notin kept => Only(Append(t, e), kept) = Only(t, kept)
      BY OnlyAppend
    <3>4. /\ e \in also => Only(Append(t, e), also) = Append(Only(t, also), e)
          /\ e \notin also => Only(Append(t, e), also) = Only(t, also)
      BY OnlyAppend
    <3>5. QED
      BY <3>1, <3>2, <3>3, <3>4
  <2>3. QED
    BY <2>1, <2>2
<1>3. \A t \in Seq(S) : t \in A
  <2> HIDE DEF A
  <2>1. QED
    BY <1>1, <1>2, OverSequences
<1>4. QED
  BY <1>3

\* Filtering twice.
LEMMA OnlyTwice ==
  ASSUME NEW S, NEW s \in Seq(S), NEW kept, NEW also
  PROVE  Only(Only(s, kept), also) = Only(s, kept \cap also)
<1> DEFINE A == {t \in Seq(S) : Only(Only(t, kept), also) = Only(t, kept \cap also)}
<1>1. <<>> \in A
  <2>1. <<>> \in Seq(S)
    OBVIOUS
  <2>2. QED
    BY <2>1, OnlyEmpty
<1>2. ASSUME NEW t \in Seq(S), NEW e \in S, t \in A PROVE Append(t, e) \in A
  <2>1. Append(t, e) \in Seq(S) /\ Only(t, kept) \in Seq(S)
    BY OnlyType
  <2>2. CASE e \in kept
    <3>1. Only(Append(t, e), kept) = Append(Only(t, kept), e)
      BY <2>2, OnlyAppend
    <3>2. /\ e \in also => Only(Append(Only(t, kept), e), also) = Append(Only(t, kept \cap also), e)
          /\ e \notin also => Only(Append(Only(t, kept), e), also) = Only(t, kept \cap also)
      <4>1. PICK v : v = Only(t, kept)
        OBVIOUS
      <4>2. /\ e \in also => Only(Append(v, e), also) = Append(Only(v, also), e)
            /\ e \notin also => Only(Append(v, e), also) = Only(v, also)
        BY <2>1, <4>1, OnlyAppend
      <4>3. Only(v, also) = Only(t, kept \cap also)
        BY <1>2, <4>1
      <4>4. QED
        BY <4>1, <4>2, <4>3
    <3>3. /\ e \in also => Only(Append(t, e), kept \cap also) = Append(Only(t, kept \cap also), e)
          /\ e \notin also => Only(Append(t, e), kept \cap also) = Only(t, kept \cap also)
      <4>1. ASSUME NEW K PROVE /\ e \in K => Only(Append(t, e), K) = Append(Only(t, K), e)
                               /\ e \notin K => Only(Append(t, e), K) = Only(t, K)
        BY OnlyAppend
      <4>2. e \in kept \cap also <=> e \in also
        BY <2>2
      <4>3. QED
        BY <4>1, <4>2
    <3>4. QED
      BY <2>1, <3>1, <3>2, <3>3
  <2>3. CASE e \notin kept
    <3>1. Only(Append(t, e), kept) = Only(t, kept) /\ e \notin kept \cap also
      BY <2>3, OnlyAppend
    <3>2. Only(Append(t, e), kept \cap also) = Only(t, kept \cap also)
      BY <3>1, OnlyAppend
    <3>3. QED
      BY <1>2, <2>1, <3>1, <3>2
  <2>4. QED
    BY <2>2, <2>3
<1>3. \A t \in Seq(S) : t \in A
  <2> HIDE DEF A
  <2>1. QED
    BY <1>1, <1>2, OverSequences
<1>4. QED
  BY <1>3

\* Earlier elements are related to later ones.
Ordered(s, R) == \A i, j \in 1..Len(s) : i < j => <<s[i], s[j]>> \in R

\* What is kept stays in order.
LEMMA OnlyOrdered ==
  ASSUME NEW S, NEW s \in Seq(S), NEW kept, NEW R, Ordered(s, R)
  PROVE  Ordered(Only(s, kept), R)
<1> DEFINE A == {t \in Seq(S) : Ordered(t, R) => Ordered(Only(t, kept), R)}
<1>1. <<>> \in A
  <2>1. <<>> \in Seq(S)
    OBVIOUS
  <2>2. QED
    BY <2>1, OnlyEmpty
<1>2. ASSUME NEW t \in Seq(S), NEW e \in S, t \in A PROVE Append(t, e) \in A
  <2>0. Append(t, e) \in Seq(S)
    OBVIOUS
  <2>1. ASSUME Ordered(Append(t, e), R) PROVE Ordered(Only(Append(t, e), kept), R)
    <3>1. /\ Len(Append(t, e)) = Len(t) + 1 /\ Append(t, e)[Len(t) + 1] = e
          /\ \A i \in 1..Len(t) : Append(t, e)[i] = t[i]
      BY AppendProperties
    <3>2. Ordered(t, R)
      BY <2>1, <3>1 DEF Ordered
    <3>3. \A i \in 1..Len(t) : <<t[i], e>> \in R
      BY <2>1, <3>1 DEF Ordered
    <3> DEFINE u == Only(t, kept)
    <3>4. u \in Seq(S) /\ Ordered(u, R)
      BY <1>2, <3>2, OnlyType
    <3>5. ASSUME NEW i \in 1..Len(u) PROVE <<u[i], e>> \in R
      <4>1. u[i] \in ToSet(u)
        BY <3>4 DEF ToSet
      <4>2. u[i] \in ToSet(t)
        BY <4>1, OnlyElements
      <4>3. PICK k \in 1..Len(t) : t[k] = u[i]
        BY <4>2, Elements
      <4>4. QED
        BY <3>3, <4>3
    <3> HIDE DEF u
    <3>6. Ordered(Append(u, e), R)
      <4>1. /\ Append(u, e) \in Seq(S) /\ Len(Append(u, e)) = Len(u) + 1 /\ Append(u, e)[Len(u) + 1] = e
            /\ \A i \in 1..Len(u) : Append(u, e)[i] = u[i]
        BY <3>4, AppendProperties
      <4>2. ASSUME NEW i \in 1..(Len(u) + 1), NEW j \in 1..(Len(u) + 1), i < j
            PROVE  <<Append(u, e)[i], Append(u, e)[j]>> \in R
        <5>1. Len(u) \in Nat /\ i \in 1..Len(u) /\ (j = Len(u) + 1 \/ j \in 1..Len(u))
          BY <3>4, <4>2, LenProperties
        <5>2. CASE j = Len(u) + 1
          BY <3>5, <4>1, <5>1, <5>2
        <5>3. CASE j \in 1..Len(u)
          BY <3>4, <4>1, <4>2, <5>1, <5>3 DEF Ordered
        <5>4. QED
          BY <5>1, <5>2, <5>3
      <4>3. QED
        BY <4>1, <4>2 DEF Ordered
    <3>7. Only(Append(t, e), kept) \in {Append(u, e), u}
      BY OnlyAppend DEF u
    <3>8. QED
      BY <3>4, <3>6, <3>7
  <2>2. QED
    BY <2>0, <2>1
<1>3. \A t \in Seq(S) : t \in A
  <2> HIDE DEF A
  <2>1. QED
    BY <1>1, <1>2, OverSequences
<1>4. QED
  BY <1>3

\* Without duplicates, before and behind the filter.
LEMMA OnlyInjective ==
  ASSUME NEW S, NEW s \in Seq(S), NEW kept, IsInjective(s)
  PROVE  IsInjective(Only(s, kept))
<1> DEFINE R == {p \in S \X S : p[1] # p[2]}
           u == Only(s, kept)
<1>1. Ordered(s, R)
  <2>1. ASSUME NEW i \in 1..Len(s), NEW j \in 1..Len(s), i < j PROVE <<s[i], s[j]>> \in R
    <3>1. s[i] \in S /\ s[j] \in S /\ s[i] # s[j]
      BY <2>1 DEF IsInjective
    <3>2. QED
      BY <3>1
  <2>2. QED
    BY <2>1 DEF Ordered
<1>2. u \in Seq(S) /\ Ordered(u, R)
  <2> HIDE DEF R
  <2>1. QED
    BY <1>1, OnlyType, OnlyOrdered
<1> HIDE DEF u
<1>3. ASSUME NEW i \in 1..Len(u), NEW j \in 1..Len(u), u[i] = u[j] PROVE i = j
  <2>1. \A a, b : <<a, b>> \in R => a # b
    OBVIOUS
  <2>2. ~(i < j) /\ ~(j < i)
    <3> HIDE DEF R
    <3>1. QED
      BY <1>2, <1>3, <2>1 DEF Ordered
  <2>3. QED
    BY <1>2, <2>2
<1>4. IsInjective(u)
  BY <1>2, <1>3 DEF IsInjective
<1>5. QED
  BY <1>4 DEF u

\* The first element.
LEMMA OnlyHead ==
  ASSUME NEW S, NEW s \in Seq(S), s # <<>>, NEW kept
  PROVE  /\ Head(s) \in kept => Only(s, kept) = <<Head(s)>> \o Only(Tail(s), kept)
         /\ Head(s) \notin kept => Only(s, kept) = Only(Tail(s), kept)
<1> DEFINE h == Head(s)
           r == Tail(s)
<1>1. h \in S /\ r \in Seq(S) /\ s = <<h>> \o r
  BY HeadTailProperties
<1> HIDE DEF h, r
<1>2. <<h>> \in Seq(S) /\ <<>> \in Seq(S) /\ Append(<<>>, h) = <<h>>
  BY <1>1
<1>3. /\ h \in kept => Only(<<h>>, kept) = <<h>>
      /\ h \notin kept => Only(<<h>>, kept) = <<>>
  <2>1. PICK e : e = <<>>
    OBVIOUS
  <2>2. e \in Seq(S) /\ Only(e, kept) = e /\ Append(e, h) = <<h>>
    BY <1>1, <1>2, <2>1, OnlyEmpty
  <2>3. /\ h \in kept => Only(Append(e, h), kept) = Append(Only(e, kept), h)
        /\ h \notin kept => Only(Append(e, h), kept) = Only(e, kept)
    BY <1>1, <2>2, OnlyAppend, Zenon
  <2>4. QED
    BY <2>1, <2>2, <2>3
<1>4. Only(s, kept) = Only(<<h>>, kept) \o Only(r, kept)
  <2>1. PICK e : e = <<h>>
    OBVIOUS
  <2>a. e \in Seq(S)
    BY <1>2, <2>1
  <2>2. Only(e \o r, kept) = Only(e, kept) \o Only(r, kept)
    <3>1. r \in Seq(S)
      BY <1>1
    <3>2. ASSUME NEW q \in Seq(S), NEW p \in Seq(S) PROVE Only(q \o p, kept) = Only(q, kept) \o Only(p, kept)
      BY OnlyConcat
    <3>3. QED
      BY <2>a, <3>1, <3>2
  <2>3. QED
    BY <1>1, <2>1, <2>2
<1>5. Only(r, kept) \in Seq(S)
  BY <1>1, OnlyType
<1>6. <<>> \o Only(r, kept) = Only(r, kept)
  BY <1>5, ConcatEmptySeq
<1>7. QED
  BY <1>2, <1>3, <1>4, <1>6 DEF h, r

\* What is behind the first element.
LEMMA TailElements ==
  ASSUME NEW S, NEW s \in Seq(S), s # <<>>
  PROVE  /\ Head(s) \in S /\ Tail(s) \in Seq(S)
         /\ ToSet(s) = ToSet(Tail(s)) \cup {Head(s)}
         /\ IsInjective(s) => IsInjective(Tail(s)) /\ Head(s) \notin ToSet(Tail(s))
<1>1. PICK t, h : t = Tail(s) /\ h = Head(s)
  OBVIOUS
<1>2. /\ h \in S /\ t \in Seq(S) /\ Len(t) = Len(s) - 1 /\ Len(s) \in Nat \ {0}
      /\ h = s[1] /\ \A k \in 1..Len(t) : t[k] = s[k + 1]
  BY <1>1, HeadTailProperties
<1>3. ASSUME NEW e PROVE e \in ToSet(s) <=> e \in ToSet(t) \cup {h}
  <2>1. ASSUME e \in ToSet(s) PROVE e \in ToSet(t) \cup {h}
    <3>1. PICK k \in 1..Len(s) : s[k] = e
      BY <2>1, Elements
    <3>2. CASE k = 1
      BY <1>2, <3>1, <3>2
    <3>3. CASE k # 1
      <4>1. k - 1 \in 1..Len(t) /\ (k - 1) + 1 = k
        BY <1>2, <3>1, <3>3
      <4>2. t[k - 1] = e
        BY <1>2, <3>1, <4>1
      <4>3. QED
        BY <1>2, <4>1, <4>2, Elements
    <3>4. QED
      BY <3>2, <3>3
  <2>2. ASSUME e \in ToSet(t) PROVE e \in ToSet(s)
    <3>1. PICK k \in 1..Len(t) : t[k] = e
      BY <1>2, <2>2, Elements
    <3>2. k + 1 \in 1..Len(s) /\ s[k + 1] = e
      BY <1>2, <3>1
    <3>3. QED
      BY <3>2, Elements
  <2>3. h \in ToSet(s)
    <3>1. 1 \in 1..Len(s)
      BY <1>2
    <3>2. QED
      BY <1>2, <3>1, Elements
  <2>4. QED
    BY <2>1, <2>2, <2>3
<1>4. ASSUME IsInjective(s) PROVE IsInjective(t) /\ h \notin ToSet(t)
  <2>1. \A i, j \in 1..Len(t) : t[i] = t[j] => i = j
    <3> SUFFICES ASSUME NEW i \in 1..Len(t), NEW j \in 1..Len(t), t[i] = t[j] PROVE i = j
      OBVIOUS
    <3>1. i + 1 \in 1..Len(s) /\ j + 1 \in 1..Len(s) /\ s[i + 1] = s[j + 1]
      BY <1>2
    <3>2. i + 1 = j + 1
      BY <1>4, <3>1 DEF IsInjective
    <3>3. QED
      BY <3>2
  <2>2. ASSUME h \in ToSet(t) PROVE FALSE
    <3>1. PICK k \in 1..Len(t) : t[k] = h
      BY <1>2, <2>2, Elements
    <3>2. k + 1 \in 1..Len(s) /\ 1 \in 1..Len(s) /\ s[k + 1] = s[1]
      BY <1>2, <3>1
    <3>3. k + 1 = 1
      BY <1>4, <3>2 DEF IsInjective
    <3>4. QED
      BY <3>3
  <2>3. QED
    BY <1>2, <2>1, <2>2 DEF IsInjective
<1>5. QED
  BY <1>1, <1>2, <1>3, <1>4

\* SetToSeq lines up a finite set.
LEMMA LinedUp ==
  ASSUME NEW S, IsFiniteSet(S)
  PROVE  /\ SetToSeq(S) \in Seq(S) /\ IsInjective(SetToSeq(S))
<1>1. PICK n : n = Cardinality(S)
  OBVIOUS
<1>2. n \in Nat /\ ExistsBijection(1..n, S)
  BY <1>1, FS_CardinalityType
<1>3. \E f \in [1..n -> S] : IsInjective(f)
  BY <1>2 DEF ExistsBijection, Bijection, Injection
<1>4. SetToSeq(S) \in [1..n -> S] /\ IsInjective(SetToSeq(S))
  BY <1>1, <1>3 DEF SetToSeq
<1>5. [1..n -> S] \subseteq Seq(S)
  BY <1>2
<1>6. QED
  BY <1>4, <1>5

-----------------------------------------------------------------------------
(* Sequences whose elements do not matter.                                 *)

\* A sequence of whatever elements.
Listed(x) == \E S : x \in Seq(S)

\* A sequence with one more element, or with fewer, is one.
LEMMA ListedAppend == ASSUME NEW x, NEW e, Listed(x) PROVE Listed(Append(x, e))
<1>1. PICK S : x \in Seq(S)
  BY DEF Listed
<1>2. Append(x, e) \in Seq(S \cup {e})
  BY <1>1
<1>3. QED
  BY <1>2 DEF Listed

\* So is one that was filtered.
LEMMA ListedOnly == ASSUME NEW x, NEW K, Listed(x) PROVE Listed(Only(x, K))
<1>1. PICK S : x \in Seq(S)
  BY DEF Listed
<1>2. Only(x, K) \in Seq(S)
  BY <1>1, OnlyType
<1>3. QED
  BY <1>2 DEF Listed

\* So is the empty one.
LEMMA ListedEmpty == Listed(<<>>)
<1>1. <<>> \in Seq({})
  OBVIOUS
<1>2. QED
  BY <1>1 DEF Listed

\* What is kept is of the kind that is kept.
LEMMA OnlyKept == ASSUME NEW x, NEW K, Listed(x) PROVE Only(x, K) \in Seq(K)
<1>1. PICK S : x \in Seq(S)
  BY DEF Listed
<1>2. PICK u : u = Only(x, K)
  OBVIOUS
<1>3. u \in Seq(S) /\ ToSet(u) \subseteq K
  BY <1>1, <1>2, OnlyType, OnlyElements
<1>4. \A i \in 1..Len(u) : u[i] \in K
  BY <1>3, Elements
<1>5. u = [i \in 1..Len(u) |-> u[i]] /\ Len(u) \in Nat
  BY <1>3
<1>6. u \in Seq(K)
  BY <1>4, <1>5
<1>7. QED
  BY <1>2, <1>6

\* Two sequences joined.
LEMMA OnlyJoined ==
  ASSUME NEW x, NEW y, NEW K, Listed(x), Listed(y)
  PROVE  Listed(x \o y) /\ Only(x \o y, K) = Only(x, K) \o Only(y, K)
<1>1. PICK S : x \in Seq(S)
  BY DEF Listed
<1>2. PICK T : y \in Seq(T)
  BY DEF Listed
<1>3. x \in Seq(S \cup T) /\ y \in Seq(S \cup T)
  BY <1>1, <1>2
<1>4. x \o y \in Seq(S \cup T) /\ Only(x \o y, K) = Only(x, K) \o Only(y, K)
  BY <1>3, ConcatElements, OnlyConcat
<1>5. QED
  BY <1>4 DEF Listed

\* One element more.
LEMMA OnlyMore ==
  ASSUME NEW x, NEW e, NEW K, Listed(x)
  PROVE  /\ e \in K => Only(Append(x, e), K) = Append(Only(x, K), e)
         /\ e \notin K => Only(Append(x, e), K) = Only(x, K)
<1>1. PICK S : x \in Seq(S)
  BY DEF Listed
<1>2. x \in Seq(S \cup {e}) /\ e \in S \cup {e}
  BY <1>1
<1>3. QED
  BY <1>2, OnlyAppend

\* One less, in front.
LEMMA OnlyLess ==
  ASSUME NEW x, NEW K, Listed(x), x # <<>>
  PROVE  /\ Listed(Tail(x))
         /\ Head(x) \in K => Only(x, K) = <<Head(x)>> \o Only(Tail(x), K)
         /\ Head(x) \notin K => Only(x, K) = Only(Tail(x), K)
<1>1. PICK S : x \in Seq(S)
  BY DEF Listed
<1>2. Tail(x) \in Seq(S)
  BY <1>1
<1>3. Listed(Tail(x))
  BY <1>2 DEF Listed
<1>4. QED
  BY <1>1, <1>3, OnlyHead

=============================================================================
