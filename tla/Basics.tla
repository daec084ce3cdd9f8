-------------------------------- MODULE Basics --------------------------------
(***************************************************************************)
(* What the proofs of several components need of numbers, finite sets and  *)
(* sequences and the library's theorems do not say.  An induction over a   *)
(* number or a finite set is made with a smallest counterexample.          *)
(***************************************************************************)
EXTENDS Integers, Sequences, FiniteSetTheorems, WellFoundedInduction, TLAPS

-----------------------------------------------------------------------------
(***************************************************************************)
(* Numbers.                                                                *)
(***************************************************************************)
\* Euclid's division, in the provers' own terms.
LEMMA Division ==
    ASSUME NEW m \in Nat, NEW d \in Nat \ {0}
    PROVE  /\ m \div d \in Nat
           /\ m % d \in 0 .. d - 1
           /\ m = d * (m \div d) + (m % d)
<1>1. m \div d \in Nat
  OBVIOUS
<1>2. m % d \in 0 .. d - 1
  OBVIOUS
<1>3. m = d * (m \div d) + (m % d)
  OBVIOUS
<1> QED BY <1>1, <1>2, <1>3, Zenon

\* A product grows with a factor.
LEMMA ProductGrows ==
    ASSUME NEW d \in Nat, NEW a \in Nat, NEW b \in Nat, a <= b
    PROVE  /\ d * a \in Nat /\ d * b \in Nat
           /\ d * a <= d * b
           /\ d * (a + 1) = d * a + d
OBVIOUS

\* Quotient and remainder of a number that is written as one.
LEMMA DivMod ==
    ASSUME NEW q \in Nat, NEW d \in Nat \ {0}, NEW r \in 0 .. d - 1
    PROVE  /\ (d * q + r) \div d = q
           /\ (d * q + r) % d = r
           /\ (q * d + r) \div d = q
           /\ (q * d + r) % d = r
<1> DEFINE m == d * q + r
           k == m \div d
<1>0. d * q \in Nat
  OBVIOUS
<1>1. m \in Nat /\ m = d * q + r
  BY <1>0
<1>2. k \in Nat /\ m % d \in 0 .. d - 1 /\ m = d * k + (m % d)
  <2> HIDE DEF m
  <2> QED BY <1>1, Division
<1> HIDE DEF m, k
<1> DEFINE dk == d * k
           dq == d * q
           rest == m % d
<1>3. dk \in Nat /\ dq \in Nat /\ rest \in 0 .. d - 1
      /\ m = dk + rest /\ m = dq + r
  BY <1>0, <1>1, <1>2
<1>4. /\ q + 1 <= k => dq + d <= dk
      /\ k + 1 <= q => dk + d <= dq
  BY <1>2, ProductGrows
<1>5. k = q
  <2> HIDE DEF dk, dq, rest
  <2>1. ~(q + 1 <= k)
    BY <1>3, <1>4
  <2>2. ~(k + 1 <= q)
    BY <1>3, <1>4
  <2> QED BY <1>2, <2>1, <2>2
<1>6. m % d = r
  <2>1. dk = dq
    BY <1>5
  <2> HIDE DEF dk, dq
  <2> QED BY <1>3, <2>1
<1>7. q * d + r = m
  BY DEF m
<1> QED BY <1>5, <1>6, <1>7 DEF m, k

\* One more: the remainder grows, or it wraps and the quotient grows.
LEMMA NextDivMod ==
    ASSUME NEW n \in Nat, NEW d \in Nat \ {0}
    PROVE  /\ (n % d) + 1 < d => /\ (n + 1) \div d = n \div d
                                 /\ (n + 1) % d = (n % d) + 1
           /\ (n % d) + 1 = d => /\ (n + 1) \div d = (n \div d) + 1
                                 /\ (n + 1) % d = 0
           /\ (n % d) + 1 <= d
<1> DEFINE q == n \div d
           c == n % d
<1>1. q \in Nat /\ c \in 0 .. d - 1 /\ n = d * q + c
  BY Division
<1> HIDE DEF q, c
<1>2. CASE c + 1 < d
  <2>1. d * q \in Nat
    BY <1>1
  <2>2. n + 1 = d * q + (c + 1) /\ c + 1 \in 0 .. d - 1
    BY <1>1, <1>2, <2>1
  <2>3. (n + 1) \div d = q /\ (n + 1) % d = c + 1
    BY <1>1, <2>2, DivMod
  <2> QED BY <1>1, <1>2, <2>3 DEF q, c
<1>3. CASE c + 1 = d
  <2>1. d * q \in Nat /\ d * (q + 1) = d * q + d
    BY <1>1
  <2>2. n + 1 = d * (q + 1) + 0 /\ q + 1 \in Nat /\ 0 \in 0 .. d - 1
    BY <1>1, <1>3, <2>1
  <2>3. /\ (d * (q + 1) + 0) \div d = q + 1
        /\ (d * (q + 1) + 0) % d = 0
    BY <2>2, DivMod
  <2>4. (n + 1) \div d = q + 1 /\ (n + 1) % d = 0
    BY <2>2, <2>3
  <2> QED BY <1>1, <1>3, <2>4 DEF q, c
<1> QED BY <1>1, <1>2, <1>3 DEF c

\* A number below its divisor.
LEMMA SmallDivMod ==
    ASSUME NEW n \in Nat, NEW d \in Nat \ {0}
    PROVE  /\ n < d => n \div d = 0 /\ n % d = n
           /\ n >= d => n \div d >= 1
<1>1. n \div d \in Nat /\ n % d \in 0 .. d - 1 /\ n = d * (n \div d) + (n % d)
  BY Division
<1>2. CASE n < d
  <2>1. n = d * 0 + n /\ n \in 0 .. d - 1
    BY <1>2
  <2> QED BY <1>2, <2>1, DivMod
<1>3. CASE n >= d
  <2>1. n \div d = 0 => n = n % d
    BY <1>1
  <2> QED BY <1>1, <1>3, <2>1
<1> QED BY <1>2, <1>3

\* A nonempty family of subsets of a finite set has a minimal member.
LEMMA MinimalSubset ==
    ASSUME NEW S, IsFiniteSet(S), NEW C \in SUBSET SUBSET S, C # {}
    PROVE  \E x \in C : \A y \in C : y \subseteq x => y = x
<1> DEFINE R == StrictSubsetOrdering(S)
<1>1. FiniteSubsetsOf(S) = SUBSET S
  BY FS_FiniteSubsetsOfFinite
<1>2. IsWellFoundedOn(R, SUBSET S)
  BY <1>1, FS_StrictSubsetOrderingWellFounded
<1>3. PICK x \in C : \A y \in C : ~(<<y, x>> \in R)
  <2> HIDE DEF R
  <2> QED BY <1>2, WFMin
<1>4. ASSUME NEW y \in C, y \subseteq x
      PROVE  y = x
  BY <1>3, <1>4 DEF StrictSubsetOrdering
<1> QED BY <1>4

\* A nonempty set of numbers has a smallest one.
LEMMA SmallestOf ==
    ASSUME NEW N \in SUBSET Nat, N # {}
    PROVE  \E m \in N : \A k \in N : m <= k
<1>1. PICK n \in N : TRUE
  OBVIOUS
<1> DEFINE C == {0 .. k : k \in {k \in N : k <= n}}
<1>2. IsFiniteSet(0 .. n)
  BY FS_Interval
<1>3. C \in SUBSET SUBSET (0 .. n) /\ C # {}
  OBVIOUS
<1>4. PICK u \in C : \A v \in C : v \subseteq u => v = u
  <2> DEFINE I == 0 .. n
  <2>1. IsFiniteSet(I) /\ C \in SUBSET SUBSET I /\ C # {}
    BY <1>2, <1>3
  <2> HIDE DEF C, I
  <2> QED BY <2>1, MinimalSubset
<1>5. PICK m \in N : m <= n /\ u = 0 .. m
  BY <1>4
<1>6. ASSUME NEW k \in N
      PROVE  m <= k
  <2>1. SUFFICES ASSUME k < m
                 PROVE  FALSE
    OBVIOUS
  <2>2. 0 .. k \in C /\ 0 .. k \subseteq 0 .. m
    BY <1>5, <2>1
  <2>3. 0 .. k = 0 .. m
    <3> HIDE DEF C
    <3> QED BY <1>4, <1>5, <2>2
  <2>4. m \in 0 .. m /\ m \notin 0 .. k
    BY <2>1
  <2> QED BY <2>3, <2>4
<1> QED BY <1>6

-----------------------------------------------------------------------------
(***************************************************************************)
(* Sequences whose elements are of any kind.                               *)
(***************************************************************************)
\* A sequence of n elements, whatever they are.
IsSeq(s, n) == s = [i \in 1 .. n |-> s[i]]

\* The length of one.
LEMMA SeqIs ==
    ASSUME NEW s, NEW n \in Nat, IsSeq(s, n)
    PROVE  /\ s \in Seq({s[i] : i \in 1 .. n})
           /\ Len(s) = n /\ DOMAIN s = 1 .. n
<1> DEFINE X == {s[i] : i \in 1 .. n}
<1>1. \A i \in 1 .. n : s[i] \in X
  OBVIOUS
<1>2. s = [i \in 1 .. n |-> s[i]]
  BY DEF IsSeq
<1> HIDE DEF X
<1>3. s \in [1 .. n -> X]
  BY <1>1, <1>2
<1>4. s \in Seq(X) /\ Len(s) = n /\ DOMAIN s = 1 .. n
  BY <1>3
<1> QED BY <1>4 DEF X

\* A part of one.
LEMMA SubSeqIs ==
    ASSUME NEW s, NEW n \in Nat, IsSeq(s, n),
           NEW a \in 1 .. n + 1, NEW b \in a - 1 .. n
    PROVE  /\ SubSeq(s, a, b) = [i \in 1 .. b - a + 1 |-> s[a + i - 1]]
           /\ IsSeq(SubSeq(s, a, b), b - a + 1)
<1> DEFINE X == {s[i] : i \in 1 .. n}
<1>1. s \in Seq(X) /\ Len(s) = n
  BY SeqIs
<1> HIDE DEF X
<1>2. SubSeq(s, a, b) = [i \in 1 .. b - a + 1 |-> s[a + i - 1]]
  <2>1. /\ SubSeq(s, a, b) \in Seq(X)
        /\ Len(SubSeq(s, a, b)) = b - a + 1
        /\ \A i \in 1 .. b - a + 1 : SubSeq(s, a, b)[i] = s[a + i - 1]
    <3>1. CASE a <= b
      BY <1>1, <3>1
    <3>2. CASE a > b
      <4>1. b = a - 1
        BY <3>2
      <4>2. SubSeq(s, a, b) = <<>>
        BY <1>1, <3>2
      <4> QED BY <4>1, <4>2
    <3> QED BY <3>1, <3>2
  <2> DEFINE t == SubSeq(s, a, b)
  <2>2. t = [i \in 1 .. b - a + 1 |-> t[i]]
    <3> HIDE DEF t
    <3> QED BY <2>1 DEF t
  <2> QED BY <2>1, <2>2
<1> QED BY <1>2 DEF IsSeq

\* u has the m elements of t behind n others.
Behind(u, n, t, m) == \A i \in 1 .. m : u[n + i] = t[i]

\* Two of them, one after the other.
LEMMA ConcatIs ==
    ASSUME NEW s, NEW n \in Nat, IsSeq(s, n),
           NEW t, NEW m \in Nat, IsSeq(t, m)
    PROVE  /\ IsSeq(s \o t, n + m)
           /\ Behind(s \o t, 0, s, n)
           /\ Behind(s \o t, n, t, m)
<1> DEFINE X == {s[i] : i \in 1 .. n} \union {t[i] : i \in 1 .. m}
<1>1. s \in Seq(X) /\ Len(s) = n
  <2>1. s \in Seq({s[i] : i \in 1 .. n}) /\ Len(s) = n /\ DOMAIN s = 1 .. n
    BY SeqIs
  <2>2. \A i \in 1 .. n : s[i] \in X
    OBVIOUS
  <2> HIDE DEF X
  <2> QED BY <2>1, <2>2
<1>2. t \in Seq(X) /\ Len(t) = m
  <2>1. t \in Seq({t[i] : i \in 1 .. m}) /\ Len(t) = m /\ DOMAIN t = 1 .. m
    BY SeqIs
  <2>2. \A i \in 1 .. m : t[i] \in X
    OBVIOUS
  <2> HIDE DEF X
  <2> QED BY <2>1, <2>2
<1> HIDE DEF X
<1> DEFINE u == s \o t
<1>3. /\ u \in Seq(X) /\ Len(u) = n + m
      /\ \A i \in 1 .. n : u[0 + i] = s[i]
      /\ \A i \in 1 .. m : u[n + i] = t[i]
  BY <1>1, <1>2
<1>4. u = [i \in 1 .. n + m |-> u[i]]
  <2>1. n + m \in Nat
    OBVIOUS
  <2> HIDE DEF u
  <2> QED BY <1>3, <2>1
<1> HIDE DEF u
<1> QED BY <1>3, <1>4 DEF IsSeq, Behind, u

\* Appending to a sequence of n elements.
LEMMA AppendIs ==
    ASSUME NEW s, NEW n \in Nat, IsSeq(s, n), NEW e
    PROVE  /\ Append(s, e) = [i \in 1 .. n + 1 |-> IF i = n + 1 THEN e ELSE s[i]]
           /\ IsSeq(Append(s, e), n + 1)
           /\ \A i \in 1 .. n : Append(s, e)[i] = s[i]
           /\ Append(s, e)[n + 1] = e
<1> DEFINE X == {s[i] : i \in 1 .. n} \union {e}
<1>1. s = [i \in 1 .. n |-> s[i]]
  BY DEF IsSeq
<1>2. s \in Seq(X) /\ Len(s) = n /\ e \in X
  <2>1. \A i \in 1 .. n : s[i] \in X
    OBVIOUS
  <2> HIDE DEF X
  <2>2. s \in [1 .. n -> X]
    BY <1>1, <2>1
  <2>3. s \in Seq(X) /\ Len(s) = n
    BY <2>2
  <2> QED BY <2>3 DEF X
<1> HIDE DEF X
<1>3. Append(s, e) = [i \in 1 .. n + 1 |-> IF i = n + 1 THEN e ELSE s[i]]
  BY <1>1, <1>2
<1> QED BY <1>3 DEF IsSeq
=============================================================================
