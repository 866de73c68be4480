------------------------------ MODULE ScriptLemmas ------------------------------
(***************************************************************************)
(* Sequences of commands: what is in them, in which order, and what the    *)
(* loops that FlattenSeq stands for put together.  And the two ways to     *)
(* reason about them: induction over the naturals, stated with a set, and  *)
(* a recursion over them, which has a solution.                            *)
(***************************************************************************)
EXTENDS SequencesExt, SequenceTheorems, FiniteSetTheorems, WellFoundedInduction, TLAPS

\* What is in a sequence; the last element of B in it is c.
Occurs(c, s) == \E i \in 1..Len(s) : s[i] = c
Without(B, s) == \A i \in 1..Len(s) : s[i] \notin B
LastOf(B, c, s) == \E i \in 1..Len(s) : s[i] = c /\ \A j \in i+1..Len(s) : s[j] \notin B
\* No b comes after an a.
NeverAfter(a, b, s) == \A i, j \in 1..Len(s) : i < j /\ s[i] = a => s[j] # b

-----------------------------------------------------------------------------
\* Induction, without operators: the numbers that are not in a set have a least one.
LessThan == {ss \in Nat \X Nat : ss[1] < ss[2]}
LEMMA NatOrder == IsWellFoundedOn(LessThan, Nat)
  BY NatLessThanWellFounded, Zenon DEF OpToRel, LessThan

LEMMA Induction ==
  ASSUME NEW n \in Nat, NEW P, 0 \in P, \A i \in 1..n : i - 1 \in P => i \in P
  PROVE  \A i \in 0..n : i \in P
<1> DEFINE T == {i \in 0..n : i \notin P}
<1> SUFFICES ASSUME T # {} PROVE FALSE
  OBVIOUS
<1>1. T \subseteq Nat
  OBVIOUS
<1>2. PICK x \in T : \A y \in T : ~(<<y, x>> \in LessThan)
  BY <1>1, NatOrder, WFMin, Zenon
<1>3. x \in 1..n
  BY <1>2
<1>4. x - 1 \notin T
  <2>1. <<x - 1, x>> \in LessThan
    BY <1>3 DEF LessThan
  <2> QED BY <1>2, <2>1
<1> QED BY <1>3, <1>4

\* A recursion over 0..n has a solution; next has a value for every earlier one.
Steps(n, V, start, next) ==
    {f \in [0..n -> V] : f[0] = start /\ \A i \in 1..n : f[i] = next[<<f[i - 1], i>>]}
LEMMA Recursion ==
  ASSUME NEW n \in Nat, NEW V, NEW start \in V, NEW next \in [V \X (1..n) -> V]
  PROVE  Steps(n, V, start, next) # {}
<1> DEFINE Upto(m, f) == /\ f \in [0..m -> V]
                         /\ f[0] = start
                         /\ \A i \in 1..m : f[i] = next[<<f[i - 1], i>>]
           P == {m \in 0..n : \E f : Upto(m, f)}
<1>1. 0 \in P
  <2>1. Upto(0, [i \in 0..0 |-> start])
    OBVIOUS
  <2> HIDE DEF Upto
  <2> QED BY <2>1
<1>2. ASSUME NEW m \in 1..n, m - 1 \in P
      PROVE  m \in P
  <2>1. PICK f : Upto(m - 1, f)
    BY <1>2
  <2> DEFINE g == [i \in 0..m |-> IF i < m THEN f[i] ELSE next[<<f[m - 1], m>>]]
  <2>2. f[m - 1] \in V /\ next[<<f[m - 1], m>>] \in V
    BY <2>1
  <2>3. g \in [0..m -> V]
    BY <2>1, <2>2
  <2>4. g[0] = start
    BY <2>1
  <2>5. \A i \in 1..m : g[i] = next[<<g[i - 1], i>>]
    BY <2>1
  <2>6. Upto(m, g)
    BY <2>3, <2>4, <2>5
  <2> HIDE DEF Upto, g
  <2> QED BY <2>6
<1> HIDE DEF P
<1>3. n \in P
  BY <1>1, <1>2, Induction
<1> QED BY <1>3 DEF P, Steps

-----------------------------------------------------------------------------
LEMMA Joined ==
  ASSUME NEW X, NEW s \in Seq(X), NEW t \in Seq(X)
  PROVE  /\ s \o t \in Seq(X)
         /\ \A c : Occurs(c, s \o t) <=> Occurs(c, s) \/ Occurs(c, t)
         /\ \A B : Without(B, s \o t) <=> Without(B, s) /\ Without(B, t)
         /\ \A B, c : LastOf(B, c, t) => LastOf(B, c, s \o t)
         /\ \A B, c : LastOf(B, c, s) /\ Without(B, t) => LastOf(B, c, s \o t)
<1> DEFINE u == s \o t
<1>1. /\ u \in Seq(X)
      /\ Len(u) = Len(s) + Len(t)
      /\ \A i \in 1..Len(s) + Len(t) : u[i] = IF i <= Len(s) THEN s[i] ELSE t[i - Len(s)]
  BY ConcatProperties
<1>2. Len(s) \in Nat /\ Len(t) \in Nat
  BY LenProperties
<1> HIDE DEF u
<1>3. /\ \A i \in 1..Len(s) : i \in 1..Len(u) /\ u[i] = s[i]
      /\ \A i \in 1..Len(t) : i + Len(s) \in 1..Len(u) /\ u[i + Len(s)] = t[i]
      /\ \A i \in 1..Len(u) : i \in 1..Len(s) \/ (i - Len(s) \in 1..Len(t) /\ u[i] = t[i - Len(s)])
  BY <1>1, <1>2
<1>4. \A c : Occurs(c, u) <=> Occurs(c, s) \/ Occurs(c, t)
  BY <1>3 DEF Occurs
<1>5. \A B : Without(B, u) <=> Without(B, s) /\ Without(B, t)
  BY <1>3 DEF Without
<1>6. ASSUME NEW B, NEW c, LastOf(B, c, t) PROVE LastOf(B, c, u)
  <2>1. PICK i \in 1..Len(t) : t[i] = c /\ \A j \in i+1..Len(t) : t[j] \notin B
    BY <1>6 DEF LastOf
  <2>2. \A j \in i+Len(s)+1..Len(u) : u[j] \notin B
    <3> TAKE j \in i+Len(s)+1..Len(u)
    <3>1. j - Len(s) \in i+1..Len(t) /\ u[j] = t[j - Len(s)]
      BY <1>1, <1>2
    <3> QED BY <2>1, <3>1
  <2> QED BY <1>3, <2>1, <2>2 DEF LastOf
<1>7. ASSUME NEW B, NEW c, LastOf(B, c, s), Without(B, t) PROVE LastOf(B, c, u)
  <2>1. PICK i \in 1..Len(s) : s[i] = c /\ \A j \in i+1..Len(s) : s[j] \notin B
    BY <1>7 DEF LastOf
  <2>2. \A j \in i+1..Len(u) : u[j] \notin B
    <3> TAKE j \in i+1..Len(u)
    <3>1. CASE j <= Len(s)
      BY <1>1, <1>2, <2>1, <3>1
    <3>2. CASE j > Len(s)
      <4>1. j - Len(s) \in 1..Len(t) /\ u[j] = t[j - Len(s)]
        BY <1>1, <1>2, <3>2
      <4> QED BY <1>7, <4>1 DEF Without
    <3> QED BY <1>2, <3>1, <3>2
  <2> QED BY <1>3, <2>1, <2>2 DEF LastOf
<1> QED BY <1>1, <1>4, <1>5, <1>6, <1>7 DEF u

\* FlattenSeq, as the sequence of its prefixes.
LEMMA FlattenSteps ==
  ASSUME NEW X, NEW ss \in Seq(Seq(X)), ss # <<>>
  PROVE  \E f \in [1..Len(ss) -> Seq(X)] :
            /\ FlattenSeq(ss) = f[Len(ss)]
            /\ f[1] = ss[1]
            /\ \A i \in 2..Len(ss) : f[i] = f[i - 1] \o ss[i]
<1> DEFINE n == Len(ss)
<1> DEFINE body(f) == [i \in 1..n |-> IF i = 1 THEN ss[i] ELSE f[i - 1] \o ss[i]]
<1> DEFINE flat == CHOOSE f : f = body(f)
<1>1. n \in Nat /\ n >= 1 /\ \A i \in 1..n : ss[i] \in Seq(X)
  BY EmptySeq, LenProperties, ElementOfSeq
<1>2. \E f : f = body(f)
  <2> DEFINE m == n - 1
             next == [q \in Seq(X) \X (1..m) |-> q[1] \o ss[q[2] + 1]]
  <2>1. next \in [Seq(X) \X (1..m) -> Seq(X)]
    <3> SUFFICES ASSUME NEW q \in Seq(X) \X (1..m) PROVE q[1] \o ss[q[2] + 1] \in Seq(X)
      OBVIOUS
    <3>1. q[1] \in Seq(X) /\ ss[q[2] + 1] \in Seq(X)
      BY <1>1
    <3> QED BY <3>1, ConcatProperties
  <2>2. ss[1] \in Seq(X) /\ m \in Nat /\ n = m + 1
    BY <1>1
  <2>3. \A q \in Seq(X) \X (1..m) : next[q] = q[1] \o ss[q[2] + 1]
    OBVIOUS
  <2> HIDE DEF next, m
  <2> DEFINE start == ss[1]
  <2>6. start \in Seq(X)
    BY <2>2
  <2> HIDE DEF start
  <2>8. Steps(m, Seq(X), start, next) # {}
    BY <2>1, <2>2, <2>6, Recursion
  <2>7. PICK g \in [0..m -> Seq(X)] :
            g[0] = start /\ \A i \in 1..m : g[i] = next[<<g[i - 1], i>>]
    BY <2>8 DEF Steps
  <2> DEFINE f == [i \in 1..n |-> g[i - 1]]
  <2>4. \A i \in 1..n : f[i] = IF i = 1 THEN ss[i] ELSE f[i - 1] \o ss[i]
    <3> TAKE i \in 1..n
    <3>1. CASE i = 1
      BY <2>2, <2>7, <3>1 DEF start
    <3>2. CASE i # 1
      <4> DEFINE k == i - 1
      <4>1. k \in 1..m /\ k - 1 \in 0..m /\ k \in 1..n /\ i = k + 1
        BY <2>2, <3>2
      <4> HIDE DEF k
      <4>2. f[i] = g[k] /\ f[k] = g[k - 1] /\ g[k - 1] \in Seq(X)
        BY <2>7, <4>1
      <4>3. g[k] = g[k - 1] \o ss[k + 1]
        BY <2>3, <2>7, <4>1, <4>2
      <4> QED BY <3>2, <4>1, <4>2, <4>3 DEF k
    <3> QED BY <3>1, <3>2
  <2>5. f = body(f)
    BY <2>4
  <2> QED BY <2>5
<1>3. flat = body(flat)
  BY <1>2
<1>4. FlattenSeq(ss) = flat[n]
  BY <1>1 DEF FlattenSeq
<1> HIDE DEF flat
<1>5. /\ DOMAIN flat = 1..n /\ flat[1] = ss[1]
      /\ \A i \in 2..n : flat[i] = flat[i - 1] \o ss[i]
  <2>1. DOMAIN flat = 1..n
    BY <1>3
  <2>2. \A i \in 1..n : flat[i] = IF i = 1 THEN ss[i] ELSE flat[i - 1] \o ss[i]
    BY <1>3
  <2>3. 1 \in 1..n /\ \A i \in 2..n : i \in 1..n /\ i # 1
    BY <1>1
  <2> HIDE DEF n
  <2> QED BY <2>1, <2>2, <2>3
<1>6. \A i \in 1..n : flat[i] \in Seq(X)
  <2> DEFINE P == {i \in 0..n - 1 : flat[i + 1] \in Seq(X)}
  <2>1. 0 \in P
    BY <1>1, <1>5
  <2>2. ASSUME NEW i \in 1..n - 1, i - 1 \in P PROVE i \in P
    <3>1. i + 1 \in 2..n /\ i + 1 \in 1..n /\ (i + 1) - 1 = i /\ (i - 1) + 1 = i
      BY <1>1
    <3>3. flat[i] \in Seq(X) /\ ss[i + 1] \in Seq(X)
      BY <1>1, <2>2, <3>1
    <3>4. flat[i + 1] = flat[i] \o ss[i + 1]
      BY <1>5, <3>1
    <3>2. flat[i + 1] \in Seq(X)
      BY <3>3, <3>4, ConcatProperties
    <3> QED BY <3>1, <3>2
  <2>3. n - 1 \in Nat
    BY <1>1
  <2> HIDE DEF P
  <2>4. \A i \in 0..n - 1 : i \in P
    BY <2>1, <2>2, <2>3, Induction
  <2>5. \A i \in 1..n : i - 1 \in 0..n - 1 /\ (i - 1) + 1 = i
    BY <1>1
  <2> QED BY <2>4, <2>5 DEF P
<1>7. flat \in [1..n -> Seq(X)]
  BY <1>3, <1>6
<1> QED BY <1>4, <1>5, <1>7

LEMMA Flattened ==
  ASSUME NEW X, NEW ss \in Seq(Seq(X))
  PROVE  LET all == FlattenSeq(ss)
         IN  /\ all \in Seq(X)
             /\ \A c : Occurs(c, all) <=> \E k \in 1..Len(ss) : Occurs(c, ss[k])
             /\ \A B, c : \A k \in 1..Len(ss) :
                   /\ LastOf(B, c, ss[k])
                   /\ \A j \in 1..Len(ss) : j > k => Without(B, ss[j])
                   => LastOf(B, c, all)
<1>1. CASE ss = <<>>
  <2>1. FlattenSeq(ss) = <<>> /\ Len(ss) = 0
    BY <1>1 DEF FlattenSeq
  <2>2. <<>> \in Seq(X) /\ \A c : ~Occurs(c, <<>>)
    BY DEF Occurs
  <2>3. \A k \in 1..0 : FALSE
    OBVIOUS
  <2> QED BY <2>1, <2>2, <2>3
<1>2. CASE ss # <<>>
  <2> DEFINE n == Len(ss)
  <2>1. n \in Nat /\ n >= 1 /\ \A i \in 1..n : ss[i] \in Seq(X)
    BY <1>2, EmptySeq, LenProperties, ElementOfSeq
  <2>2. PICK f \in [1..n -> Seq(X)] :
            /\ FlattenSeq(ss) = f[n]
            /\ f[1] = ss[1]
            /\ \A i \in 2..n : f[i] = f[i - 1] \o ss[i]
    BY <1>2, FlattenSteps
  <2> HIDE DEF n
  <2> DEFINE In(i) == \A c : Occurs(c, f[i]) <=> \E k \in 1..i : Occurs(c, ss[k])
             Final(i) == \A B, c : \A k \in 1..i :
                           /\ LastOf(B, c, ss[k])
                           /\ \A j \in 1..n : j > k => Without(B, ss[j])
                           => LastOf(B, c, f[i])
             P == {i \in 0..n - 1 : In(i + 1) /\ Final(i + 1)}
  <2>3. 0 \in P
    <3>1. In(1) /\ Final(1)
      BY <2>2
    <3>2. 0 + 1 = 1 /\ 0 \in 0..n - 1
      BY <2>1
    <3> HIDE DEF In, Final
    <3> QED BY <3>1, <3>2
  <2>4. ASSUME NEW i \in 1..n - 1, i - 1 \in P PROVE i \in P
    <3> DEFINE s == f[i]
               t == ss[i + 1]
    <3>1. /\ s \in Seq(X) /\ t \in Seq(X) /\ i + 1 \in 1..n /\ i \in 1..n
          /\ f[i + 1] = s \o t
      <4>1. i \in 1..n /\ i + 1 \in 1..n /\ i + 1 \in 2..n /\ (i + 1) - 1 = i
        BY <2>1
      <4> QED BY <2>1, <2>2, <4>1
    <3>2. In(i) /\ Final(i)
      <4>1. (i - 1) + 1 = i
        BY <2>1
      <4> QED BY <2>4, <4>1
    <3> HIDE DEF s, t
    <3>3. /\ \A c : Occurs(c, s \o t) <=> Occurs(c, s) \/ Occurs(c, t)
          /\ \A B, c : LastOf(B, c, t) => LastOf(B, c, s \o t)
          /\ \A B, c : LastOf(B, c, s) /\ Without(B, t) => LastOf(B, c, s \o t)
      BY <3>1, Joined
    <3>4. \A k \in 1..i + 1 : k \in 1..i \/ k = i + 1
      BY <2>1
    <3>5. \A k \in 1..i : k \in 1..i + 1 /\ i + 1 > k
      BY <2>1
    <3>6. i + 1 \in 1..i + 1
      BY <2>1
    <3>7. In(i + 1)
      BY <3>1, <3>2, <3>3, <3>4, <3>5, <3>6 DEF s, t
    <3>8. Final(i + 1)
      <4> SUFFICES ASSUME NEW B, NEW c, NEW k \in 1..i + 1, LastOf(B, c, ss[k]),
                          \A j \in 1..n : j > k => Without(B, ss[j])
                   PROVE  LastOf(B, c, s \o t)
        BY <3>1
      <4>1. CASE k = i + 1
        BY <3>3, <4>1 DEF t
      <4>2. CASE k \in 1..i
        <5>1. LastOf(B, c, s)
          BY <3>2, <4>2 DEF s
        <5>2. Without(B, t)
          BY <3>1, <3>5, <4>2 DEF t
        <5> QED BY <3>3, <5>1, <5>2
      <4> QED BY <3>4, <4>1, <4>2
    <3> HIDE DEF In, Final
    <3> QED BY <2>1, <3>7, <3>8
  <2>5. n - 1 \in Nat /\ n - 1 \in 0..n - 1 /\ (n - 1) + 1 = n /\ n \in 1..n
    BY <2>1
  <2> HIDE DEF In, Final
  <2>6. n - 1 \in P
    <3> HIDE DEF P
    <3> QED BY <2>3, <2>4, <2>5, Induction
  <2>7. In(n) /\ Final(n)
    BY <2>5, <2>6
  <2> QED BY <2>2, <2>5, <2>7 DEF In, Final, n
<1> QED BY <1>1, <1>2

\* A set of sequences that has what its members put together make, has the whole.
LEMMA FlattenedIn ==
  ASSUME NEW X, NEW Y \in SUBSET Seq(X), <<>> \in Y, \A s, t \in Y : s \o t \in Y,
         NEW ss \in Seq(Seq(X)), \A k \in 1..Len(ss) : ss[k] \in Y
  PROVE  FlattenSeq(ss) \in Y
<1>1. CASE ss = <<>>
  BY <1>1 DEF FlattenSeq
<1>2. CASE ss # <<>>
  <2> DEFINE n == Len(ss)
  <2>1. n \in Nat /\ n >= 1
    BY <1>2, EmptySeq, LenProperties
  <2>2. PICK f \in [1..n -> Seq(X)] :
            /\ FlattenSeq(ss) = f[n]
            /\ f[1] = ss[1]
            /\ \A i \in 2..n : f[i] = f[i - 1] \o ss[i]
    <3>1. ss \in Seq(Seq(X)) /\ ss # <<>>
      BY <1>2
    <3> QED BY ONLY <3>1, FlattenSteps
  <2>3. \A i \in 1..n : ss[i] \in Y
    OBVIOUS
  <2> HIDE DEF n
  <2> DEFINE P == {i \in 0..n - 1 : f[i + 1] \in Y}
  <2>4. 0 \in P
    <3>1. 0 \in 0..n - 1 /\ 0 + 1 = 1 /\ 1 \in 1..n
      BY <2>1
    <3> QED BY <2>2, <2>3, <3>1
  <2>5. ASSUME NEW i \in 1..n - 1, i - 1 \in P PROVE i \in P
    <3>1. f[i] \in Y /\ i + 1 \in 2..n /\ i + 1 \in 1..n /\ (i + 1) - 1 = i
      BY <2>1, <2>5
    <3>2. f[i + 1] = f[i] \o ss[i + 1]
      BY <2>2, <3>1
    <3>3. f[i] \o ss[i + 1] \in Y
      BY <2>3, <3>1
    <3>4. i \in 0..n - 1
      BY <2>1
    <3> QED BY <3>2, <3>3, <3>4
  <2>6. n - 1 \in Nat /\ n - 1 \in 0..n - 1 /\ (n - 1) + 1 = n
    BY <2>1
  <2>7. n - 1 \in P
    <3> HIDE DEF P
    <3> QED BY <2>4, <2>5, <2>6, Induction
  <2> QED BY <2>2, <2>6, <2>7
<1> QED BY <1>1, <1>2

\* Where an a and a b can only be in one of the sequences, the order in it is that of all.
LEMMA NeverAfterJoined ==
  ASSUME NEW X, NEW s \in Seq(X), NEW t \in Seq(X), NEW a, NEW b,
         NeverAfter(a, b, s), NeverAfter(a, b, t), ~Occurs(a, s) \/ ~Occurs(b, t)
  PROVE  NeverAfter(a, b, s \o t)
<1> DEFINE st == s \o t
<1>1. Len(s) \in Nat /\ Len(t) \in Nat /\ Len(st) = Len(s) + Len(t)
  BY ConcatProperties, LenProperties
<1>2. \A i \in 1..Len(s) + Len(t) : st[i] = IF i <= Len(s) THEN s[i] ELSE t[i - Len(s)]
  BY ConcatProperties
<1> HIDE DEF st
<1>3. ASSUME NEW i \in 1..Len(st), NEW j \in 1..Len(st), i < j, st[i] = a
      PROVE  st[j] # b
  <2>1. CASE j <= Len(s)
    <3>1. i \in 1..Len(s) /\ j \in 1..Len(s) /\ st[i] = s[i] /\ st[j] = s[j]
      BY <1>1, <1>2, <1>3, <2>1
    <3> QED BY <1>3, <3>1 DEF NeverAfter
  <2>2. CASE i > Len(s)
    <3>1. /\ i - Len(s) \in 1..Len(t) /\ j - Len(s) \in 1..Len(t) /\ i - Len(s) < j - Len(s)
          /\ st[i] = t[i - Len(s)] /\ st[j] = t[j - Len(s)]
      BY <1>1, <1>2, <1>3, <2>2
    <3> QED BY <1>3, <3>1 DEF NeverAfter
  <2>3. CASE i <= Len(s) /\ j > Len(s)
    <3>1. i \in 1..Len(s) /\ j - Len(s) \in 1..Len(t) /\ st[i] = s[i] /\ st[j] = t[j - Len(s)]
      BY <1>1, <1>2, <1>3, <2>3
    <3> QED BY <1>3, <3>1 DEF Occurs
  <2> QED BY <1>1, <2>1, <2>2, <2>3
<1> QED BY <1>3 DEF NeverAfter, st

LEMMA FlattenedOrder ==
  ASSUME NEW X, NEW ss \in Seq(Seq(X)), NEW a, NEW b, NEW k \in 1..Len(ss),
         NeverAfter(a, b, ss[k]),
         \A j \in 1..Len(ss) : j # k => ~Occurs(a, ss[j]) /\ ~Occurs(b, ss[j])
  PROVE  NeverAfter(a, b, FlattenSeq(ss))
<1> DEFINE n == Len(ss)
<1>1. n \in Nat /\ k \in 1..n /\ ss # <<>>
  <2>1. ss = <<>> => Len(ss) = 0
    OBVIOUS
  <2> QED BY <2>1, LenProperties
<1>2. \A i \in 1..n : ss[i] \in Seq(X)
  BY ElementOfSeq
<1>3. PICK f \in [1..n -> Seq(X)] :
         /\ FlattenSeq(ss) = f[n] /\ f[1] = ss[1]
         /\ \A i \in 2..n : f[i] = f[i - 1] \o ss[i]
  BY <1>1, FlattenSteps
<1>4. \A j \in 1..n : NeverAfter(a, b, ss[j])
  BY DEF NeverAfter, Occurs
<1> HIDE DEF n
<1> DEFINE P == {i \in 0..n : i > 0 => /\ NeverAfter(a, b, f[i])
                                       /\ i < k => ~Occurs(a, f[i])}
<1>5. 0 \in P
  BY <1>1
<1>6. ASSUME NEW i \in 1..n, i - 1 \in P PROVE i \in P
  <2>1. CASE i = 1
    <3>1. NeverAfter(a, b, f[1]) /\ (1 < k => ~Occurs(a, f[1]))
      <4>1. 1 \in 1..n /\ (1 < k => 1 # k)
        BY <1>1
      <4> QED BY <1>3, <1>4, <4>1 DEF n
    <3> QED BY <1>1, <2>1, <3>1
  <2>2. CASE i # 1
    <3>1. i \in 2..n /\ i - 1 \in 1..n /\ i - 1 > 0 /\ f[i] = f[i - 1] \o ss[i]
      <4>1. i \in 2..n /\ i - 1 \in 1..n /\ i - 1 > 0
        BY <1>1, <2>2
      <4> QED BY <1>3, <4>1
    <3>2. NeverAfter(a, b, f[i - 1]) /\ (i - 1 < k => ~Occurs(a, f[i - 1]))
      BY <1>6, <3>1
    <3>3. f[i - 1] \in Seq(X) /\ ss[i] \in Seq(X) /\ NeverAfter(a, b, ss[i])
      BY <1>2, <1>3, <1>4, <3>1
    <3>4. i # k => ~Occurs(a, ss[i]) /\ ~Occurs(b, ss[i])
      BY DEF n
    <3>5. ~Occurs(a, f[i - 1]) \/ ~Occurs(b, ss[i])
      <4>1. i - 1 < k \/ i # k
        BY <1>1
      <4> QED BY <3>2, <3>4, <4>1
    <3>6. NeverAfter(a, b, f[i - 1] \o ss[i])
      BY <3>2, <3>3, <3>5, NeverAfterJoined
    <3>7. i < k => ~Occurs(a, f[i - 1] \o ss[i])
      <4>1. i < k => i - 1 < k /\ i # k
        BY <1>1
      <4> QED BY <3>2, <3>3, <3>4, <4>1, Joined
    <3>8. f[i] = f[i - 1] \o ss[i] /\ i \in 0..n
      BY <1>1, <3>1
    <3> QED BY <3>6, <3>7, <3>8
  <2> QED BY <2>1, <2>2
<1>7. n \in P
  <2>1. \A i \in 1..n : i - 1 \in P => i \in P
    BY <1>6
  <2> HIDE DEF P
  <2>2. \A i \in 0..n : i \in P
    BY <1>1, <1>5, <2>1, Induction
  <2> QED BY <1>1, <2>2
<1> QED BY <1>1, <1>3, <1>7 DEF P

LEMMA Small ==
  /\ \A c : ~Occurs(c, <<>>)
  /\ \A a, c : Occurs(c, <<a>>) <=> c = a
  /\ \A X : \A a \in X : <<a>> \in Seq(X)
  /\ \A X : \A a, b \in X : <<a, b>> \in Seq(X)
  /\ \A a, b, c : Occurs(c, <<a, b>>) <=> c = a \/ c = b
  /\ \A a, B : LastOf(B, a, <<a>>)
  /\ \A a, b, B : LastOf(B, b, <<a, b>>)
<1>1. \A c : ~Occurs(c, <<>>)
  BY DEF Occurs
<1>2. \A a, c : Occurs(c, <<a>>) <=> c = a
  BY DEF Occurs
<1>3. \A a, b, c : Occurs(c, <<a, b>>) <=> c = a \/ c = b
  <2> TAKE a, b, c
  <2>1. Len(<<a, b>>) = 2 /\ <<a, b>>[1] = a /\ <<a, b>>[2] = b
    OBVIOUS
  <2> QED BY <2>1 DEF Occurs
<1>4. \A a, B : LastOf(B, a, <<a>>)
  BY DEF LastOf
<1>5. \A a, b, B : LastOf(B, b, <<a, b>>)
  <2> TAKE a, b, B
  <2>1. Len(<<a, b>>) = 2 /\ <<a, b>>[2] = b
    OBVIOUS
  <2> QED BY <2>1 DEF LastOf
<1>6. \A X : \A a \in X : <<a>> \in Seq(X)
  OBVIOUS
<1>7. \A X : \A a, b \in X : <<a, b>> \in Seq(X)
  OBVIOUS
<1> QED BY <1>1, <1>2, <1>3, <1>4, <1>5, <1>6, <1>7

\* The first command has been run.
LEMMA AfterHead ==
  ASSUME NEW X, NEW s \in Seq(X), s # <<>>
  PROVE  /\ Head(s) = s[1] /\ Head(s) \in X /\ Tail(s) \in Seq(X)
         /\ Len(s) \in Nat /\ Len(Tail(s)) = Len(s) - 1
         /\ \A i \in 1..Len(Tail(s)) : Tail(s)[i] = s[i + 1]
         /\ \A x : Occurs(x, s) <=> x = Head(s) \/ Occurs(x, Tail(s))
         /\ \A B : Without(B, s) <=> Head(s) \notin B /\ Without(B, Tail(s))
         /\ \A B, x : LastOf(B, x, s) =>
               LastOf(B, x, Tail(s)) \/ (x = Head(s) /\ Without(B, Tail(s)))
<1> DEFINE c == s[1]
           rest == Tail(s)
<1>1. /\ c \in X /\ Head(s) = c /\ Len(s) \in Nat /\ Len(s) >= 1
      /\ rest \in Seq(X) /\ Len(rest) = Len(s) - 1
      /\ \A i \in 1..Len(rest) : rest[i] = s[i + 1]
  BY EmptySeq, LenProperties, HeadTailProperties
<1> HIDE DEF rest
<1>2. \A i \in 1..Len(s) : i = 1 \/ (i - 1 \in 1..Len(rest) /\ s[i] = rest[i - 1])
  BY <1>1
<1>3. /\ \A i \in 1..Len(rest) : i + 1 \in 2..Len(s) /\ i + 1 \in 1..Len(s)
      /\ 1 \in 1..Len(s) /\ s[1] = c
  BY <1>1 DEF c
<1> HIDE DEF c
<1>4. \A x : Occurs(x, s) <=> x = c \/ Occurs(x, rest)
  BY <1>1, <1>2, <1>3 DEF Occurs
<1>5. \A B : Without(B, s) <=> c \notin B /\ Without(B, rest)
  BY <1>1, <1>2, <1>3 DEF Without
<1>6. ASSUME NEW B, NEW x, LastOf(B, x, s)
      PROVE  LastOf(B, x, rest) \/ (x = c /\ Without(B, rest))
  <2>1. PICK i \in 1..Len(s) : s[i] = x /\ \A j \in i+1..Len(s) : s[j] \notin B
    BY <1>6 DEF LastOf
  <2>2. CASE i = 1
    BY <1>1, <1>3, <2>1, <2>2 DEF Without
  <2>3. CASE i # 1
    <3>1. i - 1 \in 1..Len(rest) /\ rest[i - 1] = x
      BY <1>2, <2>1, <2>3
    <3>2. \A j \in (i - 1)+1..Len(rest) : rest[j] \notin B
      BY <1>1, <2>1, <2>3
    <3> QED BY <3>1, <3>2 DEF LastOf
  <2> QED BY <2>2, <2>3
<1> QED BY <1>1, <1>4, <1>5, <1>6 DEF rest

LEMMA OrderAfterHead ==
  ASSUME NEW X, NEW s \in Seq(X), s # <<>>, NEW a, NEW b, NeverAfter(a, b, s)
  PROVE  NeverAfter(a, b, Tail(s)) /\ (a = Head(s) => ~Occurs(b, Tail(s)))
<1>1. /\ Head(s) = s[1] /\ Len(s) \in Nat /\ Len(Tail(s)) = Len(s) - 1
      /\ \A i \in 1..Len(Tail(s)) : Tail(s)[i] = s[i + 1]
  BY AfterHead
<1>2. \A i \in 1..Len(Tail(s)) : i + 1 \in 1..Len(s) /\ 1 < i + 1 /\ 1 \in 1..Len(s)
  BY <1>1
<1>3. \A i, j \in 1..Len(Tail(s)) : i < j => i + 1 < j + 1
  OBVIOUS
<1>4. NeverAfter(a, b, Tail(s))
  BY <1>1, <1>2, <1>3 DEF NeverAfter
<1>5. a = Head(s) => ~Occurs(b, Tail(s))
  BY <1>1, <1>2 DEF NeverAfter, Occurs
<1> QED BY <1>4, <1>5

-----------------------------------------------------------------------------
\* Sequences written out.
LEMMA BeforeOne ==
  ASSUME NEW a, NEW b
  PROVE  <<a>> \o <<b>> = <<a, b>>
<1> DEFINE X == {a, b}
<1>6. a \in X /\ b \in X
  OBVIOUS
<1> HIDE DEF X
<1> DEFINE s == <<a>>
           t == <<b>>
           u == <<a, b>>
<1>1. /\ s \in Seq(X) /\ t \in Seq(X) /\ u \in Seq(X)
      /\ Len(s) = 1 /\ Len(t) = 1 /\ Len(u) = 2
      /\ s[1] = a /\ t[1] = b /\ u[1] = a /\ u[2] = b
  BY <1>6
<1> HIDE DEF s, t, u
<1>5. /\ s \o t \in Seq(X) /\ Len(s \o t) = Len(s) + Len(t)
      /\ \A i \in 1..Len(s) + Len(t) :
            (s \o t)[i] = IF i <= Len(s) THEN s[i] ELSE t[i - Len(s)]
  BY <1>1, ConcatProperties, Zenon
<1> DEFINE w == s \o t
<1> HIDE DEF w
<1>2. /\ w \in Seq(X) /\ Len(w) = 2
      /\ \A i \in 1..2 : w[i] = IF i <= 1 THEN s[i] ELSE t[i - 1]
  BY <1>1, <1>5 DEF w
<1>3. w[1] = u[1] /\ w[2] = u[2]
  BY <1>1, <1>2
<1>4. w = u
  BY <1>1, <1>2, <1>3
<1> QED BY <1>4 DEF s, t, u, w

LEMMA BeforeTwo ==
  ASSUME NEW a, NEW b, NEW c
  PROVE  <<a>> \o <<b, c>> = <<a, b, c>>
<1> DEFINE X == {a, b, c}
<1>6. a \in X /\ b \in X /\ c \in X
  OBVIOUS
<1> HIDE DEF X
<1> DEFINE s == <<a>>
           t == <<b, c>>
           u == <<a, b, c>>
<1>1. /\ s \in Seq(X) /\ t \in Seq(X) /\ u \in Seq(X)
      /\ Len(s) = 1 /\ Len(t) = 2 /\ Len(u) = 3
      /\ s[1] = a /\ t[1] = b /\ t[2] = c /\ u[1] = a /\ u[2] = b /\ u[3] = c
  BY <1>6
<1> HIDE DEF s, t, u
<1>5. /\ s \o t \in Seq(X) /\ Len(s \o t) = Len(s) + Len(t)
      /\ \A i \in 1..Len(s) + Len(t) :
            (s \o t)[i] = IF i <= Len(s) THEN s[i] ELSE t[i - Len(s)]
  BY <1>1, ConcatProperties, Zenon
<1> DEFINE w == s \o t
<1> HIDE DEF w
<1>2. /\ w \in Seq(X) /\ Len(w) = 3
      /\ \A i \in 1..3 : w[i] = IF i <= 1 THEN s[i] ELSE t[i - 1]
  BY <1>1, <1>5 DEF w
<1>3. \A i \in 1..3 : w[i] = u[i]
  <2>1. w[1] = u[1] /\ w[2] = u[2] /\ w[3] = u[3]
    BY <1>1, <1>2
  <2> QED BY <2>1
<1>4. w = u
  BY <1>1, <1>2, <1>3, SeqEqual
<1> QED BY <1>4 DEF s, t, u, w

LEMMA BeforeFive ==
  ASSUME NEW a, NEW b, NEW c, NEW d, NEW e, NEW f
  PROVE  <<a>> \o <<b, c, d, e, f>> = <<a, b, c, d, e, f>>
<1> DEFINE X == {a, b, c, d, e, f}
<1>6. a \in X /\ b \in X /\ c \in X /\ d \in X /\ e \in X /\ f \in X
  OBVIOUS
<1> HIDE DEF X
<1> DEFINE s == <<a>>
           t == <<b, c, d, e, f>>
           u == <<a, b, c, d, e, f>>
<1>1. /\ s \in Seq(X) /\ t \in Seq(X) /\ u \in Seq(X)
      /\ Len(s) = 1 /\ Len(t) = 5 /\ Len(u) = 6
      /\ s[1] = a /\ t[1] = b /\ t[2] = c /\ t[3] = d /\ t[4] = e /\ t[5] = f
      /\ u[1] = a /\ u[2] = b /\ u[3] = c /\ u[4] = d /\ u[5] = e /\ u[6] = f
  BY <1>6
<1> HIDE DEF s, t, u
<1>5. /\ s \o t \in Seq(X) /\ Len(s \o t) = Len(s) + Len(t)
      /\ \A i \in 1..Len(s) + Len(t) :
            (s \o t)[i] = IF i <= Len(s) THEN s[i] ELSE t[i - Len(s)]
  BY <1>1, ConcatProperties, Zenon
<1> DEFINE w == s \o t
<1> HIDE DEF w
<1>2. /\ w \in Seq(X) /\ Len(w) = 6
      /\ \A i \in 1..6 : w[i] = IF i <= 1 THEN s[i] ELSE t[i - 1]
  BY <1>1, <1>5 DEF w
<1>3. \A i \in 1..6 : w[i] = u[i]
  <2>1. /\ w[1] = u[1] /\ w[2] = u[2] /\ w[3] = u[3]
        /\ w[4] = u[4] /\ w[5] = u[5] /\ w[6] = u[6]
    BY <1>1, <1>2
  <2> QED BY <2>1
<1>4. w = u
  BY <1>1, <1>2, <1>3, SeqEqual
<1> QED BY <1>4 DEF s, t, u, w

-----------------------------------------------------------------------------
\* A fold takes the greatest element of a set of indices last: of the first k, k.
LEMMA Greatest ==
  \A k \in Nat \ {0} : Max(1..k) = k /\ (1..k) \ {k} = 1..k - 1
<1> SUFFICES ASSUME NEW k \in Nat \ {0}
             PROVE  Max(1..k) = k /\ (1..k) \ {k} = 1..k - 1
  OBVIOUS
<1>1. k \in 1..k /\ \A y \in 1..k : k >= y
  OBVIOUS
<1>2. Max(1..k) \in 1..k /\ \A y \in 1..k : Max(1..k) >= y
  BY <1>1 DEF Max
<1>3. Max(1..k) = k
  BY <1>1, <1>2
<1>4. (1..k) \ {k} = 1..k - 1
  OBVIOUS
<1> QED BY <1>3, <1>4

LEMMA GreatestOf ==
  ASSUME NEW n \in Nat, NEW s \in SUBSET (1..n), s # {}
  PROVE  Max(s) \in s /\ \A y \in s : Max(s) >= y
<1> DEFINE Has(m) == \A t \in SUBSET (1..m) : t # {} => \E x \in t : \A y \in t : x >= y
           P == {m \in 0..n : Has(m)}
<1>1. 0 \in P
  <2>1. \A t \in SUBSET (1..0) : t = {}
    OBVIOUS
  <2>2. Has(0)
    BY <2>1
  <2> HIDE DEF Has
  <2> QED BY <2>2
<1>2. ASSUME NEW m \in 1..n, m - 1 \in P PROVE m \in P
  <2> SUFFICES ASSUME NEW t \in SUBSET (1..m), t # {}
               PROVE  \E x \in t : \A y \in t : x >= y
    OBVIOUS
  <2>1. CASE m \in t
    BY <2>1
  <2>2. CASE m \notin t
    <3>1. t \in SUBSET (1..m - 1)
      BY <2>2
    <3> QED BY <1>2, <3>1
  <2> QED BY <2>1, <2>2
<1> HIDE DEF P
<1>3. n \in P
  BY <1>1, <1>2, Induction
<1>4. \E x \in s : \A y \in s : x >= y
  BY <1>3 DEF P
<1> QED BY <1>4 DEF Max

\* The function that a fold recurs with exists, when next keeps to V.
Folding(n, V, start, next) ==
    {f \in [SUBSET (1..n) -> V] :
        \A s \in SUBSET (1..n) :
            f[s] = IF s = {} THEN start ELSE next[<<f[s \ {Max(s)}], Max(s)>>]}
LEMMA Foldable ==
  ASSUME NEW n \in Nat, NEW V, NEW start \in V, NEW next \in [V \X (1..n) -> V]
  PROVE  Folding(n, V, start, next) # {}
<1> DEFINE Upto(m, f) ==
             /\ f \in [SUBSET (1..m) -> V]
             /\ \A s \in SUBSET (1..m) :
                   f[s] = IF s = {} THEN start ELSE next[<<f[s \ {Max(s)}], Max(s)>>]
           P == {m \in 0..n : \E f : Upto(m, f)}
<1>1. 0 \in P
  <2>1. Upto(0, [s \in SUBSET (1..0) |-> start])
    OBVIOUS
  <2> HIDE DEF Upto
  <2> QED BY <2>1
<1>2. ASSUME NEW m \in 1..n, m - 1 \in P PROVE m \in P
  <2>1. PICK f : Upto(m - 1, f)
    BY <1>2
  <2> DEFINE g == [s \in SUBSET (1..m) |->
                     IF m \in s THEN next[<<f[s \ {m}], m>>] ELSE f[s]]
  <2>2. \A s \in SUBSET (1..m) :
           /\ m \in s => s \ {m} \in SUBSET (1..m - 1) /\ Max(s) = m
           /\ m \notin s => s \in SUBSET (1..m - 1)
    <3> SUFFICES ASSUME NEW s \in SUBSET (1..m)
                 PROVE  /\ m \in s => s \ {m} \in SUBSET (1..m - 1) /\ Max(s) = m
                        /\ m \notin s => s \in SUBSET (1..m - 1)
      OBVIOUS
    <3>1. ASSUME m \in s PROVE Max(s) = m
      <4>1. m \in Nat /\ s # {}
        BY <3>1
      <4>2. Max(s) \in s /\ Max(s) >= m
        BY <3>1, <4>1, GreatestOf
      <4>3. Max(s) \in 1..m
        BY <4>2
      <4> QED BY <4>2, <4>3
    <3> QED BY <3>1
  <2>3. \A t \in SUBSET (1..m - 1) : f[t] \in V
    BY <2>1
  <2>4. g \in [SUBSET (1..m) -> V]
    <3> SUFFICES ASSUME NEW s \in SUBSET (1..m)
                 PROVE  (IF m \in s THEN next[<<f[s \ {m}], m>>] ELSE f[s]) \in V
      OBVIOUS
    <3>1. CASE m \in s
      <4>1. <<f[s \ {m}], m>> \in V \X (1..n)
        BY <2>2, <2>3, <3>1
      <4> QED BY <3>1, <4>1
    <3>2. CASE m \notin s
      BY <2>2, <2>3, <3>2
    <3> QED BY <3>1, <3>2
  <2>5. ASSUME NEW s \in SUBSET (1..m)
        PROVE  g[s] = IF s = {} THEN start ELSE next[<<g[s \ {Max(s)}], Max(s)>>]
    <3>1. CASE m \in s
      <4>1. g[s \ {m}] = f[s \ {m}]
        OBVIOUS
      <4> QED BY <2>2, <3>1, <4>1
    <3>2. CASE m \notin s
      <4>1. s \in SUBSET (1..m - 1) /\ g[s] = f[s]
        BY <2>2, <3>2
      <4>2. f[s] = IF s = {} THEN start ELSE next[<<f[s \ {Max(s)}], Max(s)>>]
        BY <2>1, <4>1
      <4>3. g[s \ {Max(s)}] = f[s \ {Max(s)}]
        BY <3>2
      <4> HIDE DEF g
      <4> QED BY <4>1, <4>2, <4>3
    <3> QED BY <3>1, <3>2
  <2>6. Upto(m, g)
    BY <2>4, <2>5
  <2> HIDE DEF Upto, g
  <2> QED BY <2>6
<1> HIDE DEF P
<1>3. n \in P
  BY <1>1, <1>2, Induction
<1> QED BY <1>3 DEF P, Folding

\* The values of that function for the first k, which are those of a recursion.
Final(n, V, start, next) == {g[n] : g \in Steps(n, V, start, next)}
Recurs(n, V, start, next, iter) ==
    /\ iter[{}] = start
    /\ \A s \in SUBSET (1..n) : s # {} /\ iter[s \ {Max(s)}] \in V =>
          iter[s] = next[<<iter[s \ {Max(s)}], Max(s)>>]
LEMMA Stepwise ==
  ASSUME NEW n, n \in Nat, NEW V, NEW start, start \in V, NEW next, next \in [V \X (1..n) -> V],
         NEW iter, Recurs(n, V, start, next, iter)
  PROVE  iter[1..n] \in Final(n, V, start, next)
<1> USE DEF Recurs
<1> DEFINE g == [k \in 0..n |-> iter[1..k]]
<1>1. g[0] = start
  <2>1. 1..0 = {} /\ 0 \in 0..n
    OBVIOUS
  <2> QED BY <2>1
<1>2. ASSUME NEW k \in 1..n, g[k - 1] \in V
      PROVE  g[k] = next[<<g[k - 1], k>>] /\ g[k] \in V
  <2>1. k \in Nat \ {0} /\ k \in 0..n /\ k - 1 \in 0..n
    OBVIOUS
  <2>2. g[k] = iter[1..k] /\ g[k - 1] = iter[1..k - 1]
    BY <2>1
  <2>3. Max(1..k) = k /\ (1..k) \ {k} = 1..k - 1
    BY <2>1, Greatest
  <2>4. k \in 1..k
    BY <2>1
  <2>5. 1..k \in SUBSET (1..n) /\ 1..k # {}
    BY <2>4
  <2> HIDE DEF g
  <2>6. iter[(1..k) \ {Max(1..k)}] = g[k - 1]
    BY <2>2, <2>3
  <2>7. iter[1..k] = next[<<g[k - 1], Max(1..k)>>]
    BY <1>2, <2>5, <2>6
  <2>8. next[<<g[k - 1], k>>] \in V
    BY <1>2
  <2> QED BY <2>2, <2>3, <2>7, <2>8
<1> HIDE DEF g
<1> DEFINE P == {k \in 0..n : g[k] \in V}
<1>3. 0 \in P
  BY <1>1
<1>4. \A k \in 1..n : k - 1 \in P => k \in P
  <2>1. \A k \in 1..n : k \in 0..n
    OBVIOUS
  <2> QED BY <1>2, <2>1
<1> HIDE DEF P
<1>5. \A k \in 0..n : k \in P
  BY <1>3, <1>4, Induction
<1>6. \A k \in 0..n : g[k] \in V
  BY <1>5 DEF P
<1>7. g \in [0..n -> V]
  BY <1>6 DEF g
<1>8. \A k \in 1..n : g[k] = next[<<g[k - 1], k>>]
  BY <1>2, <1>6
<1>9. g[n] = iter[1..n]
  BY DEF g
<1>10. g \in Steps(n, V, start, next)
  BY <1>1, <1>7, <1>8 DEF Steps
<1> QED BY <1>9, <1>10 DEF Final

\* A sequence without its i-th element.
LEMMA Removed ==
  ASSUME NEW X, NEW s \in Seq(X), NEW i \in 1..Len(s)
  PROVE  LET t == SubSeq(s, 1, i - 1) \o SubSeq(s, i + 1, Len(s))
         IN  t \in Seq(X) /\ Len(t) = Len(s) - 1
<1>1. /\ Len(s) \in Nat /\ i \in Nat /\ \A j \in 1..Len(s) : s[j] \in X
  BY LenProperties, ElementOfSeq
<1>2. (\A j \in 1..i - 1 : j \in 1..Len(s)) /\ (\A j \in i + 1..Len(s) : j \in 1..Len(s))
  BY <1>1
<1> DEFINE n == Len(s)
           a == i - 1
           b == i + 1
<1>3. n \in Int /\ a \in Int /\ b \in Int /\ 1 \in Int
  BY <1>1
<1>4. (\A j \in 1..a : s[j] \in X) /\ (\A j \in b..n : s[j] \in X)
  BY <1>1, <1>2
<1> HIDE DEF n, a, b
<1>5. /\ SubSeq(s, 1, a) \in Seq(X) /\ Len(SubSeq(s, 1, a)) = IF 1 <= a THEN a - 1 + 1 ELSE 0
  BY <1>3, <1>4, SubSeqProperties
<1>6. /\ SubSeq(s, b, n) \in Seq(X) /\ Len(SubSeq(s, b, n)) = IF b <= n THEN n - b + 1 ELSE 0
  BY <1>3, <1>4, SubSeqProperties
<1>7. Len(SubSeq(s, 1, a)) + Len(SubSeq(s, b, n)) = n - 1
  <2>1. (IF 1 <= a THEN a - 1 + 1 ELSE 0) = i - 1
    BY <1>1 DEF a
  <2>2. (IF b <= n THEN n - b + 1 ELSE 0) = n - i
    BY <1>1 DEF b, n
  <2>3. i - 1 + (n - i) = n - 1
    BY <1>1, <1>3
  <2> QED BY <1>5, <1>6, <2>1, <2>2, <2>3
<1>8. /\ SubSeq(s, 1, a) \o SubSeq(s, b, n) \in Seq(X)
      /\ Len(SubSeq(s, 1, a) \o SubSeq(s, b, n)) = n - 1
  BY <1>5, <1>6, <1>7, ConcatProperties
<1> QED BY <1>8 DEF n, a, b

\* A set of numbers that is not empty has a first one.
LEMMA FirstOf ==
  ASSUME NEW n, n \in Nat, NEW s, s \in SUBSET (1..n), s # {}
  PROVE  (CHOOSE i \in s : \A j \in s : i <= j) \in s
<1> DEFINE Has(m) == \A t \in SUBSET (1..m) : t # {} => \E i \in t : \A j \in t : i <= j
           P == {m \in 0..n : Has(m)}
<1>1. 0 \in P
  <2>1. \A t \in SUBSET (1..0) : t = {}
    OBVIOUS
  <2>2. Has(0)
    BY <2>1
  <2> HIDE DEF Has
  <2> QED BY <2>2
<1>2. ASSUME NEW m \in 1..n, m - 1 \in P PROVE m \in P
  <2> SUFFICES ASSUME NEW t \in SUBSET (1..m), t # {}
               PROVE  \E i \in t : \A j \in t : i <= j
    OBVIOUS
  <2>1. t \ {m} \in SUBSET (1..m - 1)
    OBVIOUS
  <2>2. CASE t \ {m} = {}
    <3>1. m \in t /\ \A j \in t : j = m
      BY <2>2
    <3>2. m <= m
      OBVIOUS
    <3> HIDE DEF Has
    <3> QED BY <3>1, <3>2
  <2>3. CASE t \ {m} # {}
    <3>1. PICK i \in t \ {m} : \A j \in t \ {m} : i <= j
      BY <1>2, <2>1, <2>3
    <3> QED BY <3>1
  <2> QED BY <2>2, <2>3
<1> HIDE DEF P
<1>3. n \in P
  BY <1>1, <1>2, Induction
<1> QED BY <1>3 DEF P

\* A set, put in some order, has each of its elements once.
LEMMA OrderOfKeys ==
  ASSUME NEW S, IsFiniteSet(S)
  PROVE  /\ Cardinality(S) \in Nat
         /\ SetToSeq(S) \in [1..Cardinality(S) -> S]
         /\ \A x \in S : \E i \in 1..Cardinality(S) : SetToSeq(S)[i] = x
         /\ \A i, j \in 1..Cardinality(S) : SetToSeq(S)[i] = SetToSeq(S)[j] => i = j
<1> DEFINE n == Cardinality(S)
<1>1. n \in Nat /\ ExistsBijection(1..n, S)
  BY FS_CardinalityType
<1>2. \E f \in [1..n -> S] : IsInjective(f)
  BY <1>1 DEF ExistsBijection, Bijection, Injection
<1>3. SetToSeq(S) \in [1..n -> S] /\ IsInjective(SetToSeq(S))
  BY <1>2 DEF SetToSeq
<1>4. SetToSeq(S) \in Injection(1..n, S)
  BY <1>3 DEF Injection
<1>5. IsFiniteSet(1..n) /\ Cardinality(1..n) = n
  BY <1>1, FS_Interval
<1>6. SetToSeq(S) \in Surjection(1..n, S)
  BY <1>4, <1>5, FS_Injection
<1> HIDE DEF n
<1>7. \A x \in S : \E i \in 1..n : SetToSeq(S)[i] = x
  BY <1>6 DEF Surjection
<1>8. \A i, j \in 1..n : SetToSeq(S)[i] = SetToSeq(S)[j] => i = j
  BY <1>3 DEF IsInjective
<1> QED BY <1>1, <1>3, <1>7, <1>8 DEF n

\* A prefix of a list in ascending order has as many elements as places.
LEMMA CountedPrefix ==
  ASSUME NEW s \in Seq(Nat), \A i, j \in 1..Len(s) : i < j => s[i] < s[j],
         NEW k, k \in 0..Len(s)
  PROVE  Cardinality({s[i] : i \in 1..k}) = k
<1> DEFINE T == {s[i] : i \in 1..k}
           f == [i \in 1..k |-> s[i]]
<1>1. Len(s) \in Nat /\ \A i \in 1..Len(s) : s[i] \in Nat
  BY LenProperties, ElementOfSeq
<1>2. k \in Nat /\ \A i \in 1..k : i \in 1..Len(s)
  BY <1>1
<1>3. \A i, j \in 1..k : i # j => s[i] # s[j]
  <2> TAKE i, j \in 1..k
  <2>1. i \in 1..Len(s) /\ j \in 1..Len(s) /\ s[i] \in Nat /\ s[j] \in Nat
    BY <1>1, <1>2
  <2>2. i # j => i < j \/ j < i
    BY <1>2
  <2>3. (i < j => s[i] < s[j]) /\ (j < i => s[j] < s[i])
    BY <2>1
  <2> QED BY <2>1, <2>2, <2>3
<1>4. f \in Bijection(1..k, T)
  <2>1. f \in [1..k -> T] /\ \A t \in T : \E i \in 1..k : f[i] = t
    OBVIOUS
  <2>2. \A i, j \in 1..k : f[i] = f[j] => i = j
    BY <1>3
  <2> QED BY <2>1, <2>2 DEF Bijection, Injection, Surjection, IsInjective
<1>5. ExistsBijection(1..k, T)
  BY <1>4 DEF ExistsBijection
<1> QED BY <1>2, <1>5, FS_CountingElements
=============================================================================
