-------------------------- MODULE SeqFunctions_proofs --------------------------
(***************************************************************************)
(* Lemmas about numbers and sequences that the proofs about BackupReuse and *)
(* RequestTrace rest on.  A fact about all naturals is stated as one about *)
(* the set of those that have it, so that induction needs no operator as a *)
(* parameter: there is a least natural outside that set, or none.  From it *)
(* follow the greatest element of a bounded set, induction over sequences, *)
(* and what the recursive Sum and Pick come to.                            *)
(***************************************************************************)
EXTENDS SeqFunctions, WellFoundedInduction, TLAPS

\* Every nonempty set of naturals has a least element.
LEMMA LeastNatural ==
  ASSUME NEW T, T \subseteq Nat, T # {}
  PROVE  \E n \in T : \A j \in T : n <= j
<1> DEFINE R == {ss \in Nat \X Nat : ss[1] < ss[2]}
<1>0. IsWellFoundedOn(R, Nat)
  BY NatLessThanWellFounded DEF OpToRel
<1> HIDE DEF R
<1>1. PICK x \in T : \A y \in T : ~ (<<y, x>> \in R)
  BY <1>0, WFMin, Zenon
<1>2. \A y \in T : ~(y < x)
  BY <1>1 DEF R
<1> QED
  BY <1>2

\* Induction: a set that holds 0 and with n also n + 1 holds all naturals.
LEMMA NatSet ==
  ASSUME NEW T, T \subseteq Nat, 0 \in T, \A n \in T : n + 1 \in T
  PROVE  T = Nat
<1> SUFFICES ASSUME Nat \ T # {} PROVE FALSE
  OBVIOUS
<1>1. PICK n \in Nat \ T : \A j \in Nat \ T : n <= j
  BY LeastNatural
<1>2. n # 0 /\ n - 1 \in T
  BY <1>1
<1> QED
  BY <1>1, <1>2

\* The same up to a bound.
LEMMA UpTo ==
  ASSUME NEW n \in Nat, NEW T, 0 \in T, \A i \in 0..n - 1 : i \in T => i + 1 \in T
  PROVE  0..n \subseteq T
<1> DEFINE S == {i \in Nat : i <= n => i \in T}
<1>1. S \subseteq Nat /\ 0 \in S /\ \A i \in S : i + 1 \in S
  OBVIOUS
<1> HIDE DEF S
<1>2. S = Nat
  BY <1>1, NatSet
<1> QED
  BY <1>2 DEF S

\* A bounded set of naturals has a greatest element.
LEMMA Greatest ==
  ASSUME NEW b \in Nat, NEW S, S \subseteq 0..b, S # {}
  PROVE  \E n \in S : \A j \in S : j <= n
<1> DEFINE T == {b - n : n \in S}
<1>0. \A n \in S : n \in Nat /\ b - n \in Nat
  OBVIOUS
<1>1. T \subseteq Nat /\ T # {}
  BY <1>0
<1> HIDE DEF T
<1>2. PICK x \in T : \A y \in T : x <= y
  BY <1>1, LeastNatural
<1>3. PICK n \in S : x = b - n
  BY <1>2 DEF T
<1>4. ASSUME NEW j \in S PROVE j <= n
  <2>1. b - j \in T
    BY DEF T
  <2>2. b - n <= b - j
    BY <1>2, <1>3, <2>1
  <2> QED
    BY <1>0, <1>3, <2>2
<1> QED
  BY <1>4

-----------------------------------------------------------------------------
(* The recursive Sum.                                                      *)

\* f adds up the first n numbers of s.
Sums(f, s, n) == f = [i \in 0..n |-> IF i = 0 THEN 0 ELSE f[i - 1] + s[i]]

\* A solution of the recursion has natural values.
LEMMA SumsValues ==
  ASSUME NEW s \in Seq(Nat), NEW n \in 0..Len(s), NEW f, Sums(f, s, n)
  PROVE  /\ f \in [0..n -> Nat] /\ f[0] = 0
         /\ \A i \in 1..n : f[i] = f[i - 1] + s[i]
<1>0. n \in Nat
  OBVIOUS
<1>1. \A i \in 0..n : f[i] = IF i = 0 THEN 0 ELSE f[i - 1] + s[i]
  BY DEF Sums
<1> DEFINE T == {i \in 0..n : f[i] \in Nat}
<1>2. 0 \in T
  BY <1>1
<1>3. ASSUME NEW i \in 0..n - 1, i \in T PROVE i + 1 \in T
  <2>1. f[i] \in Nat /\ i + 1 \in 1..n /\ s[i + 1] \in Nat
    BY <1>3
  <2>2. f[i + 1] = f[i] + s[i + 1]
    BY <1>1, <2>1
  <2> QED
    BY <2>1, <2>2
<1> HIDE DEF T
<1>4. 0..n \subseteq T
  BY <1>0, <1>2, <1>3, UpTo
<1>5. f = [i \in 0..n |-> f[i]]
  BY DEF Sums
<1>6. f \in [0..n -> Nat]
  BY <1>4, <1>5 DEF T
<1> QED
  BY <1>1, <1>6

\* The recursion has a solution.
LEMMA SumsExist ==
  ASSUME NEW s \in Seq(Nat), NEW n \in 0..Len(s)
  PROVE  \E f : Sums(f, s, n)
<1> DEFINE T == {m \in 0..n : \E f : Sums(f, s, m)}
<1>1. 0 \in T
  <2> DEFINE f == [i \in 0..0 |-> 0]
  <2>1. Sums(f, s, 0)
    BY DEF Sums
  <2> QED
    BY <2>1
<1>2. ASSUME NEW m \in 0..n - 1, m \in T PROVE m + 1 \in T
  <2>1. PICK f : Sums(f, s, m)
    BY <1>2
  <2> DEFINE g == [i \in 0..m + 1 |-> IF i = m + 1 THEN f[m] + s[m + 1] ELSE f[i]]
  <2>2. \A i \in 0..m : f[i] = IF i = 0 THEN 0 ELSE f[i - 1] + s[i]
    BY <2>1 DEF Sums
  <2>3. \A i \in 0..m + 1 : g[i] = IF i = 0 THEN 0 ELSE g[i - 1] + s[i]
    BY <2>2
  <2>4. Sums(g, s, m + 1)
    BY <2>3 DEF Sums
  <2> QED
    BY <2>4
<1>3. n \in Nat
  OBVIOUS
<1> HIDE DEF T
<1>4. 0..n \subseteq T
  BY <1>1, <1>2, <1>3, UpTo
<1> QED
  BY <1>3, <1>4 DEF T

\* f leads to the sum of s, number by number.
Adds(f, s) ==
  /\ f[0] = 0 /\ Sum(s) = f[Len(s)] /\ Sum(s) \in Nat
  /\ \A i \in 0..Len(s) - 1 :
       f[i] \in Nat /\ s[i + 1] \in Nat /\ f[i + 1] = f[i] + s[i + 1]

LEMMA SumSteps ==
  ASSUME NEW s \in Seq(Nat)
  PROVE  \E f : Adds(f, s)
<1> DEFINE h == CHOOSE f : Sums(f, s, Len(s))
<1>1. Sums(h, s, Len(s))
  <2>1. \E f : Sums(f, s, Len(s))
    BY SumsExist
  <2> QED
    BY <2>1
<1>2. Sum(s) = h[Len(s)]
  BY DEF Sum, Sums
<1> HIDE DEF h
<1>3. /\ h \in [0..Len(s) -> Nat] /\ h[0] = 0
      /\ \A i \in 1..Len(s) : h[i] = h[i - 1] + s[i]
  BY <1>1, SumsValues
<1>4. ASSUME NEW i \in 0..Len(s) - 1
      PROVE  h[i] \in Nat /\ s[i + 1] \in Nat /\ h[i + 1] = h[i] + s[i + 1]
  <2>1. i + 1 \in 1..Len(s) /\ (i + 1) - 1 = i
    OBVIOUS
  <2>2. h[i + 1] = h[(i + 1) - 1] + s[i + 1]
    BY <1>3, <2>1
  <2> QED
    BY <1>3, <2>1, <2>2
<1>5. h[Len(s)] \in Nat
  BY <1>3
<1>6. Adds(h, s)
  BY <1>2, <1>3, <1>4, <1>5 DEF Adds
<1> QED
  BY <1>6

LEMMA SumType ==
  ASSUME NEW s \in Seq(Nat)
  PROVE  Sum(s) \in Nat /\ (s = <<>> => Sum(s) = 0)
  BY SumSteps DEF Adds

\* How two sums compare whose sequences differ in one number at most: entry at
\* grew by d.
LEMMA SumChange ==
  ASSUME NEW s \in Seq(Nat), NEW t \in Seq(Nat), Len(s) = Len(t),
         NEW at \in 1..Len(s), NEW d \in Nat, t[at] = s[at] + d,
         \A i \in 1..Len(s) : i # at => t[i] = s[i]
  PROVE  Sum(t) = Sum(s) + d
<1>1. PICK f : Adds(f, s)
  BY SumSteps
<1>2. PICK g : Adds(g, t)
  BY SumSteps
<1> DEFINE T == {i \in 0..Len(s) : g[i] = IF i < at THEN f[i] ELSE f[i] + d}
<1>3. 0 \in T
  BY <1>1, <1>2 DEF Adds
<1>4. ASSUME NEW i \in 0..Len(s) - 1, i \in T PROVE i + 1 \in T
  <2>1. /\ f[i + 1] = f[i] + s[i + 1] /\ g[i + 1] = g[i] + t[i + 1]
        /\ f[i] \in Nat /\ s[i + 1] \in Nat /\ t[i + 1] \in Nat
    BY <1>1, <1>2 DEF Adds
  <2>2. g[i] = IF i < at THEN f[i] ELSE f[i] + d
    BY <1>4
  <2>3. i + 1 \in 1..Len(s) /\ i \in Nat /\ at \in Nat
    OBVIOUS
  <2>4. t[i + 1] = IF i + 1 = at THEN s[i + 1] + d ELSE s[i + 1]
    BY <2>3
  <2>5. g[i + 1] = IF i + 1 < at THEN f[i + 1] ELSE f[i + 1] + d
    <3>1. CASE i + 1 < at
      BY <2>1, <2>2, <2>4, <3>1
    <3>2. CASE i + 1 = at
      <4>1. i < at /\ ~(i + 1 < at)
        BY <2>3, <3>2
      <4>2. g[i] = f[i] /\ t[i + 1] = s[i + 1] + d
        BY <2>2, <2>4, <3>2, <4>1
      <4>3. g[i + 1] = f[i] + (s[i + 1] + d)
        BY <2>1, <4>2, Zenon
      <4>4. f[i] + (s[i + 1] + d) = (f[i] + s[i + 1]) + d
        <5>1. \A x, y, z \in Nat : x + (y + z) = (x + y) + z
          OBVIOUS
        <5> QED
          BY <2>1, <5>1, Zenon
      <4>5. g[i + 1] = f[i + 1] + d
        BY <2>1, <4>3, <4>4, Zenon
      <4> QED
        BY <4>1, <4>5
    <3>3. CASE i + 1 > at
      BY SMTT(30), <2>1, <2>2, <2>4, <3>3
    <3> QED
      BY <3>1, <3>2, <3>3
  <2> QED
    BY <2>3, <2>5
<1>5. Len(s) \in Nat
  OBVIOUS
<1> HIDE DEF T
<1>6. 0..Len(s) \subseteq T
  BY <1>3, <1>4, <1>5, UpTo
<1>7. Len(s) \in T /\ ~(Len(s) < at)
  BY <1>5, <1>6
<1> QED
  BY <1>1, <1>2, <1>7 DEF Adds, T

\* Greater numbers have a greater sum.
LEMMA SumMonotone ==
  ASSUME NEW s \in Seq(Nat), NEW t \in Seq(Nat), Len(s) = Len(t),
         \A i \in 1..Len(s) : s[i] <= t[i]
  PROVE  Sum(s) <= Sum(t)
<1>1. PICK f : Adds(f, s)
  BY SumSteps
<1>2. PICK g : Adds(g, t)
  BY SumSteps
<1> DEFINE T == {i \in 0..Len(s) : f[i] <= g[i]}
<1>3. 0 \in T
  BY <1>1, <1>2 DEF Adds
<1>4. ASSUME NEW i \in 0..Len(s) - 1, i \in T PROVE i + 1 \in T
  <2>1. /\ f[i + 1] = f[i] + s[i + 1] /\ g[i + 1] = g[i] + t[i + 1]
        /\ f[i] \in Nat /\ s[i + 1] \in Nat /\ g[i] \in Nat /\ t[i + 1] \in Nat
    BY <1>1, <1>2 DEF Adds
  <2>2. i + 1 \in 1..Len(s) /\ f[i] <= g[i]
    BY <1>4
  <2>3. s[i + 1] <= t[i + 1]
    BY <2>2
  <2>4. f[i + 1] <= g[i + 1]
    BY <2>1, <2>2, <2>3
  <2> QED
    BY <2>2, <2>4
<1>5. Len(s) \in Nat
  OBVIOUS
<1> HIDE DEF T
<1>6. 0..Len(s) \subseteq T
  BY <1>3, <1>4, <1>5, UpTo
<1>7. Len(s) \in T
  BY <1>5, <1>6
<1> QED
  BY <1>1, <1>2, <1>7 DEF Adds, T

\* One number more.
LEMMA SumLonger ==
  ASSUME NEW s \in Seq(Nat), NEW t \in Seq(Nat), Len(t) = Len(s) + 1,
         \A i \in 1..Len(s) : t[i] = s[i]
  PROVE  Sum(t) = Sum(s) + t[Len(s) + 1]
<1>0. /\ Len(s) \in Nat /\ Len(t) = Len(s) + 1
      /\ \A i \in 0..Len(s) - 1 : t[i + 1] = s[i + 1]
  <2>1. \A n \in Nat : \A i \in 0..n - 1 : i + 1 \in 1..n
    OBVIOUS
  <2>2. Len(s) \in Nat
    OBVIOUS
  <2> QED
    BY <2>1, <2>2
<1>1. PICK f : Adds(f, s)
  BY SumSteps
<1>2. PICK g : Adds(g, t)
  BY <1>0, SumSteps
<1> DEFINE T == {i \in 0..Len(s) : f[i] = g[i]}
<1>3. 0 \in T
  BY <1>0, <1>1, <1>2 DEF Adds
<1>4. ASSUME NEW i \in 0..Len(s) - 1, i \in T PROVE i + 1 \in T
  <2>1. i + 1 \in 0..Len(s) /\ i \in 0..Len(t) - 1 /\ f[i] = g[i]
    BY <1>0, <1>4
  <2>2. f[i + 1] = f[i] + s[i + 1] /\ g[i + 1] = g[i] + t[i + 1]
    BY <1>1, <1>2, <2>1 DEF Adds
  <2> QED
    BY <1>0, <2>1, <2>2
<1> HIDE DEF T
<1>5. 0..Len(s) \subseteq T
  BY <1>0, <1>3, <1>4, UpTo
<1>6. Len(s) \in T /\ Len(s) \in 0..Len(t) - 1
  BY <1>0, <1>5
<1>7. g[Len(s) + 1] = g[Len(s)] + t[Len(s) + 1]
  BY <1>0, <1>2, <1>6 DEF Adds
<1> QED
  BY <1>0, <1>1, <1>2, <1>6, <1>7 DEF Adds, T

\* Nothing adds up to nothing.
LEMMA SumZero ==
  ASSUME NEW s \in Seq(Nat), \A i \in 1..Len(s) : s[i] = 0
  PROVE  Sum(s) = 0
<1>1. PICK f : Adds(f, s)
  BY SumSteps
<1> DEFINE T == {i \in 0..Len(s) : f[i] = 0}
<1>2. 0 \in T
  BY <1>1 DEF Adds
<1>3. ASSUME NEW i \in 0..Len(s) - 1, i \in T PROVE i + 1 \in T
  <2>1. i + 1 \in 1..Len(s) /\ f[i] = 0
    BY <1>3
  <2>2. s[i + 1] = 0
    BY <2>1
  <2>3. f[i + 1] = f[i] + s[i + 1]
    BY <1>1 DEF Adds
  <2>4. f[i + 1] = 0
    BY <2>1, <2>2, <2>3
  <2> QED
    BY <2>1, <2>4
<1>4. Len(s) \in Nat
  OBVIOUS
<1> HIDE DEF T
<1>5. 0..Len(s) \subseteq T
  BY <1>2, <1>3, <1>4, UpTo
<1> QED
  BY <1>1, <1>4, <1>5 DEF Adds, T

\* No number is greater than the sum.
LEMMA SumBounds ==
  ASSUME NEW s \in Seq(Nat), NEW at \in 1..Len(s)
  PROVE  s[at] <= Sum(s)
<1> DEFINE t == [s EXCEPT ![at] = 0]
<1>1. t \in Seq(Nat) /\ Len(t) = Len(s) /\ t[at] = 0 /\ \A i \in 1..Len(s) : i # at => t[i] = s[i]
  OBVIOUS
<1> HIDE DEF t
<1>2. s[at] \in Nat /\ s[at] = t[at] + s[at]
  BY <1>1
<1>3. Sum(s) = Sum(t) + s[at]
  BY <1>1, <1>2, SumChange
<1>4. Sum(t) \in Nat
  BY <1>1, SumType
<1> QED
  BY <1>2, <1>3, <1>4

-----------------------------------------------------------------------------
(* Induction over sequences.                                               *)

LEMMA AppendFacts ==
  ASSUME NEW S, NEW s \in Seq(S), NEW x \in S
  PROVE  /\ Append(s, x) \in Seq(S) /\ Len(Append(s, x)) = Len(s) + 1
         /\ \A i \in 1..Len(s) : Append(s, x)[i] = s[i]
         /\ Append(s, x)[Len(s) + 1] = x
  OBVIOUS

\* A sequence but its last element.
LEMMA FrontOf ==
  ASSUME NEW S, NEW s \in Seq(S), NEW n \in Nat, Len(s) = n + 1
  PROVE  \E t \in Seq(S), x \in S : /\ s = Append(t, x) /\ Len(t) = n /\ x = s[n + 1]
                                    /\ t = [i \in 1..n |-> s[i]]
<1> DEFINE t == [i \in 1..n |-> s[i]]
           x == s[n + 1]
<1>1. \A i \in 1..n + 1 : s[i] \in S
  OBVIOUS
<1>2. t \in Seq(S) /\ Len(t) = n /\ x \in S /\ \A i \in 1..n : t[i] = s[i]
  BY <1>1
<1> HIDE DEF t
<1>3. /\ Append(t, x) \in Seq(S) /\ Len(Append(t, x)) = n + 1
      /\ \A i \in 1..n : Append(t, x)[i] = t[i]
      /\ Append(t, x)[n + 1] = x
  BY <1>2, AppendFacts
<1>4. \A i \in 1..n + 1 : Append(t, x)[i] = s[i]
  BY <1>2, <1>3
<1>5. s = Append(t, x)
  BY <1>3, <1>4
<1> QED
  BY <1>2, <1>5 DEF t

\* A set that holds the empty sequence, and with a sequence every one that is longer
\* by an element, holds all sequences.
LEMMA SeqInduction ==
  ASSUME NEW S, NEW T, <<>> \in T,
         \A s \in Seq(S), x \in S : s \in T => Append(s, x) \in T
  PROVE  Seq(S) \subseteq T
<1> DEFINE N == {n \in Nat : \A s \in Seq(S) : Len(s) = n => s \in T}
<1>1. N \subseteq Nat /\ 0 \in N
  OBVIOUS
<1>2. ASSUME NEW n \in N PROVE n + 1 \in N
  <2>1. ASSUME NEW s \in Seq(S), Len(s) = n + 1 PROVE s \in T
    <3>1. n \in Nat /\ \A t \in Seq(S) : Len(t) = n => t \in T
      BY <1>2
    <3> HIDE DEF N
    <3>2. PICK t \in Seq(S), x \in S : s = Append(t, x) /\ Len(t) = n
      BY <2>1, <3>1, FrontOf
    <3>3. t \in T
      BY <3>1, <3>2
    <3> QED
      BY <3>2, <3>3
  <2> QED
    BY <2>1
<1> HIDE DEF N
<1>3. N = Nat
  BY <1>1, <1>2, NatSet
<1>4. \A s \in Seq(S) : Len(s) \in Nat
  OBVIOUS
<1> QED
  BY <1>3, <1>4 DEF N

\* A sequence that is not empty is another one and its last element.
LEMMA NotEmpty ==
  ASSUME NEW S, NEW s \in Seq(S), s # <<>>
  PROVE  \E t \in Seq(S), x \in S : s = Append(t, x)
<1> DEFINE N == Nat
<1>1. Len(s) \in Nat /\ Len(s) # 0
  OBVIOUS
<1>2. \E n \in N : Len(s) = n + 1
  <2>1. Len(s) - 1 \in Nat /\ Len(s) = (Len(s) - 1) + 1
    BY <1>1
  <2> QED
    BY <2>1
<1>3. \A n \in N : n \in Nat
  OBVIOUS
<1> HIDE DEF N
<1>4. PICK n \in N : Len(s) = n + 1
  BY <1>2
<1>5. n \in Nat
  BY <1>3
<1> QED
  BY <1>4, <1>5, FrontOf

LEMMA ConcatEmpty ==
  ASSUME NEW S, NEW s \in Seq(S) PROVE s \o <<>> = s /\ <<>> \o s = s
  OBVIOUS

\* An element is appended to the second of two sequences.
LEMMA ConcatAppend ==
  ASSUME NEW S, NEW s \in Seq(S), NEW t \in Seq(S), NEW x \in S
  PROVE  s \o Append(t, x) = Append(s \o t, x)
<1>1. ASSUME NEW u \in Seq(S), NEW v \in Seq(S)
      PROVE  /\ u \o v \in Seq(S) /\ Len(u \o v) = Len(u) + Len(v)
             /\ \A i \in 1..(Len(u) + Len(v)) :
                  (u \o v)[i] = IF i <= Len(u) THEN u[i] ELSE v[i - Len(u)]
  OBVIOUS
<1> DEFINE a == s \o Append(t, x)
           b == Append(s \o t, x)
<1>2. /\ a \in Seq(S) /\ Len(a) = Len(s) + (Len(t) + 1)
      /\ \A i \in 1..(Len(s) + (Len(t) + 1)) :
           a[i] = IF i <= Len(s) THEN s[i] ELSE Append(t, x)[i - Len(s)]
  BY <1>1, AppendFacts
<1>3. /\ b \in Seq(S) /\ Len(b) = Len(s) + Len(t) + 1
      /\ \A i \in 1..(Len(s) + Len(t)) : b[i] = (s \o t)[i]
      /\ b[Len(s) + Len(t) + 1] = x
  BY <1>1, AppendFacts
<1>4. Len(s) \in Nat /\ Len(t) \in Nat
  OBVIOUS
<1> HIDE DEF a, b
<1>5. ASSUME NEW i \in 1..(Len(s) + Len(t) + 1) PROVE a[i] = b[i]
  <2>1. CASE i = Len(s) + Len(t) + 1
    <3>1. i - Len(s) = Len(t) + 1 /\ ~(i <= Len(s)) /\ i \in 1..(Len(s) + (Len(t) + 1))
      BY <1>4, <2>1
    <3>2. a[i] = Append(t, x)[Len(t) + 1]
      BY <1>2, <3>1
    <3> QED
      BY <1>3, <2>1, <3>2, AppendFacts
  <2>2. CASE i <= Len(s)
    <3>1. i \in 1..(Len(s) + (Len(t) + 1)) /\ i \in 1..(Len(s) + Len(t))
      BY <1>4, <2>2
    <3> QED
      BY <1>1, <1>2, <1>3, <2>2, <3>1
  <2>3. CASE i > Len(s) /\ i <= Len(s) + Len(t)
    <3>1. /\ i - Len(s) \in 1..Len(t) /\ ~(i <= Len(s))
          /\ i \in 1..(Len(s) + (Len(t) + 1)) /\ i \in 1..(Len(s) + Len(t))
      BY <1>4, <2>3
    <3>2. a[i] = Append(t, x)[i - Len(s)] /\ b[i] = t[i - Len(s)]
      BY <1>1, <1>2, <1>3, <3>1
    <3> QED
      BY <3>1, <3>2, AppendFacts
  <2> QED
    BY <1>4, <2>1, <2>2, <2>3
<1>6. Len(a) = Len(s) + Len(t) + 1
  BY <1>2, <1>4
<1>7. a = b
  BY <1>2, <1>3, <1>5, <1>6
<1> QED
  BY <1>7 DEF a, b

-----------------------------------------------------------------------------
(* The recursive Pick.                                                     *)

\* f picks the positions in at from the first n elements of s.
Picks(f, s, at, n) ==
  f = [i \in 0..n |-> IF i = 0 THEN <<>> ELSE IF i \in at THEN Append(f[i - 1], s[i]) ELSE f[i - 1]]

LEMMA PicksExist ==
  ASSUME NEW s, NEW at, NEW n \in Nat
  PROVE  \E f : Picks(f, s, at, n)
<1> DEFINE T == {m \in 0..n : \E f : Picks(f, s, at, m)}
<1>1. 0 \in T
  <2> DEFINE f == [i \in 0..0 |-> <<>>]
  <2>1. Picks(f, s, at, 0)
    BY DEF Picks
  <2> QED
    BY <2>1
<1>2. ASSUME NEW m \in 0..n - 1, m \in T PROVE m + 1 \in T
  <2>1. PICK f : Picks(f, s, at, m)
    BY <1>2
  <2> DEFINE next == IF m + 1 \in at THEN Append(f[m], s[m + 1]) ELSE f[m]
             g == [i \in 0..m + 1 |-> IF i = m + 1 THEN next ELSE f[i]]
  <2>2. \A i \in 0..m : f[i] = IF i = 0 THEN <<>>
                               ELSE IF i \in at THEN Append(f[i - 1], s[i]) ELSE f[i - 1]
    BY <2>1 DEF Picks
  <2>3. \A i \in 0..m + 1 : g[i] = IF i = 0 THEN <<>>
                                   ELSE IF i \in at THEN Append(g[i - 1], s[i]) ELSE g[i - 1]
    BY <2>2
  <2>4. Picks(g, s, at, m + 1)
    BY <2>3 DEF Picks
  <2> QED
    BY <2>4
<1> HIDE DEF T
<1>3. 0..n \subseteq T
  BY <1>1, <1>2, UpTo
<1> QED
  BY <1>3 DEF T

\* What is picked depends on what is there up to it and nothing else.
LEMMA PicksAgree ==
  ASSUME NEW s, NEW t, NEW at, NEW bt, NEW n \in Nat, NEW m \in Nat, n <= m,
         NEW f, NEW g, Picks(f, s, at, n), Picks(g, t, bt, m),
         \A i \in 1..n : s[i] = t[i] /\ (i \in at <=> i \in bt)
  PROVE  f[n] = g[n]
<1> DEFINE T == {i \in 0..n : f[i] = g[i]}
<1>1. \A i \in 0..n : f[i] = IF i = 0 THEN <<>>
                             ELSE IF i \in at THEN Append(f[i - 1], s[i]) ELSE f[i - 1]
  BY DEF Picks
<1>2. \A i \in 0..m : g[i] = IF i = 0 THEN <<>>
                             ELSE IF i \in bt THEN Append(g[i - 1], t[i]) ELSE g[i - 1]
  BY DEF Picks
<1>3. 0 \in T
  BY <1>1, <1>2
<1>4. ASSUME NEW i \in 0..n - 1, i \in T PROVE i + 1 \in T
  <2>1. i + 1 \in 0..n /\ i + 1 \in 0..m /\ i + 1 \in 1..n /\ i + 1 # 0 /\ (i + 1) - 1 = i
    OBVIOUS
  <2>2. f[i] = g[i]
    BY <1>4
  <2>3. f[i + 1] = IF i + 1 \in at THEN Append(f[i], s[i + 1]) ELSE f[i]
    BY <1>1, <2>1
  <2>4. g[i + 1] = IF i + 1 \in bt THEN Append(g[i], t[i + 1]) ELSE g[i]
    BY <1>2, <2>1
  <2>5. s[i + 1] = t[i + 1] /\ (i + 1 \in at <=> i + 1 \in bt)
    BY <2>1
  <2>6. f[i + 1] = g[i + 1]
    BY <2>2, <2>3, <2>4, <2>5
  <2> QED
    BY <2>1, <2>6
<1> HIDE DEF T
<1>5. 0..n \subseteq T
  BY <1>3, <1>4, UpTo
<1> QED
  BY <1>5 DEF T

LEMMA PickIs ==
  ASSUME NEW s, NEW at, Len(s) \in Nat
  PROVE  \E f : Picks(f, s, at, Len(s)) /\ Pick(s, at) = f[Len(s)]
<1> DEFINE h == CHOOSE f : Picks(f, s, at, Len(s))
<1>1. Picks(h, s, at, Len(s))
  <2>1. \E f : Picks(f, s, at, Len(s))
    BY PicksExist
  <2> QED
    BY <2>1
<1>2. Pick(s, at) = h[Len(s)]
  BY DEF Pick, Picks
<1> QED
  BY <1>1, <1>2

LEMMA PickEmpty ==
  ASSUME NEW at
  PROVE  Pick(<<>>, at) = <<>>
<1>1. Len(<<>>) = 0
  OBVIOUS
<1>2. PICK f : Picks(f, <<>>, at, 0) /\ Pick(<<>>, at) = f[0]
  BY <1>1, PickIs
<1> QED
  BY <1>2 DEF Picks

LEMMA PickSame ==
  ASSUME NEW S, NEW s \in Seq(S), NEW at, NEW bt, \A i \in 1..Len(s) : i \in at <=> i \in bt
  PROVE  Pick(s, at) = Pick(s, bt)
<1>1. Len(s) \in Nat
  OBVIOUS
<1>2. PICK f : Picks(f, s, at, Len(s)) /\ Pick(s, at) = f[Len(s)]
  BY <1>1, PickIs
<1>3. PICK g : Picks(g, s, bt, Len(s)) /\ Pick(s, bt) = g[Len(s)]
  BY <1>1, PickIs
<1>4. f[Len(s)] = g[Len(s)]
  BY <1>1, <1>2, <1>3, PicksAgree
<1> QED
  BY <1>2, <1>3, <1>4

LEMMA PickAppend ==
  ASSUME NEW S, NEW s \in Seq(S), NEW x \in S, NEW at
  PROVE  Pick(Append(s, x), at)
           = IF Len(s) + 1 \in at THEN Append(Pick(s, at), x) ELSE Pick(s, at)
<1> DEFINE t == Append(s, x)
           n == Len(s)
<1>1. n \in Nat /\ Len(t) = n + 1 /\ t[n + 1] = x /\ \A i \in 1..n : s[i] = t[i]
  BY AppendFacts
<1> HIDE DEF t, n
<1>2. PICK f : Picks(f, s, at, n) /\ Pick(s, at) = f[n]
  BY <1>1, PickIs DEF n
<1>3. PICK g : Picks(g, t, at, n + 1) /\ Pick(t, at) = g[n + 1]
  BY <1>1, PickIs
<1>4. f[n] = g[n]
  BY <1>1, <1>2, <1>3, PicksAgree
<1>5. g[n + 1] = IF n + 1 \in at THEN Append(g[n], t[n + 1]) ELSE g[n]
  <2>1. n + 1 \in 0..n + 1 /\ n + 1 # 0 /\ (n + 1) - 1 = n
    BY <1>1
  <2>2. \A i \in 0..n + 1 : g[i] = IF i = 0 THEN <<>>
                                   ELSE IF i \in at THEN Append(g[i - 1], t[i]) ELSE g[i - 1]
    BY <1>3 DEF Picks
  <2> QED
    BY <2>1, <2>2
<1>6. Pick(t, at) = IF n + 1 \in at THEN Append(Pick(s, at), x) ELSE Pick(s, at)
  BY <1>1, <1>2, <1>3, <1>4, <1>5
<1> QED
  BY <1>6 DEF t, n

\* What is picked is of what is at the positions.
LEMMA PickType ==
  ASSUME NEW S, NEW s \in Seq(S), NEW at, NEW V, \A i \in 1..Len(s) : i \in at => s[i] \in V
  PROVE  Pick(s, at) \in Seq(V)
<1> DEFINE T == {t \in Seq(S) : (\A i \in 1..Len(t) : i \in at => t[i] \in V)
                                   => Pick(t, at) \in Seq(V)}
<1>1. <<>> \in T
  <2>1. <<>> \in Seq(S) /\ <<>> \in Seq(V) /\ Pick(<<>>, at) = <<>>
    BY PickEmpty
  <2> QED
    BY <2>1
<1>2. ASSUME NEW t \in Seq(S), NEW x \in S, t \in T PROVE Append(t, x) \in T
  <2>1. SUFFICES ASSUME \A i \in 1..Len(Append(t, x)) : i \in at => Append(t, x)[i] \in V
                 PROVE  Pick(Append(t, x), at) \in Seq(V)
    BY AppendFacts
  <2>2. /\ Append(t, x) \in Seq(S) /\ Len(Append(t, x)) = Len(t) + 1 /\ Len(t) \in Nat
        /\ \A i \in 1..Len(t) : Append(t, x)[i] = t[i]
        /\ Append(t, x)[Len(t) + 1] = x
    BY AppendFacts
  <2>3. \A i \in 1..Len(t) : i \in 1..Len(t) + 1
    BY <2>2
  <2>4. Pick(t, at) \in Seq(V)
    BY <1>2, <2>1, <2>2, <2>3
  <2>5. Len(t) + 1 \in at => x \in V
    BY <2>1, <2>2
  <2>6. Pick(Append(t, x), at) = IF Len(t) + 1 \in at THEN Append(Pick(t, at), x) ELSE Pick(t, at)
    BY PickAppend
  <2> QED
    BY <2>4, <2>5, <2>6
<1> HIDE DEF T
<1>3. s \in T
  BY <1>1, <1>2, SeqInduction
<1> QED
  BY <1>3 DEF T

\* The position after all others adds its element.
LEMMA PickLast ==
  ASSUME NEW S, NEW s \in Seq(S), NEW at \in SUBSET Nat, NEW d \in 1..Len(s), \A i \in at : i < d
  PROVE  Pick(s, at \cup {d}) = Append(Pick(s, at), s[d])
<1> DEFINE T == {t \in Seq(S) : d \in 1..Len(t) =>
                   Pick(t, at \cup {d}) = Append(Pick(t, at), t[d])}
<1>1. <<>> \in T
  <2>1. <<>> \in Seq(S) /\ Len(<<>>) = 0 /\ d \notin 1..0
    OBVIOUS
  <2> QED
    BY <2>1
<1>2. ASSUME NEW t \in Seq(S), NEW x \in S, t \in T PROVE Append(t, x) \in T
  <2>1. SUFFICES ASSUME d \in 1..Len(Append(t, x))
                 PROVE  Pick(Append(t, x), at \cup {d})
                          = Append(Pick(Append(t, x), at), Append(t, x)[d])
    BY AppendFacts
  <2>2. /\ Len(Append(t, x)) = Len(t) + 1 /\ Len(t) \in Nat
        /\ \A i \in 1..Len(t) : Append(t, x)[i] = t[i]
        /\ Append(t, x)[Len(t) + 1] = x
    BY AppendFacts
  <2>3. Pick(Append(t, x), at) = IF Len(t) + 1 \in at THEN Append(Pick(t, at), x) ELSE Pick(t, at)
    BY PickAppend
  <2>4. Pick(Append(t, x), at \cup {d})
          = IF Len(t) + 1 \in at \cup {d} THEN Append(Pick(t, at \cup {d}), x)
            ELSE Pick(t, at \cup {d})
    BY PickAppend
  <2>5. d \in Nat /\ d <= Len(t) + 1 /\ Len(t) + 1 \notin at
    <3>1. d \in Nat /\ d <= Len(t) + 1
      BY <2>1, <2>2
    <3> QED
      BY <2>2, <3>1
  <2>6. CASE d = Len(t) + 1
    <3>1. \A i \in 1..Len(t) : i \in at <=> i \in at \cup {d}
      BY <2>2, <2>6
    <3>2. Pick(t, at) = Pick(t, at \cup {d})
      BY <3>1, PickSame
    <3> QED
      BY <2>2, <2>3, <2>4, <2>5, <2>6, <3>2
  <2>7. CASE d # Len(t) + 1
    <3>1. d \in 1..Len(t) /\ Len(t) + 1 \notin at \cup {d}
      BY <2>1, <2>2, <2>5, <2>7
    <3>2. Pick(t, at \cup {d}) = Append(Pick(t, at), t[d])
      BY <1>2, <3>1
    <3> QED
      BY <2>2, <2>3, <2>4, <2>5, <3>1, <3>2
  <2> QED
    BY <2>6, <2>7
<1> HIDE DEF T
<1>3. s \in T
  BY <1>1, <1>2, SeqInduction
<1> QED
  BY <1>3 DEF T

=============================================================================
