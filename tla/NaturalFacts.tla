------------------------------ MODULE NaturalFacts ------------------------------
(* Facts that the proofs share: the least and the greatest element of a set of  *)
(* naturals, induction stated about the set of the numbers that have the        *)
(* property, sequences of anything, the elements chosen from a sequence and the *)
(* sum of its numbers.                                                          *)
EXTENDS Integers, Selection, WellFoundedInduction, SequenceTheorems, TLAPS

\* Every non-empty set of naturals has a least element.
LEMMA LeastNumber ==
    ASSUME NEW T \in SUBSET Nat, T # {}
    PROVE  \E n \in T : \A m \in T : n <= m
<1> DEFINE R == {ss \in Nat \X Nat : ss[1] < ss[2]}
<1>1. IsWellFoundedOn(R, Nat)
  BY NatLessThanWellFounded, Zenon DEF OpToRel
<1> HIDE DEF R
<1>2. PICK n \in T : \A m \in T : ~ (<<m, n>> \in R)
  BY <1>1, WFMin, Zenon
<1>3. \A m \in Nat : m < n => <<m, n>> \in R
  BY DEF R
<1>4. \A m \in T : ~(m < n)
  BY <1>2, <1>3
<1> QED BY <1>4

\* Every non-empty bounded set of naturals has a greatest element.
LEMMA GreatestNumber ==
    ASSUME NEW b \in Nat, NEW T \in SUBSET (0 .. b), T # {}
    PROVE  \E n \in T : \A m \in T : n >= m
<1> DEFINE D == {b - n : n \in T}
<1>0. \A n \in T : b - n \in Nat
  OBVIOUS
<1>1. D \in SUBSET Nat /\ D # {}
  BY <1>0
<1>2. PICK d \in D : \A m \in D : d <= m
  BY <1>1, LeastNumber
<1>3. PICK n \in T : d = b - n
  BY <1>2
<1>4. \A m \in T : b - m \in D
  OBVIOUS
<1>5. \A m \in T : b - n <= b - m
  BY <1>2, <1>3, <1>4
<1> QED BY <1>5

\* Induction: a set of naturals with 0 and every successor has them all.
LEMMA Induct ==
    ASSUME NEW S \in SUBSET Nat, 0 \in S, \A n \in S : n + 1 \in S
    PROVE  S = Nat
<1> SUFFICES ASSUME Nat \ S # {} PROVE FALSE
  OBVIOUS
<1>1. PICK n \in Nat \ S : \A m \in Nat \ S : n <= m
  BY LeastNumber
<1>2. n # 0 /\ n - 1 \in Nat
  BY <1>1
<1>3. n - 1 \in S
  BY <1>1, <1>2
<1> QED BY <1>1, <1>3

--------------------------------------------------------------------------------
(* Sequences of anything, and the elements chosen from one (Selection).          *)

\* A sequence, of whatever it holds.
IsSeq(seq) == Len(seq) \in Nat /\ seq = [i \in 1 .. Len(seq) |-> seq[i]]

\* A sequence is one of its own elements.
LEMMA SeqOfElements ==
  ASSUME NEW seq, IsSeq(seq)
  PROVE  seq \in Seq({seq[i] : i \in 1 .. Len(seq)}) /\ DOMAIN seq = 1 .. Len(seq)
<1> DEFINE R == {seq[i] : i \in 1 .. Len(seq)}
<1>1. \A i \in 1 .. Len(seq) : seq[i] \in R
  OBVIOUS
<1> HIDE DEF R
<1>2. seq \in [1 .. Len(seq) -> R]
  BY <1>1 DEF IsSeq
<1> QED BY <1>2 DEF IsSeq, R

\* Sequences over any set.
LEMMA SeqIsSeq ==
  ASSUME NEW S, NEW seq \in Seq(S)
  PROVE  IsSeq(seq)
BY DEF IsSeq

\* One more element.
LEMMA AppendIsSeq ==
  ASSUME NEW seq, IsSeq(seq), NEW x
  PROVE  /\ IsSeq(Append(seq, x)) /\ Len(Append(seq, x)) = Len(seq) + 1
         /\ Append(seq, x)[Len(seq) + 1] = x
         /\ \A i \in 1 .. Len(seq) : Append(seq, x)[i] = seq[i]
<1> DEFINE R == {seq[i] : i \in 1 .. Len(seq)}
           S == R \cup {x}
<1>1. seq \in Seq(R) /\ Len(seq) \in Nat
  BY SeqOfElements DEF IsSeq
<1> HIDE DEF R
<1>2. seq \in Seq(S) /\ x \in S
  BY <1>1
<1> HIDE DEF S
<1>3. Append(seq, x) \in Seq(S)
  BY <1>2
<1>4. IsSeq(Append(seq, x))
  BY <1>3, SeqIsSeq
<1> QED BY <1>1, <1>2, <1>4

\* No element.
LEMMA EmptyIsSeq == IsSeq(<<>>) /\ Len(<<>>) = 0
<1>1. <<>> \in Seq({}) /\ Len(<<>>) = 0
  OBVIOUS
<1> QED BY <1>1, SeqIsSeq

\* A function on the first numbers.
LEMMA FunctionIsSeq ==
  ASSUME NEW n \in Nat, NEW f, f = [i \in 1 .. n |-> f[i]]
  PROVE  IsSeq(f) /\ Len(f) = n
<1> DEFINE R == {f[i] : i \in 1 .. n}
<1>1. \A i \in 1 .. n : f[i] \in R
  OBVIOUS
<1> HIDE DEF R
<1>2. f \in [1 .. n -> R]
  BY <1>1
<1>3. f \in Seq(R) /\ Len(f) = n
  BY <1>2
<1> QED BY <1>3, SeqIsSeq

\* c is a and then b.
Joined(c, a, b) ==
  /\ IsSeq(c) /\ Len(c) = Len(a) + Len(b)
  /\ \A i \in 1 .. Len(a) : c[i] = a[i]
  /\ \A i \in 1 .. Len(b) : c[Len(a) + i] = b[i]

\* One sequence after another.
LEMMA ConcatIsSeq ==
  ASSUME NEW a, IsSeq(a), NEW b, IsSeq(b)
  PROVE  Joined(a \o b, a, b)
<1> DEFINE A == {a[i] : i \in 1 .. Len(a)}
           B == {b[i] : i \in 1 .. Len(b)}
           S == A \cup B
<1>1. a \in Seq(A) /\ b \in Seq(B) /\ Len(a) \in Nat /\ Len(b) \in Nat
  BY SeqOfElements DEF IsSeq
<1> HIDE DEF A, B
<1>2. a \in Seq(S) /\ b \in Seq(S)
  BY <1>1
<1> HIDE DEF S
<1>3. a \o b \in Seq(S)
  BY <1>2
<1>4. IsSeq(a \o b)
  BY <1>3, SeqIsSeq
<1> QED BY <1>1, <1>2, <1>4, ConcatProperties DEF Joined

\* The rest of a sequence.
LEMMA RestIsSeq ==
  ASSUME NEW seq, IsSeq(seq), NEW m \in 1 .. Len(seq) + 1, NEW n \in Nat, n <= Len(seq)
  PROVE  /\ IsSeq(SubSeq(seq, m, n))
         /\ Len(SubSeq(seq, m, n)) = IF m <= n THEN n - m + 1 ELSE 0
         /\ \A i \in 1 .. Len(SubSeq(seq, m, n)) : SubSeq(seq, m, n)[i] = seq[m + i - 1]
<1> DEFINE R == {seq[i] : i \in 1 .. Len(seq)}
<1>1. seq \in Seq(R) /\ Len(seq) \in Nat
  BY SeqOfElements DEF IsSeq
<1>2. \A i \in m .. n : seq[i] \in R
  OBVIOUS
<1> HIDE DEF R
<1>3. CASE m <= n
  <2>1. /\ SubSeq(seq, m, n) \in Seq(R) /\ Len(SubSeq(seq, m, n)) = n - m + 1
        /\ \A i \in 1 .. n - m + 1 : SubSeq(seq, m, n)[i] = seq[m + i - 1]
    BY <1>1, <1>2, <1>3, SubSeqProperties
  <2> QED BY <1>3, <2>1, SeqIsSeq
<1>4. CASE m > n
  <2>1. SubSeq(seq, m, n) = <<>>
    BY <1>1, <1>4, SubSeqEmpty
  <2> QED BY <1>4, <2>1, EmptyIsSeq
<1> QED BY <1>1, <1>3, <1>4

\* What was kept of the sequence up to a place.
ChosenChain(a, seq, S) ==
  a = [i \in 0 .. Len(seq) |-> IF i = 0 THEN <<>> ELSE IF i \in S THEN Append(a[i - 1], seq[i]) ELSE a[i - 1]]

\* It exists, by induction on the places.
LEMMA ChosenChainExists ==
  ASSUME NEW seq, Len(seq) \in Nat, NEW S
  PROVE  \E a : ChosenChain(a, seq, S)
<1> DEFINE Next1(p, i) == IF i \in S THEN Append(p, seq[i]) ELSE p
           P(k) == \E a : /\ a = [i \in 0 .. k |-> a[i]] /\ a[0] = <<>>
                          /\ \A i \in 1 .. k : a[i] = Next1(a[i - 1], i)
           K == {k \in Nat : P(k)}
<1> HIDE DEF Next1
<1>1. P(0)
  <2> DEFINE z == [i \in 0 .. 0 |-> <<>>]
  <2>1. z = [i \in 0 .. 0 |-> z[i]] /\ z[0] = <<>>
    OBVIOUS
  <2> HIDE DEF z
  <2> QED BY <2>1
<1>2. ASSUME NEW k \in Nat, P(k) PROVE P(k + 1)
  <2>1. PICK a : /\ a = [i \in 0 .. k |-> a[i]] /\ a[0] = <<>>
                 /\ \A i \in 1 .. k : a[i] = Next1(a[i - 1], i)
    BY <1>2
  <2>2. PICK v : v = Next1(a[k], k + 1)
    OBVIOUS
  <2> DEFINE b == [i \in 0 .. (k + 1) |-> IF i = k + 1 THEN v ELSE a[i]]
  <2>3. b = [i \in 0 .. (k + 1) |-> b[i]] /\ b[0] = <<>> /\ b[k + 1] = v /\ b[k] = a[k]
    BY <2>1
  <2>4. \A i \in 1 .. k : b[i] = a[i] /\ b[i - 1] = a[i - 1]
    OBVIOUS
  <2> HIDE DEF b
  <2>5. \A i \in 1 .. (k + 1) : b[i] = Next1(b[i - 1], i)
    <3> SUFFICES ASSUME NEW i \in 1 .. (k + 1) PROVE b[i] = Next1(b[i - 1], i)
      OBVIOUS
    <3>1. CASE i = k + 1
      <4>1. i - 1 = k
        BY <3>1
      <4> QED BY <2>2, <2>3, <3>1, <4>1
    <3>2. CASE i \in 1 .. k
      BY <2>1, <2>4, <3>2
    <3> QED BY <3>1, <3>2
  <2> QED BY <2>3, <2>5
<1> HIDE DEF P
<1>3. K = Nat
  <2>1. 0 \in K /\ (\A k \in K : k + 1 \in K) /\ K \in SUBSET Nat
    BY <1>1, <1>2
  <2> HIDE DEF K
  <2> QED BY <2>1, Induct
<1>4. P(Len(seq))
  BY <1>3
<1>5. PICK a : /\ a = [i \in 0 .. Len(seq) |-> a[i]] /\ a[0] = <<>>
               /\ \A i \in 1 .. Len(seq) : a[i] = Next1(a[i - 1], i)
  BY <1>4 DEF P
<1>6. a = [i \in 0 .. Len(seq) |-> IF i = 0 THEN <<>> ELSE Next1(a[i - 1], i)]
  <2>1. \A i \in 0 .. Len(seq) : a[i] = IF i = 0 THEN <<>> ELSE Next1(a[i - 1], i)
    <3> SUFFICES ASSUME NEW i \in 0 .. Len(seq)
                 PROVE  a[i] = IF i = 0 THEN <<>> ELSE Next1(a[i - 1], i)
      OBVIOUS
    <3>1. CASE i = 0
      BY <1>5, <3>1
    <3>2. CASE i # 0
      <4>1. i \in 1 .. Len(seq)
        BY <3>2
      <4> QED BY <1>5, <3>2, <4>1
    <3> QED BY <3>1, <3>2
  <2> QED BY <1>5, <2>1
<1>7. ChosenChain(a, seq, S)
  BY <1>6, Zenon DEF ChosenChain, Next1
<1> QED BY <1>7

\* The chosen elements are those at the chosen places, in the order of the places.
ChosenFrom(c, seq, S) ==
  /\ IsSeq(c)
  /\ \E at \in [1 .. Len(c) -> S] :
       /\ \A k \in 1 .. Len(c) : c[k] = seq[at[k]]
       /\ \A j, k \in 1 .. Len(c) : j < k => at[j] < at[k]
       /\ \A i \in S : \E k \in 1 .. Len(c) : at[k] = i

\* The elements at the chosen places are exactly those.
LEMMA ChosenPlaces ==
  ASSUME NEW seq, IsSeq(seq), NEW S, S \subseteq 1 .. Len(seq)
  PROVE  ChosenFrom(Chosen(seq, S), seq, S)
<1> DEFINE n == Len(seq)
           a == CHOOSE a : ChosenChain(a, seq, S)
<1>0. n \in Nat /\ \A j \in S : j \in Nat /\ 1 <= j /\ j <= n
  BY DEF IsSeq
<1>1. ChosenChain(a, seq, S)
  BY <1>0, ChosenChainExists
<1>2. Chosen(seq, S) = a[n]
  BY Zenon DEF Chosen, ChosenChain
<1> HIDE DEF a, n
<1> DEFINE Next1(p, i) == IF i \in S THEN Append(p, seq[i]) ELSE p
<1>3. a[0] = <<>> /\ \A i \in 1 .. n : a[i] = Next1(a[i - 1], i)
  <2>1. a = [i \in 0 .. n |-> IF i = 0 THEN <<>> ELSE Next1(a[i - 1], i)]
    BY <1>1, Zenon DEF ChosenChain, n
  <2> HIDE DEF Next1
  <2> QED BY <1>0, <2>1
<1> DEFINE T(i) == {j \in S : j <= i}
           P(i) == /\ IsSeq(a[i])
                   /\ \E at \in [1 .. Len(a[i]) -> T(i)] :
                        /\ \A k \in 1 .. Len(a[i]) : a[i][k] = seq[at[k]]
                        /\ \A j, k \in 1 .. Len(a[i]) : j < k => at[j] < at[k]
                        /\ \A m \in T(i) : \E k \in 1 .. Len(a[i]) : at[k] = m
           K == {i \in Nat : i <= n => P(i)}
<1>4. P(0)
  <2>1. a[0] = <<>> /\ IsSeq(a[0]) /\ Len(a[0]) = 0
    BY <1>3, EmptyIsSeq
  <2>2. T(0) = {} /\ 1 .. 0 = {}
    <3>1. \A j \in S : ~(j <= 0)
      BY <1>0
    <3>2. T(0) = {}
      BY <3>1, Zenon
    <3> QED BY <3>2
  <2> DEFINE at == [k \in {} |-> 0]
  <2>3. at \in [{} -> T(0)]
    OBVIOUS
  <2> HIDE DEF at, T
  <2>4. 1 .. Len(a[0]) = {} /\ at \in [1 .. Len(a[0]) -> T(0)]
    BY <2>1, <2>2, <2>3
  <2> QED BY <2>1, <2>2, <2>4
<1>5. ASSUME NEW i \in Nat, i + 1 <= n, P(i) PROVE P(i + 1)
  <2>1. PICK at \in [1 .. Len(a[i]) -> T(i)] :
          /\ \A k \in 1 .. Len(a[i]) : a[i][k] = seq[at[k]]
          /\ \A j, k \in 1 .. Len(a[i]) : j < k => at[j] < at[k]
          /\ \A m \in T(i) : \E k \in 1 .. Len(a[i]) : at[k] = m
    BY <1>5
  <2>2. IsSeq(a[i]) /\ Len(a[i]) \in Nat /\ i + 1 \in 1 .. n /\ (i + 1) - 1 = i
    BY <1>0, <1>5 DEF IsSeq
  <2>3. CASE i + 1 \notin S
    <3>1. a[i + 1] = a[i]
      BY <1>3, <2>2, <2>3
    <3>2. T(i + 1) = T(i)
      <4>1. \A j \in S : j <= i + 1 <=> j <= i
        BY <1>0, <2>3
      <4> QED BY <4>1
    <3> QED BY <1>5, <3>1, <3>2
  <2>4. CASE i + 1 \in S
    <3>0. PICK b, l : b = a[i + 1] /\ l = Len(a[i])
      OBVIOUS
    <3>1. b = Append(a[i], seq[i + 1])
      BY <1>3, <2>2, <2>4, <3>0
    <3>2. /\ IsSeq(b) /\ Len(b) = l + 1 /\ b[l + 1] = seq[i + 1] /\ l \in Nat
          /\ \A k \in 1 .. l : b[k] = a[i][k]
      BY <2>2, <3>0, <3>1, AppendIsSeq
    <3> DEFINE to == [k \in 1 .. (l + 1) |-> IF k = l + 1 THEN i + 1 ELSE at[k]]
    <3>3. \A k \in 1 .. l : at[k] \in T(i)
      BY <2>1, <3>0
    <3>4. i + 1 \in T(i + 1) /\ \A m \in T(i) : m \in T(i + 1) /\ m < i + 1 /\ m \in Nat
      BY <1>0, <2>4 DEF n
    <3>5. to \in [1 .. (l + 1) -> T(i + 1)]
      <4> HIDE DEF T
      <4>1. \A k \in 1 .. (l + 1) : (IF k = l + 1 THEN i + 1 ELSE at[k]) \in T(i + 1)
        BY <3>2, <3>3, <3>4
      <4> QED BY <4>1
    <3>6. to[l + 1] = i + 1 /\ \A k \in 1 .. l : to[k] = at[k]
      BY <3>2
    <3>6a. \A m \in T(i + 1) : m = i + 1 \/ m \in T(i)
      BY <1>0 DEF n
    <3> HIDE DEF to, T
    <3>7. \A k \in 1 .. (l + 1) : b[k] = seq[to[k]]
      <4> SUFFICES ASSUME NEW k \in 1 .. (l + 1) PROVE b[k] = seq[to[k]]
        OBVIOUS
      <4>1. CASE k = l + 1
        BY <3>2, <3>6, <4>1
      <4>2. CASE k \in 1 .. l
        BY <2>1, <3>0, <3>2, <3>6, <4>2
      <4> QED BY <3>2, <4>1, <4>2
    <3>8. \A j, k \in 1 .. (l + 1) : j < k => to[j] < to[k]
      <4> SUFFICES ASSUME NEW j \in 1 .. (l + 1), NEW k \in 1 .. (l + 1), j < k
                   PROVE  to[j] < to[k]
        OBVIOUS
      <4>1. j \in 1 .. l
        BY <3>2
      <4>2. CASE k = l + 1
        BY <3>3, <3>4, <3>6, <4>1, <4>2
      <4>3. CASE k \in 1 .. l
        BY <2>1, <3>0, <3>6, <4>1, <4>3
      <4> QED BY <3>2, <4>2, <4>3
    <3>9. \A m \in T(i + 1) : \E k \in 1 .. (l + 1) : to[k] = m
      <4> SUFFICES ASSUME NEW m \in T(i + 1) PROVE \E k \in 1 .. (l + 1) : to[k] = m
        OBVIOUS
      <4>1. CASE m = i + 1
        BY <3>2, <3>6, <4>1
      <4>2. CASE m \in T(i)
        <5>1. PICK k \in 1 .. l : at[k] = m
          BY <2>1, <3>0, <4>2
        <5> QED BY <3>2, <3>6, <5>1
      <4> QED BY <3>6a, <4>1, <4>2
    <3> QED BY <3>0, <3>2, <3>5, <3>7, <3>8, <3>9, SMTT(30)
  <2> QED BY <2>3, <2>4
<1> HIDE DEF P
<1>6. K = Nat
  <2>1. 0 \in K /\ (\A i \in K : i + 1 \in K) /\ K \in SUBSET Nat
    BY <1>0, <1>4, <1>5
  <2> HIDE DEF K
  <2> QED BY <2>1, Induct
<1>7. P(n)
  BY <1>0, <1>6
<1>8. T(n) = S
  BY <1>0
<1> HIDE DEF T
<1> QED BY <1>2, <1>7, <1>8 DEF P, ChosenFrom

--------------------------------------------------------------------------------
(* The sum of a sequence of numbers (Selection). *)

\* The sums of the first numbers of a sequence.
Sums(a, v) ==
  /\ a \in [0 .. Len(v) -> Nat] /\ a[0] = 0
  /\ \A i \in 1 .. Len(v) : a[i] = a[i - 1] + v[i]

Numbers(v) == Len(v) \in Nat /\ \A i \in 1 .. Len(v) : v[i] \in Nat

\* They exist, by induction on the places.
LEMMA SumsExist ==
  ASSUME NEW v, Numbers(v)
  PROVE  \E a : Sums(a, v)
<1> DEFINE n == Len(v)
           P(k) == \E a \in [0 .. k -> Nat] : a[0] = 0 /\ \A i \in 1 .. k : a[i] = a[i - 1] + v[i]
           K == {k \in Nat : k <= n => P(k)}
<1>0. n \in Nat /\ \A i \in 1 .. n : v[i] \in Nat
  BY DEF Numbers
<1> HIDE DEF n
<1>1. P(0)
  <2> DEFINE z == [i \in 0 .. 0 |-> 0]
  <2>1. z \in [0 .. 0 -> Nat] /\ z[0] = 0
    OBVIOUS
  <2> HIDE DEF z
  <2> QED BY <2>1
<1>2. ASSUME NEW k \in Nat, k + 1 <= n, P(k) PROVE P(k + 1)
  <2>1. PICK a \in [0 .. k -> Nat] : a[0] = 0 /\ \A i \in 1 .. k : a[i] = a[i - 1] + v[i]
    BY <1>2
  <2>2. a[k] \in Nat /\ v[k + 1] \in Nat
    BY <1>0, <1>2, <2>1
  <2> DEFINE b == [i \in 0 .. (k + 1) |-> IF i = k + 1 THEN a[k] + v[k + 1] ELSE a[i]]
  <2>3. b \in [0 .. (k + 1) -> Nat]
    <3>1. \A i \in 0 .. (k + 1) : (IF i = k + 1 THEN a[k] + v[k + 1] ELSE a[i]) \in Nat
      BY <2>1, <2>2
    <3> QED BY <3>1
  <2>4. b[0] = 0 /\ b[k + 1] = a[k] + v[k + 1] /\ b[k] = a[k]
    BY <2>1
  <2>5. \A i \in 1 .. k : b[i] = a[i] /\ b[i - 1] = a[i - 1]
    OBVIOUS
  <2> HIDE DEF b
  <2>6. \A i \in 1 .. (k + 1) : b[i] = b[i - 1] + v[i]
    <3> SUFFICES ASSUME NEW i \in 1 .. (k + 1) PROVE b[i] = b[i - 1] + v[i]
      OBVIOUS
    <3>1. CASE i = k + 1
      <4>1. i - 1 = k
        BY <3>1
      <4> QED BY <2>4, <3>1, <4>1
    <3>2. CASE i \in 1 .. k
      BY <2>1, <2>5, <3>2
    <3> QED BY <3>1, <3>2
  <2> QED BY <2>3, <2>4, <2>6
<1> HIDE DEF P
<1>3. K = Nat
  <2>1. 0 \in K /\ (\A k \in K : k + 1 \in K) /\ K \in SUBSET Nat
    BY <1>0, <1>1, <1>2
  <2> HIDE DEF K
  <2> QED BY <2>1, Induct
<1>4. P(n)
  BY <1>0, <1>3
<1> QED BY <1>4 DEF P, Sums, n

\* The sum is the last of them.
LEMMA TotalIsLast ==
  ASSUME NEW v, Numbers(v), NEW a, Sums(a, v)
  PROVE  Total(v) = a[Len(v)] /\ Total(v) \in Nat
<1> DEFINE n == Len(v)
           Eq(c) == c = [i \in 0 .. n |-> IF i = 0 THEN 0 ELSE c[i - 1] + v[i]]
           c == CHOOSE c : Eq(c)
<1>0. n \in Nat
  BY DEF Numbers
<1>1. Eq(a)
  <2>1. \A i \in 0 .. n : a[i] = IF i = 0 THEN 0 ELSE a[i - 1] + v[i]
    <3> SUFFICES ASSUME NEW i \in 0 .. n PROVE a[i] = IF i = 0 THEN 0 ELSE a[i - 1] + v[i]
      OBVIOUS
    <3>1. CASE i = 0
      BY <3>1 DEF Sums
    <3>2. CASE i # 0
      <4>1. i \in 1 .. n
        BY <3>2
      <4> QED BY <3>2, <4>1 DEF Sums
    <3> QED BY <3>1, <3>2
  <2>2. a = [i \in 0 .. n |-> a[i]]
    BY DEF Sums
  <2> HIDE DEF n
  <2> QED BY <2>1, <2>2
<1>2. Eq(c)
  BY <1>1
<1>3. Total(v) = c[n]
  BY Zenon DEF Total
<1> HIDE DEF c
<1> DEFINE K == {i \in Nat : i <= n => c[i] = a[i]}
<1>4. \A i \in 0 .. n : c[i] = IF i = 0 THEN 0 ELSE c[i - 1] + v[i]
  BY <1>2
<1>5. a[0] = 0 /\ \A i \in 1 .. n : a[i] = a[i - 1] + v[i]
  BY DEF Sums
<1> HIDE DEF n, Eq
<1>6. 0 \in K
  BY <1>0, <1>4, <1>5
<1>7. ASSUME NEW k \in K PROVE k + 1 \in K
  <2> SUFFICES ASSUME k + 1 <= n PROVE c[k + 1] = a[k + 1]
    OBVIOUS
  <2>1. k \in Nat /\ k <= n /\ k + 1 \in 1 .. n /\ k + 1 \in 0 .. n /\ (k + 1) - 1 = k /\ k + 1 # 0
    BY <1>0
  <2>2. c[k] = a[k]
    BY <2>1
  <2>3. c[k + 1] = c[k] + v[k + 1]
    BY <1>4, <2>1
  <2>4. a[k + 1] = a[k] + v[k + 1]
    BY <1>5, <2>1
  <2> QED BY <2>2, <2>3, <2>4
<1>8. K = Nat
  <2>1. K \in SUBSET Nat
    OBVIOUS
  <2> HIDE DEF K
  <2> QED BY <1>6, <1>7, <2>1, Induct
<1>9. c[n] = a[n]
  BY <1>0, <1>8
<1>10. a[n] \in Nat
  BY <1>0 DEF Sums, n
<1> QED BY <1>3, <1>9, <1>10 DEF n

\* The sum of no numbers, and of one more.
LEMMA TotalEmpty ==
  ASSUME NEW v, Len(v) = 0
  PROVE  Total(v) = 0
<1>1. Numbers(v)
  BY DEF Numbers
<1>2. PICK a : Sums(a, v)
  BY <1>1, SumsExist
<1> QED BY <1>1, <1>2, TotalIsLast DEF Sums

\* The numbers of v and then one more.
LEMMA TotalAppend ==
  ASSUME NEW v, Numbers(v), NEW w, Len(w) = Len(v) + 1, NEW x \in Nat, w[Len(v) + 1] = x,
         \A i \in 1 .. Len(v) : w[i] = v[i]
  PROVE  Total(w) = Total(v) + x /\ Numbers(w)
<1>1. PICK n \in Nat : n = Len(v)
  BY DEF Numbers
<1>2. \A i \in 1 .. (n + 1) : i = n + 1 \/ i \in 1 .. n
  BY <1>1
<1>3. Numbers(w)
  BY <1>1, <1>2 DEF Numbers
<1>4. PICK b : Sums(b, w)
  BY <1>3, SumsExist
<1> DEFINE a == [i \in 0 .. n |-> b[i]]
<1>5. \A i \in 0 .. n : b[i] \in Nat
  BY <1>1, <1>4 DEF Sums
<1>6. a \in [0 .. n -> Nat] /\ a[0] = 0 /\ a[n] = b[n]
  BY <1>1, <1>4, <1>5 DEF Sums
<1>7. \A i \in 1 .. n : a[i] = a[i - 1] + v[i]
  <2> SUFFICES ASSUME NEW i \in 1 .. n PROVE a[i] = a[i - 1] + v[i]
    OBVIOUS
  <2>1. i \in 1 .. (n + 1) /\ i - 1 \in 0 .. n /\ i \in 0 .. n
    BY <1>1
  <2>2. b[i] = b[i - 1] + w[i]
    BY <1>1, <1>4, <2>1 DEF Sums
  <2> QED BY <1>1, <2>1, <2>2
<1> HIDE DEF a
<1>8. Sums(a, v)
  BY <1>1, <1>6, <1>7 DEF Sums
<1>9. Total(v) = a[n] /\ Total(w) = b[n + 1]
  BY <1>1, <1>3, <1>4, <1>8, TotalIsLast
<1>10. b[n + 1] = b[n] + x
  <2>1. n + 1 \in 1 .. Len(w) /\ (n + 1) - 1 = n
    BY <1>1
  <2> QED BY <1>1, <1>4, <2>1 DEF Sums
<1> QED BY <1>3, <1>6, <1>9, <1>10

\* One number changes.
LEMMA TotalChanged ==
  ASSUME NEW v, Numbers(v), NEW w, Len(w) = Len(v), NEW k \in 1 .. Len(v), w[k] \in Nat,
         \A i \in 1 .. Len(v) : i # k => w[i] = v[i]
  PROVE  Total(w) + v[k] = Total(v) + w[k] /\ Total(w) \in Nat /\ Total(v) \in Nat
<1>1. PICK n \in Nat : n = Len(v)
  BY DEF Numbers
<1>2. Numbers(w)
  BY DEF Numbers
<1>3. PICK a : Sums(a, v)
  BY SumsExist
<1>4. PICK b : Sums(b, w)
  BY <1>2, SumsExist
<1> DEFINE K == {i \in Nat : i <= n => IF i < k THEN b[i] = a[i] ELSE b[i] + v[k] = a[i] + w[k]}
<1>5. 0 \in K
  BY <1>3, <1>4 DEF Sums
<1>6. ASSUME NEW i \in K PROVE i + 1 \in K
  <2> SUFFICES ASSUME i + 1 <= n PROVE i + 1 \in K
    OBVIOUS
  <2>1. i \in Nat /\ i <= n /\ i + 1 \in 1 .. n /\ (i + 1) - 1 = i /\ i \in 0 .. n /\ k \in Nat
    BY <1>1
  <2>2. a[i + 1] = a[i] + v[i + 1] /\ b[i + 1] = b[i] + w[i + 1] /\ a[i] \in Nat /\ b[i] \in Nat
    BY <1>1, <1>3, <1>4, <2>1 DEF Sums
  <2>3. v[i + 1] \in Nat /\ w[i + 1] \in Nat /\ (i + 1 # k => w[i + 1] = v[i + 1])
        /\ v[k] \in Nat
    BY <1>1, <1>2, <2>1 DEF Numbers
  <2>4. IF i < k THEN b[i] = a[i] ELSE b[i] + v[k] = a[i] + w[k]
    BY <2>1
  <2>5. CASE i + 1 < k
    BY <2>1, <2>2, <2>3, <2>4, <2>5
  <2>6. CASE i + 1 = k
    BY <2>1, <2>2, <2>3, <2>4, <2>6
  <2>7. CASE i + 1 > k
    <3>1. b[i] + v[k] = a[i] + w[k] /\ w[i + 1] = v[i + 1] /\ ~(i + 1 < k)
      BY <2>1, <2>3, <2>4, <2>7
    <3>2. PICK p \in Nat, q \in Nat, r \in Nat, s \in Nat, t \in Nat :
            p = b[i] /\ q = a[i] /\ r = v[i + 1] /\ s = v[k] /\ t = w[k]
      BY <2>2, <2>3
    <3>3. p + s = q + t /\ b[i + 1] = p + r /\ a[i + 1] = q + r
      BY <2>2, <3>1, <3>2
    <3>4. b[i + 1] + s = a[i + 1] + t
      BY <3>3
    <3>5. b[i + 1] + v[k] = a[i + 1] + w[k]
      BY <3>2, <3>4
    <3> QED BY <2>1, <3>1, <3>5
  <2> QED BY <2>1, <2>5, <2>6, <2>7
<1>7. K = Nat
  <2>1. K \in SUBSET Nat
    OBVIOUS
  <2> HIDE DEF K
  <2> QED BY <1>5, <1>6, <2>1, Induct
<1>8. b[n] + v[k] = a[n] + w[k]
  BY <1>1, <1>7
<1>9. Total(v) = a[n] /\ Total(w) = b[n] /\ Total(v) \in Nat /\ Total(w) \in Nat
  BY <1>1, <1>2, <1>3, <1>4, TotalIsLast
<1> QED BY <1>8, <1>9

\* The same numbers.
LEMMA TotalSame ==
  ASSUME NEW v, Numbers(v), NEW w, Len(w) = Len(v), \A i \in 1 .. Len(v) : w[i] = v[i]
  PROVE  Total(w) = Total(v) /\ Total(v) \in Nat
<1>1. PICK a : Sums(a, v)
  BY SumsExist
<1>2. Sums(a, w) /\ Numbers(w)
  BY <1>1 DEF Sums, Numbers
<1> QED BY <1>1, <1>2, TotalIsLast

\* a has what was chosen up to every place.
ChosenUpTo(a, seq, S) ==
  /\ a[0] = <<>> /\ Chosen(seq, S) = a[Len(seq)]
  /\ \A i \in 1 .. Len(seq) : i \in S => a[i] = Append(a[i - 1], seq[i])
  /\ \A i \in 1 .. Len(seq) : i \notin S => a[i] = a[i - 1]

\* The elements are chosen one place after the other.
LEMMA ChosenSteps ==
  ASSUME NEW seq, Len(seq) \in Nat, NEW S
  PROVE  \E a : ChosenUpTo(a, seq, S)
<1> DEFINE n == Len(seq)
           a == CHOOSE a : ChosenChain(a, seq, S)
<1>1. ChosenChain(a, seq, S)
  BY ChosenChainExists
<1>2. Chosen(seq, S) = a[n]
  BY Zenon DEF Chosen, ChosenChain
<1> HIDE DEF a
<1> DEFINE Next1(p, i) == IF i \in S THEN Append(p, seq[i]) ELSE p
<1>3. a = [i \in 0 .. n |-> IF i = 0 THEN <<>> ELSE Next1(a[i - 1], i)]
  BY <1>1, Zenon DEF ChosenChain
<1> HIDE DEF n
<1>4. a[0] = <<>> /\ \A i \in 1 .. n : a[i] = Next1(a[i - 1], i)
  <2> HIDE DEF Next1
  <2>1. n \in Nat
    BY DEF n
  <2> QED BY <1>3, <2>1
<1>5. \A i \in 1 .. n : (i \in S => a[i] = Append(a[i - 1], seq[i])) /\ (i \notin S => a[i] = a[i - 1])
  BY <1>4, Zenon
<1> QED BY <1>2, <1>4, <1>5 DEF n, ChosenUpTo

================================================================================
