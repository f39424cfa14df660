-------------------------- MODULE InductionLemmas --------------------------
(***************************************************************************)
(* Facts about the operators the modules are built from.  Induction over   *)
(* the naturals is stated for a set, not for an operator, so that it can   *)
(* be cited at any instance; from it the recursive function in FlattenSeq  *)
(* is shown to exist and to be what its definition says.  Sorting is by    *)
(* rank: counting who comes no later permutes the places.  Sequences put   *)
(* together of pieces are cut at any place and begin with their pieces.    *)
(***************************************************************************)
EXTENDS Integers, SequencesExt, FiniteSetTheorems, SequenceTheorems, TLAPS

NatOrder == {p \in Nat \X Nat : p[1] < p[2]}

(* The order on the naturals has no infinite descent. *)
LEMMA NatOrderWellFounded == IsWellFoundedOn(NatOrder, Nat)
<1>1. NatOrder = OpToRel(<, Nat)
  BY DEF NatOrder, OpToRel
<1> QED
  BY <1>1, NatLessThanWellFounded

(* A set of naturals that is not empty has a least element. *)
LEMMA LeastElement ==
    ASSUME NEW T, T \subseteq Nat, T # {}
    PROVE  \E x \in T : \A y \in T : x <= y
<1>1. \E x \in T : \A y \in T : <<y, x>> \notin NatOrder
  BY NatOrderWellFounded, WFMin
<1>2. \A x, y \in Nat : <<y, x>> \notin NatOrder => x <= y
  BY DEF NatOrder
<1> QED
  BY <1>1, <1>2

(* Induction: a set with 0 and every successor has all the naturals. *)
LEMMA SetInduction ==
    ASSUME NEW T, 0 \in T, \A n \in Nat : n \in T => n + 1 \in T
    PROVE  Nat \subseteq T
<1> DEFINE B == Nat \ T
<1>1. SUFFICES ASSUME B # {} PROVE FALSE
  OBVIOUS
<1>2. PICK x \in B : \A y \in B : x <= y
  <2> HIDE DEF B
  <2> B \subseteq Nat
    BY DEF B
  <2> QED
    BY <1>1, LeastElement
<1>3. x # 0 /\ x - 1 \in Nat /\ x - 1 \notin B
  BY <1>2
<1> QED
  BY <1>2, <1>3

-----------------------------------------------------------------------------
(* What FlattenSeq's function is at i, and when f is that function for the *)
(* first n sequences of s.                                                 *)
Extended(s, f, i) == IF i = 1 THEN s[i] ELSE f[i-1] \o s[i]

Agree(s, t, n) == \A i \in 1..n : s[i] = t[i]

Flattens(s, n, f) == f = [i \in 1..n |-> Extended(s, f, i)]

LEMMA FlattensAt ==
    ASSUME NEW s, NEW n \in Nat, NEW f, Flattens(s, n, f), NEW i \in 1..n
    PROVE  f[i] = Extended(s, f, i)
<1> DEFINE g == [j \in 1..n |-> Extended(s, f, j)]
<1>1. f = g
  BY DEF Flattens
<1>2. g[i] = Extended(s, f, i)
  OBVIOUS
<1> QED
  BY <1>1, <1>2

(* The recursive definition has a solution for every length. *)
LEMMA FlattensExists ==
    ASSUME NEW s, NEW n \in Nat
    PROVE  \E f : Flattens(s, n, f)
<1> DEFINE T == {k \in Nat : \E f : Flattens(s, k, f)}
<1>1. 0 \in T
  <2>1. Flattens(s, 0, [i \in 1..0 |-> 0])
    BY DEF Flattens
  <2> QED
    BY <2>1
<1>2. ASSUME NEW k \in Nat, k \in T
      PROVE  k + 1 \in T
  <2>1. PICK f : Flattens(s, k, f)
    BY <1>2
  <2> DEFINE g == [i \in 1..k+1 |-> IF i <= k THEN f[i] ELSE Extended(s, f, i)]
  <2>2. ASSUME NEW i \in 1..k+1
        PROVE  g[i] = Extended(s, g, i)
    <3>1. i # 1 => i - 1 \in 1..k /\ g[i-1] = f[i-1]
      OBVIOUS
    <3>2. Extended(s, g, i) = Extended(s, f, i)
      BY <3>1 DEF Extended
    <3>3. i <= k => f[i] = Extended(s, f, i)
      BY <2>1, FlattensAt
    <3> QED
      BY <3>2, <3>3
  <2>3. Flattens(s, k+1, g)
    BY <2>2 DEF Flattens
  <2> QED
    BY <2>3
<1> QED
  <2> HIDE DEF T
  <2>1. Nat \subseteq T
    BY <1>1, <1>2, SetInduction
  <2> QED
    BY <2>1 DEF T

(* And only one: two solutions agree as far as their sequences do. *)
LEMMA FlattensUnique ==
    ASSUME NEW s, NEW t, NEW n \in Nat, NEW m \in Nat, NEW f, NEW g,
           Flattens(s, n, f), Flattens(t, m, g),
           n <= m, Agree(s, t, n)
    PROVE  Agree(f, g, n)
<1> DEFINE T == {j \in Nat : j \in 1..n => f[j] = g[j]}
<1>1. 0 \in T
  OBVIOUS
<1>2. ASSUME NEW j \in Nat, j \in T
      PROVE  j + 1 \in T
  <2>1. SUFFICES ASSUME j + 1 \in 1..n PROVE f[j+1] = g[j+1]
    OBVIOUS
  <2>2. f[j+1] = Extended(s, f, j+1) /\ g[j+1] = Extended(t, g, j+1)
    BY <2>1, FlattensAt
  <2>3. s[j+1] = t[j+1] /\ (j + 1 # 1 => f[j+1-1] = g[j+1-1])
    BY <1>2, <2>1 DEF Agree
  <2> QED
    BY <2>2, <2>3 DEF Extended
<1> QED
  <2> HIDE DEF T
  <2>1. Nat \subseteq T
    BY <1>1, <1>2, SetInduction
  <2> QED
    BY <2>1 DEF T, Agree

(* FlattenSeq is the last value of any such function. *)
LEMMA FlattenSeqIs ==
    ASSUME NEW s, Len(s) \in Nat \ {0}, NEW f, Flattens(s, Len(s), f)
    PROVE  FlattenSeq(s) = f[Len(s)]
<1> DEFINE g == CHOOSE h : Flattens(s, Len(s), h)
<1>1. FlattenSeq(s) = g[Len(s)]
  BY DEF FlattenSeq, Flattens, Extended
<1>2. Flattens(s, Len(s), g)
  OBVIOUS
<1>3. Len(s) \in 1..Len(s) /\ Len(s) <= Len(s)
  OBVIOUS
<1>5. Agree(s, s, Len(s))
  BY DEF Agree
<1>4. Agree(g, f, Len(s))
  <2> HIDE DEF g
  <2> QED
    BY <1>2, <1>3, <1>5, FlattensUnique
<1> HIDE DEF g
<1> QED
  BY <1>1, <1>3, <1>4 DEF Agree

LEMMA FlattenEmpty == FlattenSeq(<<>>) = <<>>
BY DEF FlattenSeq

(* A sequence t that is s and one more flattens to s flattened and that.   *)
LEMMA FlattenExtends ==
    ASSUME NEW s, NEW t, Len(s) \in Nat \ {0}, Len(t) = Len(s) + 1,
           \A i \in 1..Len(s) : s[i] = t[i]
    PROVE  FlattenSeq(t) = FlattenSeq(s) \o t[Len(t)]
<1> DEFINE n == Len(s)
           m == Len(t)
<1>1. n \in Nat \ {0} /\ m \in Nat \ {0} /\ n <= m /\ m - 1 = n /\ n \in 1..n
  OBVIOUS
<1>2. PICK f : Flattens(s, n, f)
  BY <1>1, FlattensExists
<1>3. PICK g : Flattens(t, m, g)
  BY <1>1, FlattensExists
<1>4. Agree(f, g, n)
  <2>1. Agree(s, t, n)
    BY DEF Agree
  <2> HIDE DEF n, m
  <2> QED
    BY <1>1, <1>2, <1>3, <2>1, FlattensUnique
<1>5. FlattenSeq(s) = f[n] /\ FlattenSeq(t) = g[m]
  BY <1>1, <1>2, <1>3, FlattenSeqIs
<1>6. g[m] = Extended(t, g, m)
  BY <1>1, <1>3, FlattensAt
<1>7. m # 1
  BY <1>1
<1> QED
  BY <1>1, <1>4, <1>5, <1>6, <1>7 DEF Extended, Agree

(* One more piece at the end is one more piece at the end of the whole.    *)
THEOREM FlattenAppend ==
    ASSUME NEW S, NEW s \in Seq(Seq(S)), NEW p \in Seq(S)
    PROVE  FlattenSeq(Append(s, p)) = FlattenSeq(s) \o p
<1> DEFINE t == Append(s, p)
<1>1. /\ Len(s) \in Nat /\ Len(t) = Len(s) + 1
      /\ \A i \in 1..Len(s) : s[i] = t[i]
      /\ t[Len(t)] = p
  OBVIOUS
<1>2. CASE Len(s) = 0
  <2>1. s = <<>> /\ Len(t) = 1
    BY <1>1, <1>2
  <2>2. PICK g : Flattens(t, 1, g)
    BY FlattensExists
  <2>3. FlattenSeq(t) = g[1] /\ g[1] = Extended(t, g, 1)
    <3> HIDE DEF t
    <3>1. Len(t) \in Nat \ {0} /\ Flattens(t, Len(t), g) /\ 1 \in 1..1 /\ 1 \in Nat
      BY <2>1, <2>2
    <3>2. FlattenSeq(t) = g[Len(t)]
      BY <3>1, FlattenSeqIs
    <3> QED
      BY <2>1, <2>2, <3>1, <3>2, FlattensAt
  <2>4. Extended(t, g, 1) = p
    BY <1>1, <2>1 DEF Extended
  <2>5. <<>> \o p = p
    OBVIOUS
  <2> QED
    BY <2>1, <2>3, <2>4, <2>5, FlattenEmpty
<1>3. CASE Len(s) # 0
  <2> HIDE DEF t
  <2> QED
    BY <1>1, <1>3, FlattenExtends DEF t
<1> QED
  BY <1>2, <1>3

-----------------------------------------------------------------------------
(* Pieces of sequences.                                                    *)
LEMMA FirstOf ==
    ASSUME NEW S, NEW t \in Seq(S), NEW n \in 0..Len(t)
    PROVE  /\ SubSeq(t, 1, n) \in Seq(S) /\ Len(SubSeq(t, 1, n)) = n
           /\ \A i \in 1..n : SubSeq(t, 1, n)[i] = t[i]
           /\ SubSeq(t, 1, Len(t)) = t /\ SubSeq(t, 1, 0) = <<>>
OBVIOUS

LEMMA JoinedIs ==
    ASSUME NEW S, NEW a \in Seq(S), NEW b \in Seq(S)
    PROVE  /\ a \o b \in Seq(S) /\ Len(a \o b) = Len(a) + Len(b)
           /\ Len(a) \in Nat /\ Len(b) \in Nat
           /\ \A i \in 1..Len(a) : (a \o b)[i] = a[i]
           /\ \A i \in 1..Len(b) : (a \o b)[Len(a) + i] = b[i]
OBVIOUS

LEMMA JoinedInThree ==
    ASSUME NEW S, NEW a \in Seq(S), NEW b \in Seq(S), NEW c \in Seq(S)
    PROVE  (a \o b) \o c = a \o (b \o c) /\ <<>> \o a = a /\ a \o <<>> = a
OBVIOUS

LEMMA PieceIs ==
    ASSUME NEW S, NEW s \in Seq(S), NEW m \in Nat, NEW n \in Nat, m <= n, n <= Len(s)
    PROVE  /\ SubSeq(s, m + 1, n) \in Seq(S) /\ Len(SubSeq(s, m + 1, n)) = n - m
           /\ \A i \in 1..(n - m) : SubSeq(s, m + 1, n)[i] = s[m + i]
OBVIOUS

-----------------------------------------------------------------------------
(* Pieces flattened one by one.                                            *)
Pieces(f, m, S) == m \in Nat /\ \A i \in 1..m : f[i] \in Seq(S)
Flat(f, k) == FlattenSeq([i \in 1..k |-> f[i]])

LEMMA FlatIs ==
    ASSUME NEW S, NEW f, NEW m, Pieces(f, m, S)
    PROVE  /\ Flat(f, 0) = <<>>
           /\ \A k \in Nat : k < m => Flat(f, k + 1) = Flat(f, k) \o f[k + 1]
           /\ \A k \in 0..m : Flat(f, k) \in Seq(S)
<1> DEFINE first(k) == [i \in 1..k |-> f[i]]
<1>1. Flat(f, 0) = <<>>
  <2>1. first(0) = <<>>
    OBVIOUS
  <2> QED
    BY <2>1, FlattenEmpty DEF Flat
<1>2. ASSUME NEW k \in Nat, k < m
      PROVE  Flat(f, k + 1) = Flat(f, k) \o f[k + 1]
  <2>1. m \in Nat /\ \A i \in 1..m : f[i] \in Seq(S)
    BY DEF Pieces
  <2>2. f[k + 1] \in Seq(S) /\ \A i \in 1..k : f[i] \in Seq(S)
    BY <1>2, <2>1
  <2>3. first(k) \in Seq(Seq(S))
    <3> DEFINE T == Seq(S)
    <3>1. \A i \in 1..k : f[i] \in T
      BY <2>2
    <3> HIDE DEF T
    <3>2. first(k) \in Seq(T)
      BY <3>1
    <3> QED
      BY <3>2 DEF T
  <2>4. first(k + 1) = Append(first(k), f[k + 1])
    OBVIOUS
  <2> HIDE DEF first
  <2>5. FlattenSeq(Append(first(k), f[k + 1])) = FlattenSeq(first(k)) \o f[k + 1]
    BY <2>2, <2>3, FlattenAppend
  <2>6. FlattenSeq(first(k + 1)) = FlattenSeq(first(k)) \o f[k + 1]
    BY <2>4, <2>5
  <2> QED
    BY <2>6 DEF Flat, first
<1> DEFINE T == {k \in Nat : k <= m => Flat(f, k) \in Seq(S)}
<1>3. 0 \in T
  <2>1. <<>> \in Seq(S)
    OBVIOUS
  <2> QED
    BY <1>1, <2>1
<1>4. ASSUME NEW k \in Nat, k \in T
      PROVE  k + 1 \in T
  <2> SUFFICES ASSUME k + 1 <= m PROVE Flat(f, k + 1) \in Seq(S)
    OBVIOUS
  <2>1. m \in Nat /\ \A i \in 1..m : f[i] \in Seq(S)
    BY DEF Pieces
  <2>2. Flat(f, k) \in Seq(S) /\ f[k + 1] \in Seq(S) /\ k < m
    BY <1>4, <2>1
  <2>3. Flat(f, k) \o f[k + 1] \in Seq(S)
    BY <2>2
  <2> QED
    BY <1>2, <2>2, <2>3
<1>5. Nat \subseteq T
  <2> HIDE DEF T
  <2> QED
    BY <1>3, <1>4, SetInduction
<1> QED
  BY <1>1, <1>2, <1>5

(* More pieces are longer and begin with fewer.                            *)
LEMMA FlatGrows ==
    ASSUME NEW S, NEW f, NEW m, Pieces(f, m, S), \A i \in 1..m : Len(f[i]) > 0,
           NEW j \in 0..m, NEW k \in 0..m, j <= k
    PROVE  /\ Len(Flat(f, j)) \in Nat /\ Len(Flat(f, k)) \in Nat
           /\ Len(Flat(f, j)) <= Len(Flat(f, k))
           /\ j < k => Len(Flat(f, j)) < Len(Flat(f, k))
           /\ \A i \in 1..Len(Flat(f, j)) : Flat(f, k)[i] = Flat(f, j)[i]
<1> DEFINE F(n) == Flat(f, n)
           L(n) == Len(F(n))
           Grown(n) == /\ L(j) <= L(n)
                       /\ j < n => L(j) < L(n)
                       /\ \A i \in 1..L(j) : F(n)[i] = F(j)[i]
           T == {n \in Nat : j <= n /\ n <= m => Grown(n)}
<1>1. m \in Nat /\ \A i \in 1..m : f[i] \in Seq(S)
  BY DEF Pieces
<1>2. /\ \A n \in Nat : n < m => F(n + 1) = F(n) \o f[n + 1]
      /\ \A n \in 0..m : F(n) \in Seq(S)
  BY FlatIs
<1>3. \A n \in 0..m : L(n) \in Nat
  BY <1>2
<1> HIDE DEF F
<1>4. Grown(j)
  BY <1>3
<1>5. 0 \in T
  BY <1>1, <1>4
<1>6. ASSUME NEW n \in Nat, n \in T
      PROVE  n + 1 \in T
  <2> SUFFICES ASSUME j <= n + 1, n + 1 <= m PROVE Grown(n + 1)
    OBVIOUS
  <2>1. CASE j = n + 1
    BY <1>4, <2>1
  <2>2. CASE j # n + 1
    <3>1. j <= n /\ n < m /\ n \in 0..m /\ n + 1 \in 0..m /\ n + 1 \in 1..m
      BY <1>1, <2>2
    <3>2. Grown(n)
      BY <1>6, <3>1
    <3> DEFINE a == F(n)
               b == f[n + 1]
    <3>3. a \in Seq(S) /\ b \in Seq(S) /\ Len(b) > 0 /\ F(n + 1) = a \o b
      BY <1>1, <1>2, <3>1
    <3>4. L(n) = Len(a) /\ L(n + 1) = Len(a \o b)
      BY <3>3
    <3> HIDE DEF a, b
    <3>5. /\ Len(a \o b) = Len(a) + Len(b) /\ Len(a) \in Nat /\ Len(b) \in Nat
          /\ \A i \in 1..Len(a) : (a \o b)[i] = a[i]
      BY <3>3, JoinedIs
    <3>6. L(n) < L(n + 1) /\ L(j) \in Nat /\ L(n) \in Nat /\ L(n + 1) \in Nat
      BY <1>3, <3>1, <3>3, <3>4, <3>5
    <3>7. ASSUME NEW i \in 1..L(j)
          PROVE  F(n + 1)[i] = F(j)[i]
      <4>1. i \in 1..Len(a)
        BY <3>2, <3>4, <3>6
      <4>2. (a \o b)[i] = a[i] /\ a[i] = F(j)[i]
        BY <3>2, <3>5, <4>1 DEF a
      <4> QED
        BY <3>3, <4>2
    <3> HIDE DEF L
    <3> QED
      BY <3>2, <3>6, <3>7
  <2> QED
    BY <2>1, <2>2
<1>7. Nat \subseteq T
  <2> HIDE DEF T
  <2> QED
    BY <1>5, <1>6, SetInduction
<1>8. k \in T
  BY <1>1, <1>7
<1> HIDE DEF L
<1>9. Grown(k)
  BY <1>1, <1>8
<1> QED
  BY <1>3, <1>9 DEF F, L

(* r is the whole of w, or more, and then what is cut off at k reaches as   *)
(* far as w does, or a part of w, and then it does not.                    *)
BeginsWith(r, w, k, from, next) ==
    /\ Len(r) = k - from /\ next = from + Len(w)
    /\ Len(w) <= Len(r) => next <= k /\ \A i \in 1..Len(w) : r[i] = w[i]
    /\ Len(r) < Len(w) => k < next /\ \A i \in 1..Len(r) : r[i] = w[i]

(* Of pieces cut off after k, what follows the n-th begins with the next.  *)
LEMMA CutPiece ==
    ASSUME NEW S, NEW f, NEW m, Pieces(f, m, S), \A i \in 1..m : Len(f[i]) > 0,
           NEW k \in 0..Len(Flat(f, m)), NEW d, d = SubSeq(Flat(f, m), 1, k),
           NEW n \in 0..m, n < m, NEW from, from = Len(Flat(f, n)), from <= k
    PROVE  /\ SubSeq(d, from + 1, Len(d)) \in Seq(S)
           /\ BeginsWith(SubSeq(d, from + 1, Len(d)), f[n + 1], k, from, Len(Flat(f, n + 1)))
<1> DEFINE r == SubSeq(d, from + 1, Len(d))
           w == f[n + 1]
           whole == Flat(f, m)
           a == Flat(f, n)
           next == Flat(f, n + 1)
<1>1. m \in Nat /\ n \in Nat /\ n + 1 \in 0..m /\ n + 1 \in 1..m /\ m \in 0..m /\ n + 1 <= m
  BY DEF Pieces
<1>2. w \in Seq(S)
  BY <1>1 DEF Pieces
<1>3. whole \in Seq(S) /\ a \in Seq(S) /\ next = a \o w
  BY <1>1, FlatIs
<1>4. Len(next) <= Len(whole) /\ \A i \in 1..Len(next) : whole[i] = next[i]
  BY <1>1, FlatGrows
<1>5. from = Len(a) /\ k \in 0..Len(whole) /\ d = SubSeq(whole, 1, k)
  OBVIOUS
<1> HIDE DEF w, whole, a, next
<1>6. /\ Len(next) = from + Len(w) /\ from \in Nat /\ Len(w) \in Nat
      /\ \A i \in 1..Len(w) : next[from + i] = w[i]
  BY <1>2, <1>3, <1>5, JoinedIs
<1>7. d \in Seq(S) /\ Len(d) = k /\ k \in Nat /\ \A i \in 1..k : d[i] = whole[i]
  BY <1>3, <1>5, FirstOf
<1>8. r \in Seq(S) /\ Len(r) = k - from /\ \A i \in 1..(k - from) : r[i] = d[from + i]
  <2> HIDE DEF r
  <2>1. SubSeq(d, from + 1, k) \in Seq(S) /\ Len(SubSeq(d, from + 1, k)) = k - from
        /\ \A i \in 1..(k - from) : SubSeq(d, from + 1, k)[i] = d[from + i]
    BY <1>6, <1>7, PieceIs
  <2> QED
    BY <1>7, <2>1 DEF r
<1> HIDE DEF r
<1>9. ASSUME NEW i \in 1..Len(w), i <= Len(r)
      PROVE  r[i] = w[i]
  <2>1. i \in 1..(k - from) /\ from + i \in 1..k /\ from + i \in 1..Len(next)
    BY <1>6, <1>7, <1>8, <1>9
  <2>2. r[i] = d[from + i] /\ d[from + i] = whole[from + i] /\ whole[from + i] = next[from + i]
    BY <1>4, <1>7, <1>8, <2>1
  <2> QED
    BY <1>6, <2>2
<1>10. Len(r) \in Nat
  BY <1>8
<1>11. ASSUME Len(w) <= Len(r)
       PROVE  Len(next) <= k /\ \A i \in 1..Len(w) : r[i] = w[i]
  BY <1>6, <1>7, <1>8, <1>9, <1>10, <1>11
<1>12. ASSUME Len(r) < Len(w)
       PROVE  k < Len(next) /\ \A i \in 1..Len(r) : r[i] = w[i]
  BY <1>6, <1>7, <1>8, <1>9, <1>10, <1>12
<1> QED
  BY <1>6, <1>8, <1>11, <1>12 DEF BeginsWith, r, w, next

-----------------------------------------------------------------------------
(* R orders 1..n: of two numbers one is no later than the other.           *)
Orders(R, n) ==
    /\ \A i \in 1..n : <<i, i>> \in R
    /\ \A i, j \in 1..n : <<i, j>> \in R \/ <<j, i>> \in R
    /\ \A i, j \in 1..n : <<i, j>> \in R /\ <<j, i>> \in R => i = j
    /\ \A i, j, k \in 1..n : <<i, j>> \in R /\ <<j, k>> \in R => <<i, k>> \in R

(* r[i] is how many of 1..n are no later than i. *)
Ranks(R, n, r) == \A i \in 1..n : r[i] = Cardinality({j \in 1..n : <<j, i>> \in R})

(* Every number of 1..n is the rank of exactly one of 1..n. *)
Permutes(r, n) ==
    /\ \A i \in 1..n : r[i] \in 1..n
    /\ \A i, j \in 1..n : r[i] = r[j] => i = j
    /\ \A k \in 1..n : \E i \in 1..n : r[i] = k

Follows(r, R, n) == \A i, j \in 1..n : r[i] < r[j] => <<i, j>> \in R

(* The ranks are a permutation of 1..n, in the order of R.                 *)
THEOREM RanksPermute ==
    ASSUME NEW n \in Nat, NEW R, Orders(R, n), NEW r, Ranks(R, n, r)
    PROVE  Permutes(r, n) /\ Follows(r, R, n)
<1> DEFINE D == 1..n
           NoLaterThan(i) == {j \in D : <<j, i>> \in R}
<1>1. IsFiniteSet(D) /\ Cardinality(D) = n
  BY FS_Interval
<1>2. ASSUME NEW i \in D
      PROVE  IsFiniteSet(NoLaterThan(i)) /\ Cardinality(NoLaterThan(i)) \in D
  <2>1. NoLaterThan(i) \in SUBSET D /\ i \in NoLaterThan(i)
    BY DEF Orders
  <2> HIDE DEF D, NoLaterThan
  <2>2. IsFiniteSet(NoLaterThan(i)) /\ Cardinality(NoLaterThan(i)) <= n
    BY <1>1, <2>1, FS_Subset
  <2>3. Cardinality(NoLaterThan(i)) \in Nat /\ Cardinality(NoLaterThan(i)) # 0
    BY <2>1, <2>2, FS_CardinalityType, FS_EmptySet
  <2> QED
    BY <2>2, <2>3 DEF D
<1>3. ASSUME NEW i \in D, NEW j \in D, <<i, j>> \in R
      PROVE  /\ Cardinality(NoLaterThan(i)) <= Cardinality(NoLaterThan(j))
             /\ Cardinality(NoLaterThan(i)) = Cardinality(NoLaterThan(j)) => i = j
  <2>1. NoLaterThan(i) \in SUBSET NoLaterThan(j)
    BY <1>3 DEF Orders
  <2>2. /\ Cardinality(NoLaterThan(i)) <= Cardinality(NoLaterThan(j))
        /\ Cardinality(NoLaterThan(i)) = Cardinality(NoLaterThan(j))
              => NoLaterThan(i) = NoLaterThan(j)
    <3> IsFiniteSet(NoLaterThan(j))
      BY <1>2
    <3> HIDE DEF NoLaterThan, D
    <3> QED
      BY <2>1, FS_Subset
  <2>3. NoLaterThan(i) = NoLaterThan(j) => <<j, i>> \in R
    BY DEF Orders
  <2> QED
    BY <1>3, <2>2, <2>3 DEF Orders
<1>4. \A i \in D : r[i] = Cardinality(NoLaterThan(i))
  BY DEF Ranks
<1>5. \A i \in D : r[i] \in D
  <2> HIDE DEF NoLaterThan, D
  <2> QED
    BY <1>2, <1>4
<1>6. \A i, j \in D : <<i, j>> \in R => r[i] <= r[j] /\ (r[i] = r[j] => i = j)
  <2> HIDE DEF NoLaterThan, D
  <2> QED
    BY <1>3, <1>4
<1>7. \A i, j \in D : <<i, j>> \in R \/ <<j, i>> \in R
  BY DEF Orders
<1>8. \A i, j \in D : r[i] = r[j] => i = j
  BY <1>6, <1>7
<1>9. \A i, j \in D : r[i] < r[j] => <<i, j>> \in R
  <2> SUFFICES ASSUME NEW i \in D, NEW j \in D, r[i] < r[j], <<j, i>> \in R
               PROVE  FALSE
    BY <1>7
  <2>1. r[i] \in Int /\ r[j] \in Int /\ r[j] <= r[i]
    BY <1>5, <1>6
  <2> QED
    BY <2>1
<1> DEFINE f == [i \in D |-> r[i]]
<1>10. f \in Injection(D, D)
  BY <1>5, <1>8 DEF Injection, IsInjective
<1>11. f \in Surjection(D, D)
  <2> HIDE DEF f, D
  <2> QED
    BY <1>1, <1>10, FS_Injection
<1> QED
  BY <1>5, <1>8, <1>9, <1>11 DEF Surjection, Permutes, Follows

-----------------------------------------------------------------------------
(* The numbers up to n, and those of a cut of them put back together.      *)
UpTo(n) == [m \in 1..n |-> m]

LEMMA UpToIs ==
    ASSUME NEW n \in Nat
    PROVE  /\ UpTo(n) \in Seq(Nat) /\ Len(UpTo(n)) = n
           /\ \A i \in 1..n : UpTo(n)[i] = i
BY DEF UpTo

THEOREM UpToContinues ==
    ASSUME NEW m \in Nat, NEW n \in Nat, m <= n
    PROVE  UpTo(m) \o [i \in 1..(n - m) |-> m + i] = UpTo(n)
<1> DEFINE p == [i \in 1..(n - m) |-> m + i]
<1>1. p \in Seq(Nat) /\ Len(p) = n - m
  OBVIOUS
<1>2. UpTo(m) \in Seq(Nat) /\ Len(UpTo(m)) = m
  BY UpToIs
<1>3. UpTo(m) \o p \in Seq(Nat) /\ Len(UpTo(m) \o p) = n
  <2> HIDE DEF p
  <2> QED
    BY <1>1, <1>2
<1>4. ASSUME NEW i \in 1..n
      PROVE  (UpTo(m) \o p)[i] = i
  <2>1. i <= m => UpTo(m)[i] = i
    BY UpToIs
  <2>2. i > m => p[i - m] = i
    OBVIOUS
  <2> HIDE DEF p
  <2> QED
    BY <1>1, <1>2, <2>1, <2>2
<1>5. \A i \in 1..n : (UpTo(m) \o p)[i] = UpTo(n)[i]
  BY <1>4, UpToIs
<1>6. UpTo(n) \in Seq(Nat) /\ Len(UpTo(n)) = n
  BY UpToIs
<1> DEFINE q == UpTo(m) \o p
           r == UpTo(n)
<1> HIDE DEF p, q, r
<1>7. q \in Seq(Nat) /\ r \in Seq(Nat) /\ Len(q) = Len(r) /\ \A i \in 1..Len(q) : q[i] = r[i]
  BY <1>3, <1>5, <1>6 DEF q, r
<1>8. q = r
  BY <1>7, SeqEqual
<1> QED
  BY <1>8 DEF q, r, p

-----------------------------------------------------------------------------
(* Recursion: f is b at 0, and above 0 what g makes of the value at an     *)
(* earlier place, which p names; here, as far as k.                        *)
Recurses(f, k, S, b, p, g) ==
    /\ f \in [0..k -> S] /\ f[0] = b
    /\ \A n \in 1..k : f[n] = g[<<n, f[p[n]]>>]

Founded(S, b, p, g) ==
    /\ b \in S /\ g \in [Nat \X S -> S]
    /\ p \in [Nat -> Nat] /\ \A n \in Nat \ {0} : p[n] < n

LEMMA RecursesUpTo ==
    ASSUME NEW S, NEW b, NEW p, NEW g, Founded(S, b, p, g), NEW k \in Nat
    PROVE  \E f : Recurses(f, k, S, b, p, g)
<1> USE DEF Founded
<1> DEFINE T == {i \in Nat : \E f : Recurses(f, i, S, b, p, g)}
<1>1. 0 \in T
  <2>1. Recurses([i \in 0..0 |-> b], 0, S, b, p, g)
    BY DEF Recurses
  <2> QED
    BY <2>1
<1>2. ASSUME NEW i \in Nat, i \in T
      PROVE  i + 1 \in T
  <2>1. PICK f : Recurses(f, i, S, b, p, g)
    BY <1>2
  <2> DEFINE new == g[<<i + 1, f[p[i + 1]]>>]
             h == [n \in 0..i + 1 |-> IF n = i + 1 THEN new ELSE f[n]]
  <2>2. f \in [0..i -> S] /\ \A n \in 1..i + 1 : p[n] \in 0..i
    BY <2>1 DEF Recurses
  <2>3. new \in S
    <3>1. p[i + 1] \in 0..i
      BY <2>2
    <3>2. f[p[i + 1]] \in S
      BY <2>2, <3>1
    <3>3. \A x \in S : g[<<i + 1, x>>] \in S
      OBVIOUS
    <3> QED
      BY <3>2, <3>3
  <2> HIDE DEF new
  <2>4. h \in [0..i + 1 -> S] /\ h[0] = b
    BY <2>1, <2>2, <2>3 DEF Recurses
  <2>5. ASSUME NEW n \in 1..i + 1
        PROVE  h[n] = g[<<n, h[p[n]]>>]
    <3>1. p[n] \in 0..i
      BY <2>2
    <3>2. \A m \in 0..i : h[m] = f[m]
      OBVIOUS
    <3>3. CASE n \in 1..i
      <4>1. f[n] = g[<<n, f[p[n]]>>]
        BY <2>1, <3>3 DEF Recurses
      <4> HIDE DEF h
      <4> QED
        BY <3>1, <3>2, <3>3, <4>1
    <3>4. CASE n = i + 1
      <4>1. h[i + 1] = new
        OBVIOUS
      <4>2. new = g[<<i + 1, f[p[i + 1]]>>]
        BY DEF new
      <4> HIDE DEF h
      <4> QED
        BY <3>1, <3>2, <3>4, <4>1, <4>2
    <3> QED
      BY <3>3, <3>4
  <2>6. Recurses(h, i + 1, S, b, p, g)
    <3> HIDE DEF h
    <3> QED
      BY <2>4, <2>5 DEF Recurses
  <2> QED
    BY <2>6
<1> QED
  <2> HIDE DEF T
  <2>1. Nat \subseteq T
    BY <1>1, <1>2, SetInduction
  <2> QED
    BY <2>1 DEF T

LEMMA RecursesUniquely ==
    ASSUME NEW S, NEW b, NEW p, NEW g, Founded(S, b, p, g),
           NEW k \in Nat, NEW f, Recurses(f, k, S, b, p, g),
           NEW j \in Nat, NEW h, Recurses(h, j, S, b, p, g),
           NEW n \in Nat, n <= k, n <= j
    PROVE  f[n] = h[n]
<1> USE DEF Founded
<1> DEFINE T == {i \in Nat : \A m \in 0..i : m <= k /\ m <= j => f[m] = h[m]}
<1>1. 0 \in T
  BY DEF Recurses
<1>2. ASSUME NEW i \in Nat, i \in T
      PROVE  i + 1 \in T
  <2> SUFFICES ASSUME i + 1 <= k, i + 1 <= j
               PROVE  f[i + 1] = h[i + 1]
    BY <1>2
  <2>1. p[i + 1] \in 0..i
    OBVIOUS
  <2>2. f[p[i + 1]] = h[p[i + 1]]
    BY <1>2, <2>1
  <2>3. i + 1 \in 1..k /\ i + 1 \in 1..j
    OBVIOUS
  <2> QED
    BY <2>2, <2>3 DEF Recurses
<1>3. n \in T
  <2> HIDE DEF T
  <2> QED
    BY <1>1, <1>2, SetInduction
<1> QED
  BY <1>3

(* There is a function f with f[0] = b and each f[n] given by g from n and *)
(* the value at the smaller p[n]: what stands behind the loops written as  *)
(* recursive functions, such as table_size and maybe_evict_from_table.     *)
THEOREM RecursionExists ==
    ASSUME NEW S, NEW b, NEW p, NEW g, Founded(S, b, p, g)
    PROVE  \E f \in [Nat -> S] : f[0] = b /\ \A n \in Nat \ {0} : f[n] = g[<<n, f[p[n]]>>]
<1> DEFINE R(f, k) == Recurses(f, k, S, b, p, g)
           upto == [k \in Nat |-> CHOOSE f : R(f, k)]
           all == [n \in Nat |-> upto[n][n]]
<1>1. \A k \in Nat : R(upto[k], k)
  <2>1. \A k \in Nat : \E f : R(f, k)
    BY RecursesUpTo
  <2> HIDE DEF R
  <2> QED
    BY <2>1
<1>0. ASSUME NEW k \in Nat, NEW j \in Nat, NEW f, NEW h, R(f, k), R(h, j),
             NEW m \in Nat, m <= k, m <= j
      PROVE  f[m] = h[m]
  BY <1>0, RecursesUniquely
<1> USE DEF Founded
<1> HIDE DEF upto
<1>2. \A n \in Nat : all[n] \in S
  BY <1>1 DEF Recurses
<1>3. all[0] = b
  BY <1>1 DEF Recurses
<1>4. ASSUME NEW n \in Nat \ {0}
      PROVE  all[n] = g[<<n, all[p[n]]>>]
  <2>1. p[n] \in Nat /\ p[n] < n
    OBVIOUS
  <2>2. upto[n][p[n]] = upto[p[n]][p[n]]
    <3> DEFINE q == p[n]
    <3>1. R(upto[n], n) /\ R(upto[q], q) /\ q \in Nat /\ q <= n /\ n \in Nat /\ q <= q
      <4> HIDE DEF R
      <4> QED
        BY <1>1, <2>1
    <3> HIDE DEF q
    <3>3. upto[n][q] = upto[q][q]
      <4> HIDE DEF R
      <4> QED
        BY <1>0, <3>1
    <3> QED
      BY <3>3 DEF q
  <2>3. upto[n][n] = g[<<n, upto[n][p[n]]>>]
    <3>1. R(upto[n], n) /\ n \in 1..n
      <4> HIDE DEF R
      <4> QED
        BY <1>1
    <3> QED
      BY <3>1 DEF Recurses
  <2> QED
    BY <2>1, <2>2, <2>3
<1> HIDE DEF all
<1>5. all \in [Nat -> S]
  <2>1. all = [n \in Nat |-> upto[n][n]]
    BY DEF all
  <2> QED
    BY <1>2, <2>1
<1> QED
  BY <1>3, <1>4, <1>5

-----------------------------------------------------------------------------
(* A loop over a sequence s, from b on: F[n] is what g makes of the first  *)
(* n elements.                                                             *)
Scans(F, s, b, g) ==
    F = [n \in 0..Len(s) |-> IF n = 0 THEN b ELSE g[<<F[n - 1], s[n]>>]]

THEOREM ScanExists ==
    ASSUME NEW S, NEW T, NEW s \in Seq(T), NEW b \in S, NEW g \in [S \X T -> S]
    PROVE  \E F \in [0..Len(s) -> S] : Scans(F, s, b, g)
<1> DEFINE before == [n \in Nat |-> IF n = 0 THEN 0 ELSE n - 1]
           h == [x \in Nat \X S |-> IF x[1] \in 1..Len(s) THEN g[<<x[2], s[x[1]]>>] ELSE b]
<1>1. h \in [Nat \X S -> S]
  <2>1. ASSUME NEW x \in Nat \X S
        PROVE  (IF x[1] \in 1..Len(s) THEN g[<<x[2], s[x[1]]>>] ELSE b) \in S
    <3>1. x[2] \in S
      OBVIOUS
    <3>2. CASE x[1] \in 1..Len(s)
      <4>1. s[x[1]] \in T
        BY <3>2
      <4> QED
        BY <3>1, <3>2, <4>1
    <3>3. CASE x[1] \notin 1..Len(s)
      BY <3>3
    <3> QED
      BY <3>2, <3>3
  <2> QED
    BY <2>1
<1>2. \A n \in Nat, x \in S : n \in 1..Len(s) => h[<<n, x>>] = g[<<x, s[n]>>]
  OBVIOUS
<1> HIDE DEF h
<1>3. before \in [Nat -> Nat] /\ (\A n \in Nat \ {0} : before[n] < n /\ before[n] = n - 1)
  OBVIOUS
<1> HIDE DEF before
<1>4. Founded(S, b, before, h)
  BY <1>1, <1>3 DEF Founded
<1>5. PICK f \in [Nat -> S] : f[0] = b /\ \A n \in Nat \ {0} : f[n] = h[<<n, f[before[n]]>>]
  BY <1>4, RecursionExists
<1> DEFINE F == [n \in 0..Len(s) |-> f[n]]
<1>6. F \in [0..Len(s) -> S]
  BY <1>5
<1>7. ASSUME NEW n \in 0..Len(s)
      PROVE  F[n] = IF n = 0 THEN b ELSE g[<<F[n - 1], s[n]>>]
  <2>1. CASE n = 0
    BY <1>5, <2>1
  <2>2. CASE n # 0
    <3>1. n \in Nat \ {0} /\ n \in 1..Len(s) /\ n - 1 \in 0..Len(s) /\ n - 1 \in Nat /\ before[n] = n - 1
      BY <1>3, <2>2
    <3>2. F[n] = f[n] /\ F[n - 1] = f[n - 1] /\ f[n - 1] \in S
      BY <1>5, <3>1
    <3>3. f[n] = h[<<n, f[n - 1]>>]
      BY <1>5, <3>1
    <3>4. h[<<n, f[n - 1]>>] = g[<<f[n - 1], s[n]>>]
      BY <1>2, <3>1, <3>2
    <3> HIDE DEF F
    <3> QED
      BY <2>2, <3>2, <3>3, <3>4
  <2> QED
    BY <2>1, <2>2
<1>8. Scans(F, s, b, g)
  <2>1. F = [n \in 0..Len(s) |-> F[n]]
    OBVIOUS
  <2> HIDE DEF F
  <2> QED
    BY <1>7, <2>1 DEF Scans
<1> QED
  BY <1>6, <1>8
=============================================================================
