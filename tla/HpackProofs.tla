---------------------------- MODULE HpackProofs -----------------------------
(***************************************************************************)
(* The invariant of the receiving program, for all blocks of fields, all   *)
(* static tables, all capacities and all Huffman codes.  From the bottom:  *)
(* the dynamic table and the table HpackPromise describes; integers, bits, *)
(* codewords, strings and fields, of each of which is proved what it looks *)
(* like written, that it comes back whatever follows it, and that a part   *)
(* of it that ends too early is refused; a block of fields; the machine.   *)
(***************************************************************************)
EXTENDS Hpack, InductionLemmas

LEMMA EntrySizeIsNatural ==
    ASSUME NEW h \in Header
    PROVE  EntrySize(h) \in Nat /\ h[1] \in Seq(Octet) /\ h[2] \in Seq(Octet)
<1>1. h \in Seq(Seq(Octet)) /\ Len(h) = 2
  BY DEF Header
<1>2. h[1] \in Seq(Octet) /\ h[2] \in Seq(Octet)
  BY <1>1
<1>3. Len(h[1]) \in Nat /\ Len(h[2]) \in Nat
  BY <1>2
<1> DEFINE a == Len(h[1])
           b == Len(h[2])
<1>4. EntrySize(h) = a + b + 32
  BY DEF EntrySize
<1>5. a \in Nat /\ b \in Nat
  BY <1>3
<1> HIDE DEF a, b
<1> QED
  BY <1>2, <1>4, <1>5

-----------------------------------------------------------------------------
(* The size of a table, entry by entry: S is the function of TableSize.    *)
Sums(t, S) == S = [n \in 0..Len(t) |-> IF n = 0 THEN 0 ELSE S[n - 1] + EntrySize(t[n])]

LEMMA SumsExist ==
    ASSUME NEW t \in Seq(Header)
    PROVE  \E S : Sums(t, S)
<1> DEFINE size == [n \in Nat |-> IF n \in 1..Len(t) THEN EntrySize(t[n]) ELSE 0]
           before == [n \in Nat |-> IF n = 0 THEN 0 ELSE n - 1]
           add == [x \in Nat \X Nat |-> x[2] + size[x[1]]]
<1>1. size \in [Nat -> Nat]
  <2>1. ASSUME NEW n \in 1..Len(t)
        PROVE  EntrySize(t[n]) \in Nat
    BY EntrySizeIsNatural
  <2> QED
    BY <2>1
<1> HIDE DEF size
<1>2. add \in [Nat \X Nat -> Nat]
  <2>1. ASSUME NEW x \in Nat \X Nat
        PROVE  x[2] + size[x[1]] \in Nat
    <3>1. x[1] \in Nat /\ x[2] \in Nat
      OBVIOUS
    <3>2. size[x[1]] \in Nat
      BY <1>1, <3>1
    <3> QED
      BY <3>1, <3>2
  <2> QED
    BY <2>1
<1>3. Founded(Nat, 0, before, add)
  BY <1>2 DEF Founded
<1>4. \A n \in Nat, s \in Nat : add[<<n, s>>] = s + size[n]
  OBVIOUS
<1>5. PICK f \in [Nat -> Nat] : f[0] = 0 /\ \A n \in Nat \ {0} : f[n] = add[<<n, f[before[n]]>>]
  <2> HIDE DEF add, before
  <2> QED
    BY <1>3, RecursionExists
<1>6. \A n \in Nat \ {0} : f[n] = f[n - 1] + size[n]
  <2>1. \A n \in Nat \ {0} : before[n] = n - 1 /\ n - 1 \in Nat /\ f[n - 1] \in Nat
    OBVIOUS
  <2> HIDE DEF add, before
  <2> QED
    BY <1>4, <1>5, <2>1
<1> DEFINE S == [n \in 0..Len(t) |-> f[n]]
<1>7. ASSUME NEW n \in 0..Len(t)
      PROVE  S[n] = IF n = 0 THEN 0 ELSE S[n - 1] + EntrySize(t[n])
  <2>1. CASE n = 0
    BY <1>5, <2>1
  <2>2. CASE n # 0
    <3>1. n \in Nat \ {0} /\ n \in 1..Len(t) /\ n - 1 \in 0..Len(t)
      BY <2>2
    <3>2. size[n] = EntrySize(t[n])
      BY <3>1 DEF size
    <3>3. S[n] = f[n] /\ S[n - 1] = f[n - 1]
      BY <3>1
    <3> HIDE DEF S
    <3> QED
      BY <1>6, <2>2, <3>1, <3>2, <3>3
  <2> QED
    BY <2>1, <2>2
<1>8. Sums(t, S)
  BY <1>7 DEF Sums
<1> QED
  BY <1>8

LEMMA SumsAre ==
    ASSUME NEW t \in Seq(Header), NEW S, Sums(t, S)
    PROVE  /\ S[0] = 0
           /\ \A n \in 1..Len(t) : S[n] = S[n - 1] + EntrySize(t[n])
           /\ \A n \in 0..Len(t) : S[n] \in Nat
<1> DEFINE R == [n \in 0..Len(t) |-> IF n = 0 THEN 0 ELSE S[n - 1] + EntrySize(t[n])]
<1>1. S = R
  BY DEF Sums
<1>2. R[0] = 0 /\ \A n \in 1..Len(t) : R[n] = S[n - 1] + EntrySize(t[n])
  OBVIOUS
<1> HIDE DEF R
<1>3. S[0] = 0 /\ \A n \in 1..Len(t) : S[n] = S[n - 1] + EntrySize(t[n])
  BY <1>1, <1>2
<1> DEFINE T == {n \in Nat : n <= Len(t) => S[n] \in Nat}
<1>4. 0 \in T
  BY <1>3
<1>5. ASSUME NEW n \in Nat, n \in T
      PROVE  n + 1 \in T
  <2> SUFFICES ASSUME n + 1 <= Len(t) PROVE S[n + 1] \in Nat
    OBVIOUS
  <2>1. S[n] \in Nat /\ n + 1 \in 1..Len(t) /\ n + 1 - 1 = n
    BY <1>5
  <2>2. EntrySize(t[n + 1]) \in Nat
    BY <2>1, EntrySizeIsNatural
  <2> QED
    BY <1>3, <2>1, <2>2
<1>6. Nat \subseteq T
  <2> HIDE DEF T
  <2> QED
    BY <1>4, <1>5, SetInduction
<1> QED
  BY <1>3, <1>6

LEMMA SumsAgree ==
    ASSUME NEW t \in Seq(Header), NEW S, Sums(t, S), NEW u \in Seq(Header), NEW U, Sums(u, U),
           NEW k \in Nat, k <= Len(t), k <= Len(u), \A n \in 1..k : t[n] = u[n]
    PROVE  S[k] = U[k]
<1> DEFINE T == {n \in Nat : n <= k => S[n] = U[n]}
<1>1. 0 \in T
  BY SumsAre
<1>2. ASSUME NEW n \in Nat, n \in T
      PROVE  n + 1 \in T
  <2> SUFFICES ASSUME n + 1 <= k PROVE S[n + 1] = U[n + 1]
    OBVIOUS
  <2>1. S[n] = U[n] /\ n + 1 \in 1..Len(t) /\ n + 1 \in 1..Len(u) /\ n + 1 - 1 = n /\ t[n + 1] = u[n + 1]
    BY <1>2
  <2>2. S[n + 1] = S[n] + EntrySize(t[n + 1]) /\ U[n + 1] = U[n] + EntrySize(u[n + 1])
    BY <2>1, SumsAre
  <2> QED
    BY <2>1, <2>2
<1>3. Nat \subseteq T
  <2> HIDE DEF T
  <2> QED
    BY <1>1, <1>2, SetInduction
<1> QED
  BY <1>3

LEMMA TableSizeIs ==
    ASSUME NEW t \in Seq(Header), NEW S, Sums(t, S)
    PROVE  TableSize(t) = S[Len(t)]
<1> DEFINE R == CHOOSE U : Sums(t, U)
<1>1. TableSize(t) = R[Len(t)]
  BY DEF TableSize, Sums
<1>2. Sums(t, R)
  OBVIOUS
<1> HIDE DEF R
<1> QED
  BY <1>1, <1>2, SumsAgree

(* The size of the n newest entries.                                       *)
SizeOf(t, n) == TableSize(SubSeq(t, 1, n))

LEMMA SizeOfIs ==
    ASSUME NEW t \in Seq(Header)
    PROVE  /\ SizeOf(t, 0) = 0 /\ SizeOf(t, Len(t)) = TableSize(t)
           /\ \A n \in 1..Len(t) : SizeOf(t, n) = SizeOf(t, n - 1) + EntrySize(t[n])
           /\ \A n \in 0..Len(t) : SizeOf(t, n) \in Nat
<1>1. PICK S : Sums(t, S)
  BY SumsExist
<1>2. ASSUME NEW n \in 0..Len(t)
      PROVE  SizeOf(t, n) = S[n]
  <2> DEFINE u == SubSeq(t, 1, n)
  <2>1. u \in Seq(Header) /\ Len(u) = n /\ \A i \in 1..n : u[i] = t[i]
    BY FirstOf
  <2> HIDE DEF u
  <2>2. PICK U : Sums(u, U)
    BY <2>1, SumsExist
  <2>3. TableSize(u) = U[n]
    BY <2>1, <2>2, TableSizeIs
  <2>4. U[n] = S[n]
    BY <1>1, <2>1, <2>2, SumsAgree
  <2> QED
    BY <2>3, <2>4 DEF SizeOf, u
<1>3. SubSeq(t, 1, Len(t)) = t /\ Len(t) \in Nat
  BY FirstOf
<1>4. \A n \in 1..Len(t) : n - 1 \in 0..Len(t) /\ n \in 0..Len(t)
  OBVIOUS
<1>5. /\ S[0] = 0
      /\ \A n \in 1..Len(t) : S[n] = S[n - 1] + EntrySize(t[n])
      /\ \A n \in 0..Len(t) : S[n] \in Nat
  BY <1>1, SumsAre
<1>6. SizeOf(t, Len(t)) = TableSize(t)
  BY <1>3 DEF SizeOf
<1> QED
  BY <1>2, <1>3, <1>4, <1>5, <1>6

LEMMA Prepended ==
    ASSUME NEW S, NEW h \in S, NEW t \in Seq(S)
    PROVE  /\ <<h>> \o t \in Seq(S) /\ Len(<<h>> \o t) = Len(t) + 1
           /\ (<<h>> \o t)[1] = h
           /\ \A i \in 1..Len(t) : (<<h>> \o t)[i + 1] = t[i]
OBVIOUS

(* A new entry adds its size to that of those behind it.                   *)
LEMMA SizeWithNewest ==
    ASSUME NEW h \in Header, NEW t \in Seq(Header), NEW n \in 0..Len(t)
    PROVE  SizeOf(<<h>> \o t, n + 1) = EntrySize(h) + SizeOf(t, n)
<1> DEFINE u == <<h>> \o t
           T == {k \in Nat : k <= Len(t) => SizeOf(u, k + 1) = EntrySize(h) + SizeOf(t, k)}
<1>1. u \in Seq(Header) /\ Len(u) = Len(t) + 1 /\ u[1] = h /\ \A i \in 1..Len(t) : u[i + 1] = t[i]
  BY Prepended
<1> HIDE DEF u
<1>2. EntrySize(h) \in Nat /\ Len(t) \in Nat
  BY EntrySizeIsNatural
<1>3. 0 \in T
  <2>1. 1 \in 1..Len(u) /\ 1 - 1 = 0
    BY <1>1, <1>2
  <2>2. SizeOf(u, 1) = SizeOf(u, 0) + EntrySize(u[1]) /\ SizeOf(u, 0) = 0 /\ SizeOf(t, 0) = 0
    BY <1>1, <2>1, SizeOfIs
  <2> QED
    BY <1>1, <1>2, <2>2
<1>4. ASSUME NEW k \in Nat, k \in T
      PROVE  k + 1 \in T
  <2> SUFFICES ASSUME k + 1 <= Len(t)
               PROVE  SizeOf(u, k + 2) = EntrySize(h) + SizeOf(t, k + 1)
    BY <1>2
  <2>1. /\ k + 2 \in 1..Len(u) /\ k + 2 - 1 = k + 1 /\ k + 1 \in 1..Len(t) /\ k + 1 - 1 = k
        /\ k \in 0..Len(t) /\ u[k + 2] = t[k + 1] /\ k + 1 + 1 = k + 2
    BY <1>1, <1>2
  <2>2. SizeOf(u, k + 2) = SizeOf(u, k + 1) + EntrySize(u[k + 2])
    <3>1. \A i \in 1..Len(u) : SizeOf(u, i) = SizeOf(u, i - 1) + EntrySize(u[i])
      BY <1>1, SizeOfIs
    <3>2. SizeOf(u, k + 2) = SizeOf(u, k + 2 - 1) + EntrySize(u[k + 2])
      BY <2>1, <3>1
    <3> QED
      BY <2>1, <3>2
  <2>3. SizeOf(t, k + 1) = SizeOf(t, k) + EntrySize(t[k + 1]) /\ SizeOf(t, k) \in Nat
    BY <2>1, SizeOfIs
  <2>4. SizeOf(u, k + 1) = EntrySize(h) + SizeOf(t, k)
    BY <1>4, <2>1
  <2>5. EntrySize(t[k + 1]) \in Nat
    BY <2>1, EntrySizeIsNatural
  <2> QED
    BY <1>2, <2>1, <2>2, <2>3, <2>4, <2>5
<1>5. Nat \subseteq T
  <2> HIDE DEF T
  <2> QED
    BY <1>3, <1>4, SetInduction
<1> QED
  BY <1>5 DEF u

-----------------------------------------------------------------------------
(* Eviction keeps the newest entries that fit: E is its function.          *)
Evicts(t, room, E) ==
    E = [n \in 0..Len(t) |-> IF SizeOf(t, n) > room THEN E[n - 1] ELSE SubSeq(t, 1, n)]

(* n is the largest number of newest entries that fit.                     *)
Keeps(t, room, n) ==
    /\ n \in 0..Len(t) /\ SizeOf(t, n) <= room
    /\ \A m \in 0..Len(t) : SizeOf(t, m) <= room => m <= n

LEMMA EvictsExists ==
    ASSUME NEW t \in Seq(Header), NEW room \in Nat
    PROVE  \E E : Evicts(t, room, E)
<1> DEFINE before == [n \in Nat |-> IF n = 0 THEN 0 ELSE n - 1]
           fits(n) == n \in 0..Len(t) /\ SizeOf(t, n) <= room
           first == [n \in Nat |-> IF n \in 0..Len(t) THEN SubSeq(t, 1, n) ELSE <<>>]
           S == Seq(Header)
           pop == [x \in Nat \X S |-> IF fits(x[1]) THEN first[x[1]] ELSE x[2]]
<1>1. first \in [Nat -> S]
  <2>1. \A n \in 0..Len(t) : SubSeq(t, 1, n) \in S
    BY FirstOf
  <2>2. <<>> \in S
    OBVIOUS
  <2> HIDE DEF S
  <2> QED
    BY <2>1, <2>2
<1>2. Founded(S, <<>>, before, pop)
  <2>1. <<>> \in S
    OBVIOUS
  <2> HIDE DEF first, fits, S
  <2>2. ASSUME NEW x \in Nat \X S
        PROVE  (IF fits(x[1]) THEN first[x[1]] ELSE x[2]) \in S
    <3>1. x[1] \in Nat /\ x[2] \in S
      OBVIOUS
    <3>2. first[x[1]] \in S
      BY <1>1, <3>1
    <3> QED
      BY <3>1, <3>2
  <2>3. pop \in [Nat \X S -> S]
    BY <2>2
  <2> HIDE DEF pop
  <2>4. before \in [Nat -> Nat] /\ \A n \in Nat \ {0} : before[n] < n
    OBVIOUS
  <2> QED
    BY <2>1, <2>3, <2>4 DEF Founded
<1>3. PICK f \in [Nat -> S] : f[0] = <<>> /\ \A n \in Nat \ {0} : f[n] = pop[<<n, f[before[n]]>>]
  <2> HIDE DEF pop, before, S
  <2> QED
    BY <1>2, RecursionExists
<1>4. ASSUME NEW n \in Nat \ {0}
      PROVE  f[n] = IF fits(n) THEN first[n] ELSE f[n - 1]
  <2> HIDE DEF first, fits, S
  <2>1. before[n] = n - 1 /\ f[n - 1] \in S
    OBVIOUS
  <2>2. f[n] = pop[<<n, f[n - 1]>>]
    <3> HIDE DEF before, pop
    <3> QED
      BY <1>3, <2>1
  <2>3. \A s \in S : pop[<<n, s>>] = IF fits(n) THEN first[n] ELSE s
    OBVIOUS
  <2> HIDE DEF pop
  <2> QED
    BY <2>1, <2>2, <2>3
<1> DEFINE E == [n \in 0..Len(t) |-> f[n]]
<1>5. ASSUME NEW n \in 0..Len(t)
      PROVE  E[n] = IF SizeOf(t, n) > room THEN E[n - 1] ELSE SubSeq(t, 1, n)
  <2>1. SizeOf(t, n) \in Nat /\ SizeOf(t, 0) = 0
    BY SizeOfIs
  <2>2. CASE n = 0
    <3>1. E[0] = <<>> /\ SubSeq(t, 1, 0) = <<>>
      BY <1>3, FirstOf
    <3> HIDE DEF E
    <3> QED
      BY <2>1, <2>2, <3>1
  <2>3. CASE n # 0
    <3>1. n \in Nat \ {0} /\ n - 1 \in 0..Len(t)
      BY <2>3
    <3>2. E[n] = f[n] /\ E[n - 1] = f[n - 1]
      BY <3>1
    <3>3. first[n] = SubSeq(t, 1, n)
      OBVIOUS
    <3>4. f[n] = IF fits(n) THEN first[n] ELSE f[n - 1]
      BY <1>4, <3>1
    <3>5. CASE SizeOf(t, n) <= room
      <4>1. f[n] = first[n] /\ ~(SizeOf(t, n) > room)
        BY <2>1, <3>4, <3>5
      <4> HIDE DEF E, first
      <4> QED
        BY <3>2, <3>3, <4>1
    <3>6. CASE SizeOf(t, n) > room
      <4>1. f[n] = f[n - 1]
        BY <2>1, <3>4, <3>6
      <4> HIDE DEF E, first
      <4> QED
        BY <3>2, <3>6, <4>1
    <3> HIDE DEF E, first
    <3> QED
      BY <2>1, <3>5, <3>6
  <2> QED
    BY <2>2, <2>3
<1>6. Evicts(t, room, E)
  <2>1. E = [n \in 0..Len(t) |-> E[n]]
    OBVIOUS
  <2> HIDE DEF E
  <2> QED
    BY <1>5, <2>1 DEF Evicts
<1> QED
  BY <1>6

(* From n down, the first number that fits.                                *)
LEMMA EvictsTo ==
    ASSUME NEW t \in Seq(Header), NEW room \in Nat, NEW E, Evicts(t, room, E), NEW n \in 0..Len(t)
    PROVE  \E k \in 0..n : /\ E[n] = SubSeq(t, 1, k) /\ SizeOf(t, k) <= room
                           /\ \A m \in 0..n : SizeOf(t, m) <= room => m <= k
<1> DEFINE P(i) == \E k \in 0..i : /\ E[i] = SubSeq(t, 1, k) /\ SizeOf(t, k) <= room
                                   /\ \A m \in 0..i : SizeOf(t, m) <= room => m <= k
           T == {i \in Nat : i <= Len(t) => P(i)}
<1>1. \A i \in 0..Len(t) : E[i] = IF SizeOf(t, i) > room THEN E[i - 1] ELSE SubSeq(t, 1, i)
  <2> DEFINE R == [i \in 0..Len(t) |-> IF SizeOf(t, i) > room THEN E[i - 1] ELSE SubSeq(t, 1, i)]
  <2>1. E = R
    BY DEF Evicts
  <2>2. \A i \in 0..Len(t) : R[i] = IF SizeOf(t, i) > room THEN E[i - 1] ELSE SubSeq(t, 1, i)
    OBVIOUS
  <2> HIDE DEF R
  <2> QED
    BY <2>1, <2>2
<1>2. SizeOf(t, 0) = 0 /\ \A i \in 0..Len(t) : SizeOf(t, i) \in Nat
  BY SizeOfIs
<1>3. 0 \in T
  <2>1. 0 \in 0..Len(t)
    OBVIOUS
  <2>2. E[0] = IF SizeOf(t, 0) > room THEN E[0 - 1] ELSE SubSeq(t, 1, 0)
    BY <1>1, <2>1
  <2>3. SizeOf(t, 0) <= room /\ ~(SizeOf(t, 0) > room)
    BY <1>2
  <2>4. E[0] = SubSeq(t, 1, 0)
    BY <2>2, <2>3
  <2>5. P(0)
    BY <2>3, <2>4
  <2> QED
    BY <2>5
<1>4. ASSUME NEW i \in Nat, i \in T
      PROVE  i + 1 \in T
  <2> SUFFICES ASSUME i + 1 <= Len(t) PROVE P(i + 1)
    OBVIOUS
  <2>1. i + 1 \in 0..Len(t) /\ i + 1 - 1 = i /\ SizeOf(t, i + 1) \in Nat
    BY <1>2
  <2>4. E[i + 1] = IF SizeOf(t, i + 1) > room THEN E[i] ELSE SubSeq(t, 1, i + 1)
    <3>1. E[i + 1] = IF SizeOf(t, i + 1) > room THEN E[i + 1 - 1] ELSE SubSeq(t, 1, i + 1)
      BY <1>1, <2>1
    <3> QED
      BY <2>1, <3>1
  <2>2. CASE SizeOf(t, i + 1) > room
    <3>1. E[i + 1] = E[i] /\ ~(SizeOf(t, i + 1) <= room)
      BY <2>1, <2>2, <2>4
    <3>2. PICK k \in 0..i : /\ E[i] = SubSeq(t, 1, k) /\ SizeOf(t, k) <= room
                            /\ \A m \in 0..i : SizeOf(t, m) <= room => m <= k
      BY <1>4
    <3>3. k \in 0..i + 1 /\ \A m \in 0..i + 1 : m \in 0..i \/ m = i + 1
      OBVIOUS
    <3> QED
      BY <3>1, <3>2, <3>3
  <2>3. CASE SizeOf(t, i + 1) <= room
    <3>1. ~(SizeOf(t, i + 1) > room)
      BY <2>1, <2>3
    <3>2. E[i + 1] = SubSeq(t, 1, i + 1)
      BY <2>4, <3>1
    <3> QED
      BY <2>3, <3>2
  <2> QED
    BY <2>1, <2>2, <2>3
<1>5. Nat \subseteq T
  <2> HIDE DEF T
  <2> QED
    BY <1>3, <1>4, SetInduction
<1> QED
  BY <1>5

LEMMA EvictedKeeps ==
    ASSUME NEW t \in Seq(Header), NEW room \in Nat
    PROVE  \E n : Keeps(t, room, n) /\ Evicted(t, room) = SubSeq(t, 1, n)
<1> DEFINE R == CHOOSE E : Evicts(t, room, E)
<1>1. Evicted(t, room) = R[Len(t)]
  BY DEF Evicted, Evicts, SizeOf
<1>2. Evicts(t, room, R)
  BY EvictsExists
<1> HIDE DEF R
<1>3. Len(t) \in 0..Len(t)
  OBVIOUS
<1>4. PICK k \in 0..Len(t) : /\ R[Len(t)] = SubSeq(t, 1, k) /\ SizeOf(t, k) <= room
                             /\ \A m \in 0..Len(t) : SizeOf(t, m) <= room => m <= k
  BY <1>2, <1>3, EvictsTo
<1> QED
  BY <1>1, <1>4 DEF Keeps

-----------------------------------------------------------------------------
(* The promise's table.                                                    *)
LEMMA PromisedSize ==
    ASSUME NEW t, NEW n
    PROVE  Promise!PSize(SubSeq(t, 1, n)) = SizeOf(t, n)
BY DEF Promise!PSize, SizeOf, TableSize

LEMMA NewestKeeps ==
    ASSUME NEW t \in Seq(Header), NEW room \in Nat, NEW n, Keeps(t, room, n)
    PROVE  Promise!Newest(t, room) = SubSeq(t, 1, n)
<1> DEFINE fitting == {m \in 0..Len(t) : Promise!PSize(SubSeq(t, 1, m)) <= room}
           k == CHOOSE i \in fitting : \A m \in fitting : m <= i
<1>1. fitting = {m \in 0..Len(t) : SizeOf(t, m) <= room}
  BY PromisedSize
<1>2. Promise!Newest(t, room) = SubSeq(t, 1, k)
  BY DEF Promise!Newest
<1> HIDE DEF fitting
<1>3. n \in fitting /\ \A m \in fitting : m <= n
  BY <1>1 DEF Keeps
<1>4. k \in fitting /\ \A m \in fitting : m <= k
  BY <1>3
<1> HIDE DEF k
<1>5. k = n
  BY <1>1, <1>3, <1>4
<1> QED
  BY <1>2, <1>5

LEMMA EvictedIsNewest ==
    ASSUME NEW t \in Seq(Header), NEW room \in Nat
    PROVE  Evicted(t, room) = Promise!Newest(t, room)
<1>1. PICK n : Keeps(t, room, n) /\ Evicted(t, room) = SubSeq(t, 1, n)
  BY EvictedKeeps
<1> QED
  BY <1>1, NewestKeeps

(* First in, then out: as if room had been made first.                     *)
LEMMA EvictedIsInserted ==
    ASSUME NEW h \in Header, table \in Seq(Header), capacity \in Nat
    PROVE  Evicted(<<h>> \o table, capacity) = Promise!Inserted(h)
<1> DEFINE t == table
           u == <<h>> \o t
           size == EntrySize(h)
<1>1. /\ u \in Seq(Header) /\ Len(u) = Len(t) + 1 /\ u[1] = h /\ t \in Seq(Header)
      /\ \A i \in 1..Len(t) : u[i + 1] = t[i]
  BY Prepended
<1>2. \A n \in 0..Len(t) : SizeOf(u, n + 1) = size + SizeOf(t, n) /\ SizeOf(t, n) \in Nat
  BY SizeWithNewest, SizeOfIs
<1>3. size \in Nat /\ Len(t) \in Nat /\ SizeOf(t, 0) = 0
  BY EntrySizeIsNatural, SizeOfIs
<1>4. Promise!Inserted(h) = IF size > capacity THEN <<>> ELSE <<h>> \o Promise!Newest(t, capacity - size)
  BY DEF Promise!Inserted
<1> HIDE DEF t, u, size
<1>5. PICK n : Keeps(u, capacity, n) /\ Evicted(u, capacity) = SubSeq(u, 1, n)
  BY <1>1, EvictedKeeps
<1>6. n \in 0..Len(t) + 1 /\ SizeOf(u, n) <= capacity
  BY <1>1, <1>5 DEF Keeps
<1>7. CASE size > capacity
  <2>1. n = 0
    <3> SUFFICES ASSUME n # 0 PROVE FALSE
      OBVIOUS
    <3> DEFINE m == n - 1
    <3>1. m \in 0..Len(t) /\ m + 1 = n
      BY <1>3, <1>6
    <3> HIDE DEF m
    <3>2. SizeOf(u, n) = size + SizeOf(t, m) /\ SizeOf(t, m) \in Nat
      BY <1>2, <3>1
    <3> QED
      BY <1>3, <1>6, <1>7, <3>2
  <2>2. SubSeq(u, 1, 0) = <<>>
    BY <1>1, FirstOf
  <2> QED
    BY <1>4, <1>5, <1>7, <2>1, <2>2 DEF t, u
<1>8. CASE size <= capacity
  <2> DEFINE m == n - 1
             room == capacity - size
  <2>1. SizeOf(u, 1) = size
    <3>1. 0 \in 0..Len(t) /\ 0 + 1 = 1
      BY <1>3
    <3>2. SizeOf(u, 0 + 1) = size + SizeOf(t, 0)
      BY <1>2, <3>1
    <3> QED
      BY <1>3, <3>1, <3>2
  <2>2. n >= 1
    <3>1. 1 \in 0..Len(u)
      BY <1>1, <1>3
    <3> QED
      BY <1>5, <1>8, <2>1, <3>1 DEF Keeps
  <2>3. m \in 0..Len(t) /\ m + 1 = n /\ room \in Nat
    BY <1>3, <1>6, <1>8, <2>2
  <2>4. SizeOf(t, m) <= room
    <3> HIDE DEF m
    <3>1. SizeOf(u, n) = size + SizeOf(t, m) /\ SizeOf(t, m) \in Nat
      BY <1>2, <2>3
    <3> QED
      BY <1>3, <1>6, <3>1
  <2>5. ASSUME NEW i \in 0..Len(t), SizeOf(t, i) <= room
        PROVE  i <= m
    <3>1. SizeOf(u, i + 1) = size + SizeOf(t, i) /\ SizeOf(t, i) \in Nat /\ i + 1 \in 0..Len(u)
      BY <1>1, <1>2, <1>3
    <3>2. SizeOf(u, i + 1) <= capacity
      BY <1>3, <2>5, <3>1
    <3>3. i + 1 <= n
      BY <1>5, <3>1, <3>2 DEF Keeps
    <3> QED
      BY <1>6, <3>3
  <2> HIDE DEF m, room
  <2>6. Keeps(t, room, m)
    BY <2>3, <2>4, <2>5 DEF Keeps
  <2>7. Promise!Newest(t, room) = SubSeq(t, 1, m)
    BY <1>1, <2>3, <2>6, NewestKeeps
  <2>8. SubSeq(u, 1, n) = <<h>> \o SubSeq(t, 1, m)
    <3> DEFINE a == SubSeq(u, 1, n)
               b == SubSeq(t, 1, m)
               c == <<h>> \o b
    <3>1. a \in Seq(Header) /\ Len(a) = n /\ \A i \in 1..n : a[i] = u[i]
      BY <1>1, <1>3, <1>6, FirstOf
    <3>2. b \in Seq(Header) /\ Len(b) = m /\ \A i \in 1..m : b[i] = t[i]
      BY <1>1, <2>3, FirstOf
    <3> HIDE DEF a, b
    <3>3. c \in Seq(Header) /\ Len(c) = m + 1 /\ c[1] = h /\ \A i \in 1..m : c[i + 1] = b[i]
      BY <3>2, Prepended
    <3> HIDE DEF c
    <3>4. ASSUME NEW i \in 1..n
          PROVE  a[i] = c[i]
      <4>1. CASE i = 1
        BY <1>1, <2>2, <2>3, <3>1, <3>3, <4>1
      <4>2. CASE i # 1
        <5> DEFINE j == i - 1
        <5>1. j \in 1..m /\ j + 1 = i /\ j \in 1..Len(t)
          BY <2>3, <4>2
        <5> HIDE DEF j
        <5> QED
          BY <1>1, <3>1, <3>2, <3>3, <5>1
      <4> QED
        BY <4>1, <4>2
    <3>5. a = c
      BY <2>3, <3>1, <3>3, <3>4, SeqEqual
    <3> QED
      BY <3>5 DEF a, b, c
  <2>9. ~(size > capacity)
    BY <1>3, <1>8
  <2>10. Promise!Inserted(h) = <<h>> \o Promise!Newest(t, room)
    BY <1>4, <2>9, Zenon DEF room
  <2>11. Evicted(u, capacity) = Promise!Inserted(h)
    BY <1>5, <2>7, <2>8, <2>10
  <2> QED
    BY <2>11 DEF t, u
<1>9. size > capacity \/ size <= capacity
  BY <1>3
<1> QED
  BY <1>7, <1>8, <1>9, Zenon

-----------------------------------------------------------------------------
(* Integers.  The digits of a number end with the first octet below 128.   *)
Ended(s) ==
    /\ s \in Seq(Octet) /\ Len(s) >= 1 /\ s[Len(s)] < 128
    /\ \A i \in 1..Len(s) : i < Len(s) => s[i] >= 128

DigitsFrom(D) ==
    D = [v \in Nat |-> IF v < 128 THEN <<v>> ELSE <<128 + (v % 128)>> \o D[v \div 128]]

LEMMA Divided ==
    ASSUME NEW v \in Nat
    PROVE  /\ v \div 128 \in Nat /\ v % 128 \in 0..127 /\ v = (v % 128) + 128 * (v \div 128)
           /\ v # 0 => v \div 128 < v
           /\ 128 + (v % 128) \in Octet /\ 128 + (v % 128) >= 128 /\ (128 + (v % 128)) % 128 = v % 128
BY DEF Octet

LEMMA DigitsExist == \E D : DigitsFrom(D)
<1> DEFINE S == Seq(Octet)
           less == [v \in Nat |-> v \div 128]
           digit == [x \in Nat \X S |-> IF x[1] < 128 THEN <<x[1]>> ELSE <<128 + (x[1] % 128)>> \o x[2]]
<1>1. less \in [Nat -> Nat] /\ \A v \in Nat \ {0} : less[v] < v
  BY Divided
<1>2. \A v \in Nat : v < 128 => <<v>> \in S
  BY DEF Octet
<1>3. \A v \in Nat, s \in S : <<128 + (v % 128)>> \o s \in S
  <2> SUFFICES ASSUME NEW v \in Nat, NEW s \in S PROVE <<128 + (v % 128)>> \o s \in S
    OBVIOUS
  <2> DEFINE o == 128 + (v % 128)
  <2>1. o \in Octet
    BY Divided
  <2> HIDE DEF o
  <2>2. <<o>> \o s \in Seq(Octet)
    BY <2>1
  <2> QED
    BY <2>2 DEF o
<1>4. <<0>> \in S
  BY DEF Octet
<1> HIDE DEF S
<1>5. digit \in [Nat \X S -> S]
  <2>1. ASSUME NEW x \in Nat \X S
        PROVE  (IF x[1] < 128 THEN <<x[1]>> ELSE <<128 + (x[1] % 128)>> \o x[2]) \in S
    <3>1. x[1] \in Nat /\ x[2] \in S
      OBVIOUS
    <3> QED
      BY <1>2, <1>3, <3>1
  <2> QED
    BY <2>1
<1>6. \A v \in Nat, s \in S : digit[<<v, s>>] = IF v < 128 THEN <<v>> ELSE <<128 + (v % 128)>> \o s
  OBVIOUS
<1>7. \A v \in Nat : less[v] = v \div 128
  OBVIOUS
<1> HIDE DEF less, digit
<1>8. Founded(S, <<0>>, less, digit)
  BY <1>1, <1>4, <1>5 DEF Founded
<1>9. PICK f \in [Nat -> S] : f[0] = <<0>> /\ \A v \in Nat \ {0} : f[v] = digit[<<v, f[less[v]]>>]
  BY <1>8, RecursionExists
<1>10. ASSUME NEW v \in Nat
       PROVE  f[v] = IF v < 128 THEN <<v>> ELSE <<128 + (v % 128)>> \o f[v \div 128]
  <2>1. CASE v = 0
    BY <1>9, <2>1
  <2>2. CASE v # 0
    <3>1. v \div 128 \in Nat /\ f[v \div 128] \in S
      BY Divided
    <3>2. f[v] = digit[<<v, f[v \div 128]>>]
      BY <1>7, <1>9, <2>2
    <3> QED
      BY <1>6, <3>1, <3>2
  <2> QED
    BY <2>1, <2>2
<1>11. f = [v \in Nat |-> f[v]]
  OBVIOUS
<1>12. DigitsFrom(f)
  BY <1>10, <1>11 DEF DigitsFrom
<1> QED
  BY <1>12

LEMMA DigitsAre ==
    ASSUME NEW v \in Nat
    PROVE  /\ v < 128 => Digits[v] = <<v>>
           /\ v >= 128 => Digits[v] = <<128 + (v % 128)>> \o Digits[v \div 128]
<1> DEFINE D == CHOOSE f : DigitsFrom(f)
           R == [n \in Nat |-> IF n < 128 THEN <<n>> ELSE <<128 + (n % 128)>> \o D[n \div 128]]
<1>1. Digits = D
  BY DEF Digits, DigitsFrom
<1>2. DigitsFrom(D)
  BY DigitsExist
<1>3. D = R
  <2> HIDE DEF D
  <2> QED
    BY <1>2 DEF DigitsFrom
<1> HIDE DEF D
<1>4. R[v] = IF v < 128 THEN <<v>> ELSE <<128 + (v % 128)>> \o D[v \div 128]
  OBVIOUS
<1> HIDE DEF R
<1>5. Digits[v] = IF v < 128 THEN <<v>> ELSE <<128 + (v % 128)>> \o Digits[v \div 128]
  BY <1>1, <1>3, <1>4
<1> QED
  BY <1>5

LEMMA EndsAfter ==
    ASSUME NEW o \in Octet, o >= 128, NEW s, Ended(s)
    PROVE  Ended(<<o>> \o s)
<1> DEFINE t == <<o>> \o s
<1>1. t \in Seq(Octet) /\ Len(t) = Len(s) + 1 /\ t[1] = o /\ \A i \in 1..Len(s) : t[i + 1] = s[i]
  BY Prepended DEF Ended
<1>2. Len(s) \in Nat /\ Len(s) >= 1
  BY DEF Ended
<1> HIDE DEF t
<1>3. t[Len(t)] < 128
  BY <1>1, <1>2 DEF Ended
<1>4. ASSUME NEW i \in 1..Len(t), i < Len(t)
      PROVE  t[i] >= 128
  <2>1. CASE i = 1
    BY <1>1, <2>1
  <2>2. CASE i # 1
    <3> DEFINE j == i - 1
    <3>1. j \in 1..Len(s) /\ j < Len(s) /\ j + 1 = i
      BY <1>1, <1>2, <1>4, <2>2
    <3> HIDE DEF j
    <3>2. s[j] >= 128
      BY <3>1 DEF Ended
    <3> QED
      BY <1>1, <3>1, <3>2
  <2> QED
    BY <2>1, <2>2
<1>5. Ended(t)
  BY <1>1, <1>2, <1>3, <1>4 DEF Ended
<1> QED
  BY <1>5 DEF t

LEMMA DigitsEnd ==
    ASSUME NEW v \in Nat
    PROVE  Ended(Digits[v])
<1> DEFINE T == {n \in Nat : \A m \in 0..n : Ended(Digits[m])}
<1>1. \A m \in Nat : m < 128 => Ended(Digits[m])
  <2> SUFFICES ASSUME NEW m \in Nat, m < 128 PROVE Ended(<<m>>)
    BY DigitsAre
  <2> QED
    BY DEF Ended, Octet
<1>2. 0 \in T
  BY <1>1
<1>3. ASSUME NEW n \in Nat, n \in T
      PROVE  n + 1 \in T
  <2> SUFFICES ASSUME n + 1 >= 128 PROVE Ended(Digits[n + 1])
    BY <1>1, <1>3
  <2> DEFINE m == n + 1
             o == 128 + (m % 128)
             q == m \div 128
  <2>1. m \in Nat /\ m # 0 /\ m >= 128
    OBVIOUS
  <2> HIDE DEF m
  <2>2. o \in Octet /\ o >= 128 /\ q \in Nat /\ q < m
    BY <2>1, Divided
  <2>3. Digits[m] = <<o>> \o Digits[q]
    BY <2>1, DigitsAre
  <2> HIDE DEF o, q
  <2>4. q \in 0..n
    BY <2>2 DEF m
  <2>5. Ended(Digits[q])
    BY <1>3, <2>4
  <2>6. Ended(Digits[m])
    BY <2>2, <2>3, <2>5, EndsAfter
  <2> QED
    BY <2>6 DEF m
<1>4. Nat \subseteq T
  <2> HIDE DEF T
  <2> QED
    BY <1>2, <1>3, SetInduction
<1> QED
  BY <1>4

(* What octets stand for, from the last to the first: V is the function of *)
(* Value, and Low(s, k) the seven bits of the k-th octet from the end.     *)
Low(s, k) == s[Len(s) - k + 1] % 128

Values(s, V) == V = [k \in 0..Len(s) |-> IF k = 0 THEN 0 ELSE Low(s, k) + 128 * V[k - 1]]

LEMMA LowIs ==
    ASSUME NEW s \in Seq(Octet), NEW k \in 1..Len(s)
    PROVE  Low(s, k) \in 0..127 /\ Low(s, k) \in Nat
<1> DEFINE i == Len(s) - k + 1
<1>1. i \in 1..Len(s)
  OBVIOUS
<1> HIDE DEF i
<1>2. s[i] \in Octet
  BY <1>1
<1>3. \A x \in 0..255 : x % 128 \in 0..127
  OBVIOUS
<1>4. s[i] % 128 \in 0..127
  BY <1>2, <1>3 DEF Octet
<1>5. Low(s, k) = s[i] % 128
  BY DEF Low, i
<1>6. Low(s, k) \in 0..127
  BY <1>4, <1>5, Zenon
<1>7. \A x \in 0..127 : x \in Nat
  OBVIOUS
<1> QED
  BY <1>6, <1>7

LEMMA ValuesExist ==
    ASSUME NEW s \in Seq(Octet)
    PROVE  \E V : Values(s, V)
<1> DEFINE low == [k \in Nat |-> IF k \in 1..Len(s) THEN Low(s, k) ELSE 0]
           before == [k \in Nat |-> IF k = 0 THEN 0 ELSE k - 1]
           add == [x \in Nat \X Nat |-> low[x[1]] + 128 * x[2]]
<1>1. low \in [Nat -> Nat]
  <2>1. \A k \in 1..Len(s) : Low(s, k) \in Nat
    BY LowIs
  <2> QED
    BY <2>1
<1> HIDE DEF low
<1>2. add \in [Nat \X Nat -> Nat]
  <2>1. ASSUME NEW x \in Nat \X Nat
        PROVE  low[x[1]] + 128 * x[2] \in Nat
    <3>1. x[1] \in Nat /\ x[2] \in Nat
      OBVIOUS
    <3>2. low[x[1]] \in Nat
      BY <1>1, <3>1
    <3> QED
      BY <3>1, <3>2
  <2> QED
    BY <2>1
<1>3. Founded(Nat, 0, before, add)
  BY <1>2 DEF Founded
<1>4. \A n \in Nat, v \in Nat : add[<<n, v>>] = low[n] + 128 * v
  OBVIOUS
<1>5. PICK f \in [Nat -> Nat] : f[0] = 0 /\ \A n \in Nat \ {0} : f[n] = add[<<n, f[before[n]]>>]
  <2> HIDE DEF add, before
  <2> QED
    BY <1>3, RecursionExists
<1>6. \A n \in Nat \ {0} : f[n] = low[n] + 128 * f[n - 1]
  <2>1. \A n \in Nat \ {0} : before[n] = n - 1 /\ n - 1 \in Nat /\ f[n - 1] \in Nat
    OBVIOUS
  <2> HIDE DEF add, before
  <2> SUFFICES ASSUME NEW n \in Nat \ {0} PROVE f[n] = low[n] + 128 * f[n - 1]
    OBVIOUS
  <2>2. f[n] = add[<<n, f[n - 1]>>] /\ f[n - 1] \in Nat
    BY <1>5, <2>1
  <2> QED
    BY <1>4, <2>2
<1> DEFINE V == [n \in 0..Len(s) |-> f[n]]
<1>7. ASSUME NEW n \in 0..Len(s)
      PROVE  V[n] = IF n = 0 THEN 0 ELSE Low(s, n) + 128 * V[n - 1]
  <2>1. CASE n = 0
    BY <1>5, <2>1
  <2>2. CASE n # 0
    <3>1. n \in Nat \ {0} /\ n \in 1..Len(s) /\ n - 1 \in 0..Len(s)
      BY <2>2
    <3>2. low[n] = Low(s, n)
      BY <3>1 DEF low
    <3>3. V[n] = f[n] /\ V[n - 1] = f[n - 1]
      BY <3>1
    <3> HIDE DEF V
    <3> QED
      BY <1>6, <2>2, <3>1, <3>2, <3>3
  <2> QED
    BY <2>1, <2>2
<1>8. Values(s, V)
  BY <1>7 DEF Values
<1> QED
  BY <1>8

LEMMA ValuesAre ==
    ASSUME NEW s \in Seq(Octet), NEW V, Values(s, V)
    PROVE  /\ V[0] = 0
           /\ \A k \in 1..Len(s) : V[k] = Low(s, k) + 128 * V[k - 1]
           /\ \A k \in 0..Len(s) : V[k] \in Nat
<1> DEFINE R == [k \in 0..Len(s) |-> IF k = 0 THEN 0 ELSE Low(s, k) + 128 * V[k - 1]]
<1>1. V = R
  BY DEF Values
<1>2. R[0] = 0 /\ \A k \in 1..Len(s) : R[k] = Low(s, k) + 128 * V[k - 1]
  OBVIOUS
<1> HIDE DEF R
<1>3. V[0] = 0 /\ \A k \in 1..Len(s) : V[k] = Low(s, k) + 128 * V[k - 1]
  BY <1>1, <1>2
<1> DEFINE T == {k \in Nat : k <= Len(s) => V[k] \in Nat}
<1>4. 0 \in T
  BY <1>3
<1>5. ASSUME NEW k \in Nat, k \in T
      PROVE  k + 1 \in T
  <2> SUFFICES ASSUME k + 1 <= Len(s) PROVE V[k + 1] \in Nat
    OBVIOUS
  <2>1. V[k] \in Nat /\ k + 1 \in 1..Len(s) /\ k + 1 - 1 = k
    BY <1>5
  <2>2. Low(s, k + 1) \in Nat
    BY <2>1, LowIs
  <2>3. V[k + 1] = Low(s, k + 1) + 128 * V[k]
    BY <1>3, <2>1
  <2> QED
    BY <2>1, <2>2, <2>3
<1>6. Nat \subseteq T
  <2> HIDE DEF T
  <2> QED
    BY <1>4, <1>5, SetInduction
<1> QED
  BY <1>3, <1>6

(* t has the j last octets of s, as far as they count, before n zeros.     *)
Shifted(s, t, n, j) ==
    /\ j <= Len(s) /\ n + j <= Len(t)
    /\ \A k \in 1..n : Low(t, k) = 0
    /\ \A k \in 1..j : Low(t, n + k) = Low(s, k)

LEMMA ValuesAgree ==
    ASSUME NEW s \in Seq(Octet), NEW V, Values(s, V), NEW t \in Seq(Octet), NEW W, Values(t, W),
           NEW n \in Nat, NEW j \in Nat, Shifted(s, t, n, j)
    PROVE  W[n + j] = V[j]
<1>0. /\ j <= Len(s) /\ n + j <= Len(t)
      /\ \A k \in 1..n : Low(t, k) = 0
      /\ \A k \in 1..j : Low(t, n + k) = Low(s, k)
  BY DEF Shifted
<1>1. /\ V[0] = 0 /\ W[0] = 0
      /\ \A k \in 1..Len(s) : V[k] = Low(s, k) + 128 * V[k - 1]
      /\ \A k \in 1..Len(t) : W[k] = Low(t, k) + 128 * W[k - 1]
  BY ValuesAre
<1> DEFINE Z == {k \in Nat : k <= n => W[k] = 0}
           T == {k \in Nat : k <= j => W[n + k] = V[k]}
<1>2. 0 \in Z
  BY <1>1
<1>3. ASSUME NEW k \in Nat, k \in Z
      PROVE  k + 1 \in Z
  <2> SUFFICES ASSUME k + 1 <= n PROVE W[k + 1] = 0
    OBVIOUS
  <2>1. k + 1 \in 1..Len(t) /\ k + 1 \in 1..n /\ k + 1 - 1 = k /\ W[k] = 0
    BY <1>0, <1>3
  <2>2. W[k + 1] = Low(t, k + 1) + 128 * W[k] /\ Low(t, k + 1) = 0
    BY <1>0, <1>1, <2>1
  <2> QED
    BY <2>1, <2>2
<1>4. Nat \subseteq Z
  <2> HIDE DEF Z
  <2> QED
    BY <1>2, <1>3, SetInduction
<1>5. 0 \in T
  BY <1>1, <1>4
<1>6. ASSUME NEW k \in Nat, k \in T
      PROVE  k + 1 \in T
  <2> SUFFICES ASSUME k + 1 <= j PROVE W[n + (k + 1)] = V[k + 1]
    OBVIOUS
  <2> DEFINE m == n + (k + 1)
  <2>1. m \in 1..Len(t) /\ k + 1 \in 1..j /\ k + 1 \in 1..Len(s) /\ k + 1 - 1 = k /\ m - 1 = n + k
    BY <1>0
  <2>2. W[n + k] = V[k] /\ Low(t, m) = Low(s, k + 1)
    BY <1>0, <1>6, <2>1
  <2> HIDE DEF m
  <2>3. W[m] = Low(t, m) + 128 * W[n + k]
    BY <1>1, <2>1
  <2>4. V[k + 1] = Low(s, k + 1) + 128 * V[k]
    BY <1>1, <2>1
  <2>5. W[m] = V[k + 1]
    BY <2>2, <2>3, <2>4
  <2> QED
    BY <2>5 DEF m
<1>7. Nat \subseteq T
  <2> HIDE DEF T
  <2> QED
    BY <1>5, <1>6, SetInduction
<1> QED
  BY <1>7

LEMMA ValueIs ==
    ASSUME NEW s \in Seq(Octet), NEW V, Values(s, V)
    PROVE  Value(s) = V[Len(s)] /\ Value(s) \in Nat
<1> DEFINE W == CHOOSE U : Values(s, U)
           m == Len(s)
<1>1. Value(s) = W[m]
  BY DEF Value, Values, Low
<1>2. Values(s, W)
  OBVIOUS
<1>3. m \in Nat
  OBVIOUS
<1> HIDE DEF W
<1>4. W[0 + m] = V[m]
  <2>1. Shifted(s, s, 0, m)
    BY <1>3 DEF Shifted
  <2> QED
    BY <1>2, <1>3, <2>1, ValuesAgree
<1>5. V[m] \in Nat
  BY <1>3, ValuesAre
<1> QED
  BY <1>1, <1>3, <1>4, <1>5

LEMMA ValueOfMore ==
    ASSUME NEW o \in Octet, NEW s \in Seq(Octet)
    PROVE  Value(<<o>> \o s) = (o % 128) + 128 * Value(s)
<1> DEFINE t == <<o>> \o s
           n == Len(s)
<1>1. t \in Seq(Octet) /\ Len(t) = n + 1 /\ t[1] = o /\ n \in Nat /\ \A i \in 1..Len(s) : t[i + 1] = s[i]
  BY Prepended
<1> HIDE DEF t
<1>2. PICK V : Values(s, V)
  BY ValuesExist
<1>3. PICK W : Values(t, W)
  BY <1>1, ValuesExist
<1>4. \A k \in 1..n : Low(t, 0 + k) = Low(s, k)
  <2> SUFFICES ASSUME NEW k \in 1..n PROVE Low(t, k) = Low(s, k)
    OBVIOUS
  <2> DEFINE i == n - k + 1
  <2>1. i \in 1..Len(s) /\ Len(t) - k + 1 = i + 1
    BY <1>1
  <2> HIDE DEF i
  <2>2. t[i + 1] = s[i]
    BY <1>1, <2>1
  <2> QED
    BY <2>1, <2>2 DEF Low, i
<1>5. W[0 + n] = V[n]
  <2>1. Shifted(s, t, 0, n)
    BY <1>1, <1>4 DEF Shifted
  <2> HIDE DEF n
  <2> QED
    BY <1>1, <1>2, <1>3, <2>1, ValuesAgree
<1>6. Low(t, n + 1) = o % 128
  BY <1>1 DEF Low
<1>7. W[n + 1] = Low(t, n + 1) + 128 * W[n + 1 - 1]
  BY <1>1, <1>3, ValuesAre
<1>8. W[n + 1] = Low(t, n + 1) + 128 * W[n]
  BY <1>1, <1>7
<1>9. Value(t) = W[n + 1] /\ Value(s) = V[n]
  BY <1>1, <1>2, <1>3, ValueIs
<1> QED
  BY <1>1, <1>5, <1>6, <1>8, <1>9 DEF t

LEMMA ValueOfNone == Value(<<>>) = 0
<1>1. <<>> \in Seq(Octet) /\ Len(<<>>) = 0
  OBVIOUS
<1>2. PICK V : Values(<<>>, V)
  BY <1>1, ValuesExist
<1>3. Value(<<>>) = V[Len(<<>>)] /\ V[0] = 0
  BY <1>1, <1>2, ValueIs, ValuesAre
<1> QED
  BY <1>1, <1>3

LEMMA ValueIsNatural ==
    ASSUME NEW s \in Seq(Octet)
    PROVE  Value(s) \in Nat
BY ValuesExist, ValueIs

(* A number is written and read as itself.                                 *)
LEMMA ValueOfDigits ==
    ASSUME NEW v \in Nat
    PROVE  Value(Digits[v]) = v
<1> DEFINE T == {n \in Nat : \A m \in 0..n : Value(Digits[m]) = m}
<1>1. \A m \in Nat : m < 128 => Value(Digits[m]) = m
  <2> SUFFICES ASSUME NEW m \in Nat, m < 128 PROVE Value(<<m>>) = m
    BY DigitsAre
  <2>1. m \in Octet /\ m % 128 = m /\ <<>> \in Seq(Octet)
    BY DEF Octet
  <2>2. Value(<<m>> \o <<>>) = (m % 128) + 128 * Value(<<>>)
    BY <2>1, ValueOfMore
  <2>3. <<m>> \o <<>> = <<m>>
    OBVIOUS
  <2> QED
    BY <2>1, <2>2, <2>3, ValueOfNone
<1>2. 0 \in T
  BY <1>1
<1>3. ASSUME NEW n \in Nat, n \in T
      PROVE  n + 1 \in T
  <2> SUFFICES ASSUME n + 1 >= 128 PROVE Value(Digits[n + 1]) = n + 1
    BY <1>1, <1>3
  <2> DEFINE m == n + 1
             r == m % 128
             o == 128 + r
             q == m \div 128
  <2>1. m \in Nat /\ m # 0 /\ m >= 128
    OBVIOUS
  <2> HIDE DEF m
  <2>2. o \in Octet /\ o % 128 = r /\ q \in Nat /\ q < m /\ m = r + 128 * q
    BY <2>1, Divided
  <2>3. Digits[m] = <<o>> \o Digits[q]
    BY <2>1, DigitsAre
  <2> HIDE DEF o, q, r
  <2>4. q \in 0..n
    BY <2>2 DEF m
  <2>5. Value(Digits[q]) = q /\ Digits[q] \in Seq(Octet)
    BY <1>3, <2>2, <2>4, DigitsEnd DEF Ended
  <2>6. Value(Digits[m]) = r + 128 * q
    BY <2>2, <2>3, <2>5, ValueOfMore
  <2> QED
    BY <2>2, <2>6 DEF m
<1>4. Nat \subseteq T
  <2> HIDE DEF T
  <2> QED
    BY <1>2, <1>3, SetInduction
<1> QED
  BY <1>4

LEMMA OctetIsNatural ==
    ASSUME NEW o \in Octet
    PROVE  o \in Nat /\ o <= 255
BY DEF Octet

(* Padding does not change what octets stand for.                          *)
LEMMA PaddedIs ==
    ASSUME NEW s, Ended(s), NEW p \in Nat
    PROVE  Ended(Padded(s, p)) /\ Value(Padded(s, p)) = Value(s)
<1> DEFINE n == Len(s)
           a == [s EXCEPT ![n] = @ + 128]
           b == [i \in 1..p |-> IF i = p THEN 0 ELSE 128]
           t == a \o b
<1>1. s \in Seq(Octet) /\ n \in Nat /\ n >= 1 /\ \A i \in 1..n : s[i] \in Octet
  BY DEF Ended
<1>2. CASE p = 0
  BY <1>2 DEF Padded
<1>3. CASE p # 0
  <2>1. Padded(s, p) = t
    BY <1>3 DEF Padded
  <2>2. a \in Seq(Octet) /\ Len(a) = n /\ a[n] = s[n] + 128 /\ \A i \in 1..n : i < n => a[i] = s[i]
    <3>1. s[n] + 128 \in Octet
      <4> DEFINE x == s[n]
      <4>1. x \in Octet /\ x < 128
        BY <1>1 DEF Ended
      <4> HIDE DEF x
      <4>2. x + 128 \in Octet
        BY <4>1 DEF Octet
      <4> QED
        BY <4>2 DEF x
    <3> QED
      BY <1>1, <3>1
  <2>3. b \in Seq(Octet) /\ Len(b) = p /\ b[p] = 0 /\ \A i \in 1..p : i < p => b[i] = 128
    <3>1. 0 \in Octet /\ 128 \in Octet
      BY DEF Octet
    <3> QED
      BY <1>3, <3>1
  <2> HIDE DEF a, b
  <2>4. /\ t \in Seq(Octet) /\ Len(t) = n + p
        /\ \A i \in 1..n : t[i] = a[i]
        /\ \A i \in 1..p : t[n + i] = b[i]
    BY <2>2, <2>3
  <2> HIDE DEF t, n
  <2>5. Ended(t)
    <3>1. ASSUME NEW i \in 1..Len(t), i < Len(t)
          PROVE  t[i] >= 128
      <4>1. CASE i < n
        BY <1>1, <2>2, <2>4, <4>1 DEF Ended, n
      <4>2. CASE i = n
        <5>1. s[n] \in Octet
          BY <1>1
        <5>2. s[n] \in Nat
          BY <5>1, OctetIsNatural
        <5> QED
          BY <1>1, <2>2, <2>4, <4>2, <5>2
      <4>3. CASE i > n
        <5> DEFINE j == i - n
        <5>1. j \in 1..p /\ j < p /\ n + j = i
          BY <1>1, <2>4, <3>1, <4>3
        <5> HIDE DEF j
        <5>2. b[j] = 128 /\ t[n + j] = b[j]
          BY <2>3, <2>4, <5>1
        <5> QED
          BY <5>1, <5>2
      <4> QED
        BY <1>1, <4>1, <4>2, <4>3
    <3>2. t[Len(t)] = 0 /\ Len(t) >= 1
      BY <1>1, <1>3, <2>3, <2>4
    <3> QED
      BY <2>4, <3>1, <3>2 DEF Ended
  <2>6. PICK V : Values(s, V)
    BY <1>1, ValuesExist
  <2>7. PICK W : Values(t, W)
    BY <2>4, ValuesExist
  <2>8. \A k \in 1..p : Low(t, k) = 0
    <3> SUFFICES ASSUME NEW k \in 1..p PROVE Low(t, k) = 0
      OBVIOUS
    <3> DEFINE j == p - k + 1
    <3>1. j \in 1..p /\ Len(t) - k + 1 = n + j
      BY <1>1, <2>4
    <3> HIDE DEF j
    <3>2. t[n + j] = b[j] /\ (b[j] = 0 \/ b[j] = 128)
      BY <2>3, <2>4, <3>1
    <3> QED
      BY <3>1, <3>2 DEF Low
  <2>9. \A k \in 1..n : Low(t, p + k) = Low(s, k)
    <3> SUFFICES ASSUME NEW k \in 1..n PROVE Low(t, p + k) = Low(s, k)
      OBVIOUS
    <3> DEFINE j == n - k + 1
    <3>1. j \in 1..n /\ Len(t) - (p + k) + 1 = j /\ (k = 1 => j = n) /\ (k # 1 => j < n)
      BY <1>1, <2>4
    <3>2. Low(s, k) = s[j] % 128 /\ Low(t, p + k) = t[j] % 128
      BY <3>1 DEF Low, n
    <3> HIDE DEF j
    <3>3. t[j] = s[j] \/ t[j] = s[j] + 128
      BY <2>2, <2>4, <3>1
    <3>4. s[j] \in Octet
      BY <1>1, <3>1
    <3>5. s[j] \in Nat
      BY <3>4, OctetIsNatural
    <3> QED
      BY <3>2, <3>3, <3>5
  <2>10. W[p + n] = V[n]
    <3>1. n <= Len(s) /\ p + n <= Len(t)
      BY <1>1, <2>4 DEF n
    <3>2. Shifted(s, t, p, n)
      BY <2>8, <2>9, <3>1 DEF Shifted
    <3> QED
      BY <1>1, <2>4, <2>6, <2>7, <3>2, ValuesAgree
  <2>11. Value(t) = W[p + n] /\ Value(s) = V[n]
    <3>1. Len(t) = p + n /\ Len(s) = n
      BY <1>1, <2>4 DEF n
    <3> QED
      BY <1>1, <2>4, <2>6, <2>7, <3>1, ValueIs
  <2> QED
    BY <2>1, <2>5, <2>10, <2>11
<1> QED
  BY <1>2, <1>3

(* The prefixes of the fields and strings: P is 2^p, and pre is small      *)
(* enough for the first octet to be one.                                   *)
Prefix(p, pre, P) ==
    /\ p \in {4, 5, 6, 7} /\ P = 2^p /\ P \in {16, 32, 64, 128}
    /\ pre \in Nat /\ pre * P + P <= 256

LEMMA PrefixIs ==
    ASSUME NEW p \in {4, 5, 6, 7}
    PROVE  /\ 2^p \in {16, 32, 64, 128} /\ Mask(p) = 2^p - 1
           /\ Prefix(p, 0, 2^p) /\ Prefix(p, 1, 2^p)
<1>1. 2^4 = 16 /\ 2^5 = 32 /\ 2^6 = 64 /\ 2^7 = 128
  OBVIOUS
<1>2. 2^p \in {16, 32, 64, 128}
  <2>1. CASE p = 4
    BY <1>1, <2>1
  <2>2. CASE p = 5
    BY <1>1, <2>2
  <2>3. CASE p = 6
    BY <1>1, <2>3
  <2>4. CASE p = 7
    BY <1>1, <2>4
  <2> QED
    BY <2>1, <2>2, <2>3, <2>4
<1> DEFINE P == 2^p
<1> HIDE DEF P
<1>3. 0 * P + P <= 256 /\ 1 * P + P <= 256
  BY <1>2 DEF P
<1>4. P = 2^p
  BY DEF P
<1> QED
  BY <1>2, <1>3, <1>4 DEF Prefix, Mask, P

LEMMA FirstOctet ==
    ASSUME NEW p, NEW pre, NEW P, Prefix(p, pre, P), NEW x \in 0..P - 1
    PROVE  /\ pre * P + x \in Octet /\ (pre * P + x) % P = x
           /\ P \in Nat \ {0} /\ Mask(p) = P - 1 /\ 2^p = P
<1>1. P \in {16, 32, 64, 128} /\ pre \in Nat
  BY DEF Prefix
<1>2. 2^p = P /\ Mask(p) = P - 1
  BY DEF Prefix, Mask
<1>3. CASE P = 16
  BY <1>1, <1>2, <1>3 DEF Prefix, Octet
<1>4. CASE P = 32
  BY <1>1, <1>2, <1>4 DEF Prefix, Octet
<1>5. CASE P = 64
  BY <1>1, <1>2, <1>5 DEF Prefix, Octet
<1>6. CASE P = 128
  BY <1>1, <1>2, <1>6 DEF Prefix, Octet
<1> QED
  BY <1>1, <1>3, <1>4, <1>5, <1>6, Zenon
-----------------------------------------------------------------------------
(* Pieces of sequences.                                                    *)
(* The two parts of a concatenation.                                       *)
LEMMA PartsOfJoined ==
    ASSUME NEW S, NEW a \in Seq(S), NEW b \in Seq(S)
    PROVE  SubSeq(a \o b, 1, Len(a)) = a /\ From(a \o b, Len(a)) = b
<1> DEFINE t == a \o b
           n == Len(a)
           x == SubSeq(t, 1, n)
           y == From(t, n)
<1>1. /\ t \in Seq(S) /\ Len(t) = n + Len(b) /\ n \in Nat /\ Len(b) \in Nat
      /\ \A i \in 1..n : t[i] = a[i]
      /\ \A i \in 1..Len(b) : t[n + i] = b[i]
  BY JoinedIs
<1> HIDE DEF t
<1>2. x \in Seq(S) /\ Len(x) = n /\ \A i \in 1..n : x[i] = t[i]
  <2> HIDE DEF n
  <2> QED
    BY <1>1, FirstOf
<1>3. y \in Seq(S) /\ Len(y) = Len(b) /\ \A i \in 1..Len(b) : y[i] = t[n + i]
  <2> DEFINE m == Len(t)
             z == SubSeq(t, n + 1, m)
  <2>1. m \in Nat /\ n <= m /\ m <= Len(t) /\ m - n = Len(b)
    BY <1>1
  <2> HIDE DEF n, m
  <2>2. z \in Seq(S) /\ Len(z) = m - n /\ \A i \in 1..(m - n) : z[i] = t[n + i]
    BY <1>1, <2>1, PieceIs
  <2>3. y = z
    BY DEF From, m
  <2> HIDE DEF y, z
  <2> QED
    BY <2>1, <2>2, <2>3
<1> HIDE DEF x, y
<1>4. x = a
  <2>1. \A i \in 1..Len(a) : x[i] = a[i]
    BY <1>1, <1>2
  <2> QED
    BY <1>1, <1>2, <2>1, SeqEqual DEF n
<1>5. y = b
  <2>1. \A i \in 1..Len(b) : y[i] = b[i]
    BY <1>1, <1>3
  <2> QED
    BY <1>1, <1>3, <2>1, SeqEqual
<1> QED
  BY <1>4, <1>5 DEF x, y, t, n

-----------------------------------------------------------------------------
(* Reading integers.                                                       *)
LEMMA MinIs ==
    ASSUME NEW S, S \subseteq Nat, NEW n \in S, \A m \in S : n <= m
    PROVE  Min(S) = n
<1> DEFINE k == CHOOSE x \in S : \A y \in S : x <= y
<1>1. k \in S /\ \A y \in S : k <= y
  OBVIOUS
<1>2. Min(S) = k
  BY DEF Min
<1> HIDE DEF k
<1>3. k <= n /\ n <= k /\ k \in Nat /\ n \in Nat
  BY <1>1
<1> QED
  BY <1>2, <1>3

Mantissa(o, p) == o % (2^p)

LEMMA MantissaIs ==
    ASSUME NEW o \in Octet, NEW p \in {4, 5, 6, 7}
    PROVE  Mantissa(o, p) \in 0..Mask(p) /\ Mask(p) \in Nat /\ Mantissa(o, p) \in Nat
<1> DEFINE P == 2^p
<1>1. P \in {16, 32, 64, 128} /\ Mask(p) = P - 1 /\ Mantissa(o, p) = o % P
  BY PrefixIs DEF Mantissa
<1> HIDE DEF P
<1>2. P \in Nat \ {0} /\ o \in Nat
  BY <1>1, OctetIsNatural
<1>3. o % P \in 0..P - 1
  <2>1. CASE P = 16
    BY <1>2, <2>1
  <2>2. CASE P = 32
    BY <1>2, <2>2
  <2>3. CASE P = 64
    BY <1>2, <2>3
  <2>4. CASE P = 128
    BY <1>2, <2>4
  <2> QED
    BY <1>1, <2>1, <2>2, <2>3, <2>4, Zenon
<1>4. \A x \in 0..P - 1 : x \in Nat
  BY <1>2
<1> QED
  BY <1>1, <1>2, <1>3, <1>4

LEMMA ShortInt ==
    ASSUME NEW o \in Octet, NEW p \in {4, 5, 6, 7}, Mantissa(o, p) # Mask(p), NEW r \in Seq(Octet)
    PROVE  ParseInt(<<o>> \o r, p) = <<[val |-> Mantissa(o, p), rest |-> r]>>
<1> DEFINE d == <<o>> \o r
<1>1. d[1] = o /\ Tail(d) = r
  OBVIOUS
<1> HIDE DEF d
<1>2. d[1] % (2^p) = Mantissa(o, p)
  BY <1>1 DEF Mantissa
<1> QED
  BY <1>1, <1>2 DEF ParseInt, d

(* Behind a full prefix, up to the first octet below 128.                  *)
LEMMA LongIntIs ==
    ASSUME NEW o \in Octet, NEW p \in {4, 5, 6, 7}, Mantissa(o, p) = Mask(p),
           NEW t, Ended(t), NEW r \in Seq(Octet)
    PROVE  ParseInt(<<o>> \o (t \o r), p) = <<[val |-> Mask(p) + Value(t), rest |-> r]>>
<1> DEFINE s == t \o r
           d == <<o>> \o s
           n == Len(t)
           m == n + 1
           ends == {i \in 2..Len(d) : d[i] < 128}
           a == SubSeq(d, 2, m)
<1>1. t \in Seq(Octet) /\ n \in Nat /\ n >= 1
  BY DEF Ended
<1>2. /\ s \in Seq(Octet) /\ Len(s) = n + Len(r) /\ Len(r) \in Nat
      /\ \A i \in 1..n : s[i] = t[i]
  BY <1>1, JoinedIs
<1>3. SubSeq(s, 1, n) = t /\ From(s, n) = r
  BY <1>1, PartsOfJoined
<1> HIDE DEF s
<1>4. d \in Seq(Octet) /\ Len(d) = Len(s) + 1 /\ d[1] = o /\ \A i \in 1..Len(s) : d[i + 1] = s[i]
  BY <1>2, Prepended
<1> HIDE DEF d, n
<1>5. /\ ends \subseteq Nat /\ m \in ends
      /\ \A i \in ends : m <= i
  <2>1. ends \subseteq Nat
    BY <1>4
  <2>2. s[n] = t[n] /\ t[n] < 128 /\ n \in 1..Len(s)
    BY <1>1, <1>2 DEF Ended, n
  <2>3. m \in 2..Len(d) /\ d[m] = s[n]
    BY <1>1, <1>2, <1>4, <2>2
  <2>4. ASSUME NEW i \in 2..Len(d), d[i] < 128, i < m
        PROVE  FALSE
    <3> DEFINE j == i - 1
    <3>1. j \in 1..n /\ j < n /\ j + 1 = i /\ j \in 1..Len(s)
      BY <1>1, <1>2, <1>4, <2>4
    <3> HIDE DEF j
    <3>2. t[j] >= 128
      BY <3>1 DEF Ended, n
    <3>3. t[j] \in Octet /\ d[i] = t[j]
      BY <1>1, <1>2, <1>4, <3>1 DEF n
    <3> QED
      BY <2>4, <3>2, <3>3, OctetIsNatural
  <2>5. \A i \in ends : m <= i
    <3> SUFFICES ASSUME NEW i \in ends, ~(m <= i) PROVE FALSE
      OBVIOUS
    <3>1. i \in 2..Len(d) /\ d[i] < 128 /\ i < m
      BY <1>1, <1>4
    <3> QED
      BY <2>4, <3>1
  <2> QED
    BY <2>1, <2>2, <2>3, <2>5
<1>6. Min(ends) = m /\ ends # {}
  <2> HIDE DEF ends, m
  <2> QED
    BY <1>5, MinIs
<1>7. a = t
  <2>1. a \in Seq(Octet) /\ Len(a) = n /\ \A i \in 1..n : a[i] = d[i + 1]
    <3>1. 1 + 1 = 2 /\ m - 1 = n /\ 1 <= m /\ m <= Len(d) /\ m \in Nat /\ \A i \in 1..n : 1 + i = i + 1
      BY <1>1, <1>2, <1>4
    <3>2. /\ SubSeq(d, 1 + 1, m) \in Seq(Octet) /\ Len(SubSeq(d, 1 + 1, m)) = m - 1
          /\ \A i \in 1..(m - 1) : SubSeq(d, 1 + 1, m)[i] = d[1 + i]
      <4> HIDE DEF m
      <4> QED
        BY <1>4, <3>1, PieceIs
    <3> QED
      BY <3>1, <3>2
  <2> HIDE DEF a
  <2>2. \A i \in 1..n : a[i] = t[i]
    BY <1>1, <1>2, <1>4, <2>1
  <2> QED
    BY <1>1, <2>1, <2>2, SeqEqual DEF n
<1>8. From(d, m) = r
  <2>1. From(d, m) = From(s, n)
    <3> DEFINE x == From(d, m)
               y == From(s, n)
               k == Len(r)
    <3>0. m \in Nat /\ m + k = Len(d) /\ n + k = Len(s) /\ k \in Nat
      BY <1>1, <1>2, <1>4
    <3>1. x \in Seq(Octet) /\ Len(x) = k /\ \A i \in 1..k : x[i] = d[m + i]
      <4> HIDE DEF m, k
      <4> QED
        BY <1>4, <3>0 DEF From
    <3>2. y \in Seq(Octet) /\ Len(y) = k /\ \A i \in 1..k : y[i] = s[n + i]
      <4> HIDE DEF m, k
      <4> QED
        BY <1>1, <1>2, <3>0 DEF From
    <3> HIDE DEF x, y
    <3>3. ASSUME NEW i \in 1..k
          PROVE  x[i] = y[i]
      <4>1. n + i \in 1..Len(s) /\ m + i = (n + i) + 1
        BY <1>1, <1>2
      <4>2. d[m + i] = s[n + i]
        BY <1>4, <4>1
      <4> QED
        BY <3>1, <3>2, <4>2
    <3>4. x = y
      BY <3>1, <3>2, <3>3, SeqEqual
    <3> QED
      BY <3>4 DEF x, y
  <2> QED
    BY <1>3, <2>1
<1>9. d[1] % (2^p) = Mask(p)
  BY <1>4 DEF Mantissa
<1>10. ParseInt(d, p) = LongInt(d, Mask(p), ends)
  BY <1>9 DEF ParseInt
<1> HIDE DEF ends, a, m
<1>11. LongInt(d, Mask(p), ends) = <<[val |-> Mask(p) + Value(SubSeq(d, 2, m)), rest |-> From(d, m)]>>
  BY <1>6 DEF LongInt
<1> QED
  BY <1>7, <1>8, <1>10, <1>11 DEF d, s, a

LEMMA TornInt ==
    ASSUME NEW o \in Octet, NEW p \in {4, 5, 6, 7}, Mantissa(o, p) = Mask(p),
           NEW t \in Seq(Octet), \A i \in 1..Len(t) : t[i] >= 128
    PROVE  ParseInt(<<o>> \o t, p) = <<>>
<1> DEFINE d == <<o>> \o t
           ends == {i \in 2..Len(d) : d[i] < 128}
<1>1. d \in Seq(Octet) /\ Len(d) = Len(t) + 1 /\ d[1] = o /\ \A i \in 1..Len(t) : d[i + 1] = t[i]
  BY Prepended
<1> HIDE DEF d
<1>2. ends = {}
  <2> SUFFICES ASSUME NEW i \in 2..Len(d), d[i] < 128 PROVE FALSE
    OBVIOUS
  <2> DEFINE j == i - 1
  <2>1. j \in 1..Len(t) /\ j + 1 = i
    BY <1>1
  <2> HIDE DEF j
  <2>2. t[j] >= 128 /\ t[j] \in Octet /\ d[i] = t[j]
    BY <1>1, <2>1
  <2> QED
    BY <2>2, OctetIsNatural
<1>3. d[1] % (2^p) = Mask(p)
  BY <1>1 DEF Mantissa
<1>4. ParseInt(d, p) = LongInt(d, Mask(p), ends)
  BY <1>3 DEF ParseInt
<1> QED
  BY <1>2, <1>4 DEF LongInt, d

(* What a parser returns: nothing, or a result and the rest of the data.   *)
IntRead == [val : Nat, rest : Seq(Octet)]

LEMMA ParseIntTyped ==
    ASSUME NEW d \in Seq(Octet), d # <<>>, NEW p \in {4, 5, 6, 7}
    PROVE  ParseInt(d, p) = <<>> \/ \E r \in IntRead : ParseInt(d, p) = <<r>>
<1> DEFINE o == d[1]
           ends == {i \in 2..Len(d) : d[i] < 128}
           m == Min(ends)
<1>1. o \in Octet /\ Tail(d) \in Seq(Octet) /\ Len(d) \in Nat
  OBVIOUS
<1> HIDE DEF o
<1>2. CASE Mantissa(o, p) # Mask(p)
  <2>1. ParseInt(d, p) = <<[val |-> Mantissa(o, p), rest |-> Tail(d)]>>
    BY <1>2 DEF ParseInt, Mantissa, o
  <2>2. [val |-> Mantissa(o, p), rest |-> Tail(d)] \in IntRead
    BY <1>1, MantissaIs DEF IntRead
  <2> QED
    BY <2>1, <2>2
<1>3. CASE Mantissa(o, p) = Mask(p)
  <2>1. ParseInt(d, p) = LongInt(d, Mask(p), ends)
    BY <1>3 DEF ParseInt, Mantissa, o
  <2>2. CASE ends = {}
    BY <2>1, <2>2 DEF LongInt
  <2>3. CASE ends # {}
    <3>1. ends \subseteq Nat
      BY <1>1
    <3>2. m \in ends
      <4> HIDE DEF ends
      <4>1. PICK n \in ends : \A k \in ends : n <= k
        BY <2>3, <3>1, LeastElement
      <4>2. m = n
        BY <3>1, <4>1, MinIs
      <4> QED
        BY <4>1, <4>2
    <3>3. m \in 2..Len(d)
      BY <3>2
    <3> HIDE DEF m
    <3>4. SubSeq(d, 2, m) \in Seq(Octet) /\ From(d, m) \in Seq(Octet)
      BY <1>1, <3>3 DEF From
    <3>5. LongInt(d, Mask(p), ends) = <<[val |-> Mask(p) + Value(SubSeq(d, 2, m)), rest |-> From(d, m)]>>
      BY <2>3 DEF LongInt, m
    <3>6. Mask(p) + Value(SubSeq(d, 2, m)) \in Nat
      <4>1. Mask(p) \in Nat /\ Value(SubSeq(d, 2, m)) \in Nat
        BY <1>1, <3>4, MantissaIs, ValueIsNatural
      <4>2. \A x, y \in Nat : x + y \in Nat
        OBVIOUS
      <4> QED
        BY <4>1, <4>2
    <3>7. [val |-> Mask(p) + Value(SubSeq(d, 2, m)), rest |-> From(d, m)] \in IntRead
      BY <3>4, <3>6 DEF IntRead
    <3> QED
      BY <2>1, <3>5, <3>7
  <2> QED
    BY <2>2, <2>3
<1> QED
  BY <1>2, <1>3

(* What is written for an integer: one octet, or one with a full prefix    *)
(* and the digits of the rest.                                             *)
LEMMA IntBytesAre ==
    ASSUME NEW i \in WrittenInt, NEW p, NEW pre, NEW P, Prefix(p, pre, P)
    PROVE  \E o \in Octet, t \in Seq(Octet) :
              /\ IntBytes(i, p, pre) = <<o>> \o t
              /\ o \in pre * P..pre * P + (P - 1) /\ p \in {4, 5, 6, 7}
              /\ \/ t = <<>> /\ Mantissa(o, p) = i.val /\ i.val # Mask(p)
                 \/ /\ Ended(t) /\ Mantissa(o, p) = Mask(p)
                    /\ Mask(p) + Value(t) = i.val /\ i.val # 0
<1>1. i.val \in Nat /\ i.padding \in Nat
  BY DEF WrittenInt
<1>2. pre * P \in Nat /\ P \in {16, 32, 64, 128} /\ p \in {4, 5, 6, 7}
  <2>1. pre \in Nat /\ P \in {16, 32, 64, 128} /\ p \in {4, 5, 6, 7}
    BY DEF Prefix
  <2>2. \A x, y \in Nat : x * y \in Nat
    OBVIOUS
  <2> QED
    BY <2>1, <2>2
<1> DEFINE v == i.val
           M == P - 1
           first == pre * P
<1>8. M \in 0..P - 1 /\ M \in Nat \ {0}
  BY <1>2
<1>9. ASSUME NEW x \in 0..P - 1
      PROVE  first + x \in Octet /\ (first + x) % P = x
  BY FirstOctet
<1>3. Mask(p) = M /\ 2^p = P
  <2> HIDE DEF M
  <2>1. M \in 0..P - 1
    BY <1>8
  <2>2. Mask(p) = P - 1 /\ 2^p = P
    BY <2>1, FirstOctet
  <2> QED
    BY <2>2 DEF M
<1>4. IntBytes(i, p, pre) =
        IF v < M THEN <<first + v>> ELSE <<first + M>> \o Padded(Digits[v - M], i.padding)
  <2> HIDE DEF M
  <2> QED
    BY <1>3 DEF IntBytes
<1>5. v \in Nat /\ first \in Nat
  BY <1>1, <1>2
<1> HIDE DEF v, first
<1>6. CASE v < M
  <2> DEFINE o == first + v
  <2>1. v \in 0..P - 1 /\ o \in first..first + (P - 1)
    BY <1>2, <1>5, <1>6
  <2>2. o \in Octet /\ o % P = v /\ v # M
    BY <1>5, <1>6, <1>9, <2>1
  <2> HIDE DEF o
  <2>3. IntBytes(i, p, pre) = <<o>> \o <<>>
    BY <1>4, <1>6 DEF o
  <2>4. <<>> \in Seq(Octet)
    OBVIOUS
  <2>5. Mantissa(o, p) = v
    BY <1>3, <2>2 DEF Mantissa
  <2> QED
    BY <1>2, <1>3, <2>1, <2>2, <2>3, <2>4, <2>5 DEF v, first
<1>7. CASE v >= M
  <2> DEFINE o == first + M
             w == v - M
             t == Padded(Digits[w], i.padding)
  <2>1. o \in Octet /\ o % P = M /\ o \in first..first + (P - 1)
    BY <1>2, <1>5, <1>8, <1>9
  <2>2. w \in Nat /\ ~(v < M)
    BY <1>5, <1>7, <1>8
  <2> HIDE DEF o, w
  <2>3. Ended(t) /\ Value(t) = w
    BY <1>1, <2>2, DigitsEnd, ValueOfDigits, PaddedIs
  <2>4. IntBytes(i, p, pre) = <<o>> \o t
    BY <1>4, <2>2 DEF o, w
  <2> HIDE DEF t
  <2>5. t \in Seq(Octet)
    BY <2>3 DEF Ended
  <2>6. Mantissa(o, p) = Mask(p)
    BY <1>3, <2>1 DEF Mantissa
  <2>7. Mask(p) + Value(t) = v /\ v # 0
    <3>1. Mask(p) + Value(t) = M + w
      BY <1>3, <2>3
    <3>2. M + w = v /\ v # 0
      <4> HIDE DEF M
      <4> QED
        BY <1>5, <1>7, <1>8 DEF w
    <3> QED
      BY <3>1, <3>2
  <2> QED
    BY <1>2, <2>1, <2>3, <2>4, <2>5, <2>6, <2>7 DEF v, first
<1>10. v < M \/ v >= M
  BY <1>5, <1>8
<1> QED
  BY <1>6, <1>7, <1>10, Zenon

(* d is a part of s that ends before s does.                               *)
Torn(d, s) == \E n \in Nat : n < Len(s) /\ d = SubSeq(s, 1, n)

LEMMA TornIs ==
    ASSUME NEW S, NEW s \in Seq(S), NEW d, Torn(d, s)
    PROVE  d \in Seq(S) /\ Len(d) < Len(s) /\ Len(d) \in Nat /\ \A i \in 1..Len(d) : d[i] = s[i]
<1>1. PICK n \in Nat : n < Len(s) /\ d = SubSeq(s, 1, n)
  BY DEF Torn
<1>2. n \in 0..Len(s)
  BY <1>1
<1> QED
  BY <1>1, <1>2, FirstOf

TornBehind(d, a, b, S) == \E e \in Seq(S) : Torn(e, b) /\ d = a \o e

(* A concatenation is torn in its first or in its second part.             *)
LEMMA TornJoined ==
    ASSUME NEW S, NEW a \in Seq(S), NEW b \in Seq(S), NEW d, Torn(d, a \o b)
    PROVE  Torn(d, a) \/ TornBehind(d, a, b, S)
<1> DEFINE t == a \o b
<1>1. PICK n \in Nat : n < Len(t) /\ d = SubSeq(t, 1, n)
  BY DEF Torn
<1>2. /\ t \in Seq(S) /\ Len(t) = Len(a) + Len(b) /\ Len(a) \in Nat /\ Len(b) \in Nat
      /\ \A i \in 1..Len(a) : t[i] = a[i]
      /\ \A i \in 1..Len(b) : t[Len(a) + i] = b[i]
  BY JoinedIs
<1> HIDE DEF t
<1>3. d \in Seq(S) /\ Len(d) = n /\ \A i \in 1..n : d[i] = t[i]
  BY <1>1, <1>2, FirstOf
<1>4. CASE n < Len(a)
  <2> DEFINE x == SubSeq(a, 1, n)
  <2>1. x \in Seq(S) /\ Len(x) = n /\ \A i \in 1..n : x[i] = a[i]
    BY <1>2, <1>4, FirstOf
  <2> HIDE DEF x
  <2>2. ASSUME NEW i \in 1..n
        PROVE  d[i] = x[i]
    <3>1. i \in 1..Len(a)
      BY <1>2, <1>4
    <3> QED
      BY <1>2, <1>3, <2>1, <3>1
  <2>3. d = x
    BY <1>3, <2>1, <2>2, SeqEqual
  <2> QED
    BY <1>4, <2>3 DEF Torn, x
<1>5. CASE n >= Len(a)
  <2> DEFINE m == n - Len(a)
             e == SubSeq(b, 1, m)
             x == a \o e
  <2>1. m \in Nat /\ m < Len(b) /\ n = Len(a) + m /\ m \in 0..Len(b)
    BY <1>1, <1>2, <1>5
  <2> HIDE DEF m
  <2>2. e \in Seq(S) /\ Len(e) = m /\ \A i \in 1..m : e[i] = b[i]
    BY <2>1, FirstOf
  <2>3. Torn(e, b)
    BY <2>1 DEF Torn
  <2> HIDE DEF e
  <2>4. /\ x \in Seq(S) /\ Len(x) = n
        /\ \A i \in 1..Len(a) : x[i] = a[i]
        /\ \A i \in 1..m : x[Len(a) + i] = e[i]
    <3>1. /\ x \in Seq(S) /\ Len(x) = Len(a) + Len(e)
          /\ \A i \in 1..Len(a) : x[i] = a[i]
          /\ \A i \in 1..Len(e) : x[Len(a) + i] = e[i]
      BY <2>2, JoinedIs
    <3> HIDE DEF x
    <3> QED
      BY <2>1, <2>2, <3>1
  <2> HIDE DEF x
  <2>5. ASSUME NEW i \in 1..n
        PROVE  d[i] = x[i]
    <3>1. CASE i <= Len(a)
      BY <1>2, <1>3, <2>4, <3>1
    <3>2. CASE i > Len(a)
      <4> DEFINE j == i - Len(a)
      <4>1. j \in 1..m /\ i = Len(a) + j /\ j \in 1..Len(b)
        BY <1>2, <2>1, <3>2
      <4> HIDE DEF j
      <4>2. t[i] = b[j] /\ x[i] = e[j] /\ e[j] = b[j]
        BY <1>2, <2>2, <2>4, <4>1
      <4> QED
        BY <1>3, <4>2
    <3> QED
      BY <1>2, <3>1, <3>2
  <2>6. d = x
    BY <1>3, <2>4, <2>5, SeqEqual
  <2> QED
    BY <2>2, <2>3, <2>6 DEF x, TornBehind
<1>6. n < Len(a) \/ n >= Len(a)
  BY <1>1, <1>2
<1> QED
  BY <1>4, <1>5, <1>6, Zenon

(* An integer comes back, whatever follows it; torn, it is refused.        *)
LEMMA IntComesBack ==
    ASSUME NEW i \in WrittenInt, NEW p, NEW pre, NEW P, Prefix(p, pre, P), NEW r \in Seq(Octet)
    PROVE  LET b == IntBytes(i, p, pre)
           IN  /\ b \in Seq(Octet) /\ Len(b) >= 1 /\ b[1] \in pre * P..pre * P + (P - 1)
               /\ ParseInt(b \o r, p) = <<[val |-> i.val, rest |-> r]>>
<1> DEFINE b == IntBytes(i, p, pre)
<1>1. PICK o \in Octet, t \in Seq(Octet) :
              /\ b = <<o>> \o t
              /\ o \in pre * P..pre * P + (P - 1) /\ p \in {4, 5, 6, 7}
              /\ \/ t = <<>> /\ Mantissa(o, p) = i.val /\ i.val # Mask(p)
                 \/ /\ Ended(t) /\ Mantissa(o, p) = Mask(p)
                    /\ Mask(p) + Value(t) = i.val /\ i.val # 0
  BY IntBytesAre
<1> HIDE DEF b
<1>2. b \in Seq(Octet) /\ Len(b) >= 1 /\ b[1] = o
  <2>1. Len(t) \in Nat
    OBVIOUS
  <2> QED
    BY <1>1, <2>1, Prepended
<1>3. b \o r = <<o>> \o (t \o r)
  <2>1. <<o>> \in Seq(Octet)
    OBVIOUS
  <2> QED
    BY <1>1, <2>1, JoinedInThree
<1>4. ParseInt(b \o r, p) = <<[val |-> i.val, rest |-> r]>>
  <2>1. CASE t = <<>> /\ Mantissa(o, p) = i.val /\ i.val # Mask(p)
    <3>1. t \o r = r
      BY <2>1
    <3> QED
      BY <1>1, <1>3, <2>1, <3>1, ShortInt
  <2>2. CASE /\ Ended(t) /\ Mantissa(o, p) = Mask(p)
             /\ Mask(p) + Value(t) = i.val /\ i.val # 0
    <3>1. ParseInt(<<o>> \o (t \o r), p) = <<[val |-> Mask(p) + Value(t), rest |-> r]>>
      <4>1. p \in {4, 5, 6, 7} /\ Ended(t) /\ Mantissa(o, p) = Mask(p)
        BY <1>1, <2>2
      <4> QED
        BY <4>1, LongIntIs
    <3> QED
      BY <1>3, <2>2, <3>1
  <2> QED
    BY <1>1, <2>1, <2>2
<1> QED
  BY <1>1, <1>2, <1>4 DEF b

LEMMA IntBytesTyped ==
    ASSUME NEW i \in WrittenInt, NEW p, NEW pre, NEW P, Prefix(p, pre, P)
    PROVE  LET b == IntBytes(i, p, pre)
           IN  b \in Seq(Octet) /\ Len(b) >= 1 /\ b[1] \in pre * P..pre * P + (P - 1)
<1> DEFINE r == <<>>
<1>1. r \in Seq(Octet)
  OBVIOUS
<1> HIDE DEF r
<1> QED
  BY <1>1, IntComesBack

LEMMA TornIntRefused ==
    ASSUME NEW i \in WrittenInt, NEW p, NEW pre, NEW P, Prefix(p, pre, P),
           NEW d, Torn(d, IntBytes(i, p, pre)), d # <<>>
    PROVE  ParseInt(d, p) = <<>>
<1> DEFINE b == IntBytes(i, p, pre)
<1>1. PICK o \in Octet, t \in Seq(Octet) :
              /\ b = <<o>> \o t
              /\ o \in pre * P..pre * P + (P - 1) /\ p \in {4, 5, 6, 7}
              /\ \/ t = <<>> /\ Mantissa(o, p) = i.val /\ i.val # Mask(p)
                 \/ /\ Ended(t) /\ Mantissa(o, p) = Mask(p)
                    /\ Mask(p) + Value(t) = i.val /\ i.val # 0
  BY IntBytesAre
<1>2. Torn(d, b)
  OBVIOUS
<1> HIDE DEF b
<1>3. <<o>> \in Seq(Octet) /\ Len(<<o>>) = 1
  OBVIOUS
<1>4. ~Torn(d, <<o>>)
  <2> SUFFICES ASSUME Torn(d, <<o>>) PROVE FALSE
    OBVIOUS
  <2> DEFINE u == <<o>>
  <2>1. u \in Seq(Octet) /\ Len(u) = 1
    BY <1>3
  <2>2. Torn(d, u)
    OBVIOUS
  <2> HIDE DEF u
  <2>3. d \in Seq(Octet) /\ Len(d) < 1 /\ Len(d) \in Nat
    BY <2>1, <2>2, TornIs
  <2> QED
    BY <2>3
<1>5. PICK e \in Seq(Octet) : Torn(e, t) /\ d = <<o>> \o e
  <2> DEFINE u == <<o>>
  <2>1. u \in Seq(Octet) /\ ~Torn(d, u)
    BY <1>3, <1>4
  <2>2. b = u \o t
    BY <1>1
  <2> HIDE DEF u
  <2>3. Torn(d, u \o t)
    BY <1>2, <2>2
  <2>4. TornBehind(d, u, t, Octet)
    BY <2>1, <2>3, TornJoined
  <2> QED
    BY <2>4 DEF u, TornBehind
<1>6. Len(e) < Len(t) /\ Len(e) \in Nat /\ \A k \in 1..Len(e) : e[k] = t[k]
  BY <1>5, TornIs
<1>7. Ended(t) /\ Mantissa(o, p) = Mask(p)
  <2>1. t # <<>>
    BY <1>6
  <2> QED
    BY <1>1, <2>1
<1>8. \A k \in 1..Len(e) : e[k] >= 128
  BY <1>6, <1>7 DEF Ended
<1> QED
  BY <1>1, <1>5, <1>7, <1>8, TornInt
-----------------------------------------------------------------------------
(* Bits and octets.                                                        *)
LEMMA EightBits ==
    ASSUME NEW o \in Octet
    PROVE  /\ ToBits(o) \in Seq(Bit) /\ Len(ToBits(o)) = 8
           /\ \A i \in 1..8 : ToBits(o)[i] \in Bit
           /\ OctetOf(ToBits(o)) = o
<1> DEFINE b == ToBits(o)
<1>1. b = [i \in 1..8 |-> (o \div 2^(8 - i)) % 2]
  BY DEF ToBits
<1>2. /\ 2^(8 - 1) = 128 /\ 2^(8 - 2) = 64 /\ 2^(8 - 3) = 32 /\ 2^(8 - 4) = 16
      /\ 2^(8 - 5) = 8 /\ 2^(8 - 6) = 4 /\ 2^(8 - 7) = 2 /\ 2^(8 - 8) = 1
  OBVIOUS
<1> DEFINE bit(i) == (o \div 2^(8 - i)) % 2
<1>3. \A i \in 1..8 : b[i] = bit(i)
  BY <1>1
<1>4. b[1] = bit(1) /\ b[2] = bit(2) /\ b[3] = bit(3) /\ b[4] = bit(4)
  <2> HIDE DEF bit, b
  <2> QED
    BY <1>3
<1>5. b[5] = bit(5) /\ b[6] = bit(6) /\ b[7] = bit(7) /\ b[8] = bit(8)
  <2> HIDE DEF bit, b
  <2> QED
    BY <1>3
<1> HIDE DEF b
<1>6. b[1] = (o \div 128) % 2 /\ b[2] = (o \div 64) % 2 /\ b[3] = (o \div 32) % 2 /\ b[4] = (o \div 16) % 2
  BY <1>2, <1>4
<1>7. b[5] = (o \div 8) % 2 /\ b[6] = (o \div 4) % 2 /\ b[7] = (o \div 2) % 2 /\ b[8] = (o \div 1) % 2
  BY <1>2, <1>5
<1>8. o \in Nat /\ o <= 255
  BY OctetIsNatural
<1>9. OctetOf(b) = o
  BY <1>6, <1>7, <1>8 DEF OctetOf
<1>10. /\ b[1] \in Bit /\ b[2] \in Bit /\ b[3] \in Bit /\ b[4] \in Bit
       /\ b[5] \in Bit /\ b[6] \in Bit /\ b[7] \in Bit /\ b[8] \in Bit
  BY <1>6, <1>7, <1>8 DEF Bit
<1>11. \A i \in 1..8 : b[i] \in Bit
  BY <1>10
<1>12. b \in Seq(Bit) /\ Len(b) = 8
  BY <1>1, <1>11
<1> QED
  BY <1>9, <1>11, <1>12 DEF b

LEMMA OctetOfBits ==
    ASSUME NEW b \in Seq(Bit), Len(b) = 8
    PROVE  OctetOf(b) \in Octet /\ ToBits(OctetOf(b)) = b
<1> DEFINE o == OctetOf(b)
           c == ToBits(o)
<1>0. \A i \in 1..8 : b[i] \in {0, 1}
  <2>1. \A i \in 1..Len(b) : b[i] \in Bit
    BY ElementOfSeq
  <2>2. \A i \in 1..8 : b[i] \in Bit
    BY <2>1
  <2> QED
    BY <2>2 DEF Bit
<1>1. /\ b[1] \in {0, 1} /\ b[2] \in {0, 1} /\ b[3] \in {0, 1} /\ b[4] \in {0, 1}
      /\ b[5] \in {0, 1} /\ b[6] \in {0, 1} /\ b[7] \in {0, 1} /\ b[8] \in {0, 1}
  BY <1>0
<1>2. o = 128 * b[1] + 64 * b[2] + 32 * b[3] + 16 * b[4] + 8 * b[5] + 4 * b[6] + 2 * b[7] + b[8]
  BY DEF OctetOf
<1>3. /\ o \in Octet
      /\ (o \div 128) % 2 = b[1] /\ (o \div 64) % 2 = b[2] /\ (o \div 32) % 2 = b[3]
      /\ (o \div 16) % 2 = b[4] /\ (o \div 8) % 2 = b[5] /\ (o \div 4) % 2 = b[6]
      /\ (o \div 2) % 2 = b[7] /\ (o \div 1) % 2 = b[8]
  <2> DEFINE a1 == b[1]
             a2 == b[2]
             a3 == b[3]
             a4 == b[4]
             a5 == b[5]
             a6 == b[6]
             a7 == b[7]
             a8 == b[8]
  <2>1. /\ a1 \in {0, 1} /\ a2 \in {0, 1} /\ a3 \in {0, 1} /\ a4 \in {0, 1}
        /\ a5 \in {0, 1} /\ a6 \in {0, 1} /\ a7 \in {0, 1} /\ a8 \in {0, 1}
    BY <1>1
  <2>2. o = 128 * a1 + 64 * a2 + 32 * a3 + 16 * a4 + 8 * a5 + 4 * a6 + 2 * a7 + a8
    BY <1>2
  <2> HIDE DEF o, a1, a2, a3, a4, a5, a6, a7, a8
  <2>3. /\ o \in 0..255
        /\ (o \div 128) % 2 = a1 /\ (o \div 64) % 2 = a2 /\ (o \div 32) % 2 = a3
        /\ (o \div 16) % 2 = a4 /\ (o \div 8) % 2 = a5 /\ (o \div 4) % 2 = a6
        /\ (o \div 2) % 2 = a7 /\ (o \div 1) % 2 = a8
    <3>1. o \in 0..255
      BY <2>1, <2>2
    <3>2. (o \div 128) % 2 = a1 /\ (o \div 64) % 2 = a2
      BY <2>1, <2>2
    <3>3. (o \div 32) % 2 = a3 /\ (o \div 16) % 2 = a4
      BY <2>1, <2>2
    <3>4. (o \div 8) % 2 = a5 /\ (o \div 4) % 2 = a6
      BY <2>1, <2>2
    <3>5. (o \div 2) % 2 = a7 /\ (o \div 1) % 2 = a8
      BY <2>1, <2>2
    <3> QED
      BY <3>1, <3>2, <3>3, <3>4, <3>5
  <2> QED
    BY <2>3 DEF Octet, a1, a2, a3, a4, a5, a6, a7, a8
<1>4. /\ 2^(8 - 1) = 128 /\ 2^(8 - 2) = 64 /\ 2^(8 - 3) = 32 /\ 2^(8 - 4) = 16
      /\ 2^(8 - 5) = 8 /\ 2^(8 - 6) = 4 /\ 2^(8 - 7) = 2 /\ 2^(8 - 8) = 1
  OBVIOUS
<1>5. c \in Seq(Bit) /\ Len(c) = 8
  <2> HIDE DEF o
  <2> QED
    BY <1>3, EightBits
<1> DEFINE bit(i) == (o \div 2^(8 - i)) % 2
<1>6. \A i \in 1..8 : c[i] = bit(i)
  BY DEF ToBits
<1> HIDE DEF o
<1>7. c[1] = b[1] /\ c[2] = b[2] /\ c[3] = b[3] /\ c[4] = b[4]
  <2>1. c[1] = bit(1) /\ c[2] = bit(2) /\ c[3] = bit(3) /\ c[4] = bit(4)
    <3> HIDE DEF bit, c
    <3> QED
      BY <1>6
  <2> HIDE DEF c
  <2> QED
    BY <1>3, <1>4, <2>1
<1>8. c[5] = b[5] /\ c[6] = b[6] /\ c[7] = b[7] /\ c[8] = b[8]
  <2>1. c[5] = bit(5) /\ c[6] = bit(6) /\ c[7] = bit(7) /\ c[8] = bit(8)
    <3> HIDE DEF bit, c
    <3> QED
      BY <1>6
  <2> HIDE DEF c
  <2> QED
    BY <1>3, <1>4, <2>1
<1> HIDE DEF c
<1>9. \A i \in 1..Len(c) : c[i] = b[i]
  BY <1>5, <1>7, <1>8
<1>10. c = b
  BY <1>5, <1>9, SeqEqual
<1> QED
  BY <1>3, <1>10 DEF c, o

(* b has the bits of s, octet by octet. *)
HasBits(b, s) == \A n \in 1..Len(s), i \in 1..8 : b[8 * (n - 1) + i] = ToBits(s[n])[i]

LEMMA BitsAre ==
    ASSUME NEW s \in Seq(Octet)
    PROVE  Bits(s) \in Seq(Bit) /\ Len(Bits(s)) = 8 * Len(s) /\ HasBits(Bits(s), s)
<1> DEFINE m == 8 * Len(s)
           b == Bits(s)
           at(k) == ToBits(s[((k - 1) \div 8) + 1])[((k - 1) % 8) + 1]
<1>1. m \in Nat /\ Len(s) \in Nat
  OBVIOUS
<1>2. ASSUME NEW k \in 1..m
      PROVE  ((k - 1) \div 8) + 1 \in 1..Len(s) /\ ((k - 1) % 8) + 1 \in 1..8
  OBVIOUS
<1>3. ASSUME NEW k \in 1..m
      PROVE  at(k) \in Bit
  <2> DEFINE n == ((k - 1) \div 8) + 1
             i == ((k - 1) % 8) + 1
  <2>1. n \in 1..Len(s) /\ i \in 1..8
    BY <1>2
  <2> HIDE DEF n, i
  <2>2. s[n] \in Octet
    BY <2>1
  <2>3. ToBits(s[n])[i] \in Bit
    BY <2>1, <2>2, EightBits
  <2> QED
    BY <2>3 DEF n, i
<1>4. b = [k \in 1..m |-> at(k)]
  BY DEF Bits
<1>5. ASSUME NEW n \in 1..Len(s), NEW i \in 1..8
      PROVE  b[8 * (n - 1) + i] = ToBits(s[n])[i]
  <2> DEFINE k == 8 * (n - 1) + i
  <2>1. k \in 1..m /\ ((k - 1) \div 8) + 1 = n /\ ((k - 1) % 8) + 1 = i
    OBVIOUS
  <2> HIDE DEF k, m
  <2>2. b[k] = at(k)
    BY <1>4, <2>1
  <2>3. at(k) = ToBits(s[n])[i]
    BY <2>1
  <2> QED
    BY <2>2, <2>3 DEF k
<1>6. b \in Seq(Bit) /\ Len(b) = m
  <2> HIDE DEF m, at
  <2> QED
    BY <1>1, <1>3, <1>4
<1> QED
  BY <1>5, <1>6 DEF HasBits

LEMMA OctetsAre ==
    ASSUME NEW b \in Seq(Bit)
    PROVE  /\ Octets(b) \in Seq(Octet) /\ Len(Octets(b)) = Len(b) \div 8
           /\ \A n \in 1..(Len(b) \div 8) :
                /\ SubSeq(b, 8*n - 7, 8*n) \in Seq(Bit) /\ Len(SubSeq(b, 8*n - 7, 8*n)) = 8
                /\ \A i \in 1..8 : SubSeq(b, 8*n - 7, 8*n)[i] = b[8 * (n - 1) + i]
                /\ Octets(b)[n] = OctetOf(SubSeq(b, 8*n - 7, 8*n))
<1> DEFINE m == Len(b) \div 8
           piece(n) == SubSeq(b, 8*n - 7, 8*n)
<1>1. Len(b) \in Nat /\ m \in Nat
  OBVIOUS
<1>2. ASSUME NEW n \in 1..m
      PROVE  /\ piece(n) \in Seq(Bit) /\ Len(piece(n)) = 8
             /\ \A i \in 1..8 : piece(n)[i] = b[8 * (n - 1) + i]
  <2> DEFINE x == 8 * (n - 1)
             y == 8 * n
  <2>1. x \in Nat /\ y \in Nat /\ x + 8 = y /\ y <= Len(b) /\ 8*n - 7 = x + 1
    BY <1>1
  <2> HIDE DEF x, y
  <2>2. /\ SubSeq(b, x + 1, y) \in Seq(Bit) /\ Len(SubSeq(b, x + 1, y)) = 8
        /\ \A i \in 1..8 : SubSeq(b, x + 1, y)[i] = b[x + i]
    BY <2>1
  <2> QED
    BY <2>1, <2>2 DEF x, y
<1>3. \A n \in 1..m : OctetOf(piece(n)) \in Octet
  <2> HIDE DEF m, piece
  <2> QED
    BY <1>2, OctetOfBits
<1>4. Octets(b) = [n \in 1..m |-> OctetOf(piece(n))]
  BY DEF Octets
<1>5. Octets(b) \in Seq(Octet) /\ Len(Octets(b)) = m /\ \A n \in 1..m : Octets(b)[n] = OctetOf(piece(n))
  <2> HIDE DEF m, piece
  <2> QED
    BY <1>1, <1>3, <1>4
<1> QED
  BY <1>2, <1>5

LEMMA OctetsOfBits ==
    ASSUME NEW s \in Seq(Octet)
    PROVE  Octets(Bits(s)) = s
<1> DEFINE b == Bits(s)
           t == Octets(b)
           piece(n) == SubSeq(b, 8*n - 7, 8*n)
<1>1. b \in Seq(Bit) /\ Len(b) = 8 * Len(s) /\ Len(s) \in Nat /\ HasBits(b, s)
  BY BitsAre
<1> HIDE DEF b
<1>2. Len(b) \div 8 = Len(s)
  BY <1>1
<1>3. /\ t \in Seq(Octet) /\ Len(t) = Len(s)
      /\ \A n \in 1..Len(s) :
            /\ piece(n) \in Seq(Bit) /\ Len(piece(n)) = 8
            /\ \A i \in 1..8 : piece(n)[i] = b[8 * (n - 1) + i]
            /\ t[n] = OctetOf(piece(n))
  BY <1>1, <1>2, OctetsAre
<1> HIDE DEF t, piece
<1>4. ASSUME NEW n \in 1..Len(s)
      PROVE  t[n] = s[n]
  <2>1. s[n] \in Octet
    OBVIOUS
  <2>2. ToBits(s[n]) \in Seq(Bit) /\ Len(ToBits(s[n])) = 8 /\ OctetOf(ToBits(s[n])) = s[n]
    BY <2>1, EightBits
  <2>3. \A i \in 1..8 : piece(n)[i] = ToBits(s[n])[i]
    BY <1>1, <1>3 DEF HasBits
  <2>4. piece(n) = ToBits(s[n])
    BY <1>3, <2>2, <2>3, SeqEqual
  <2> QED
    BY <1>3, <2>2, <2>4
<1>5. t = s
  BY <1>3, <1>4, SeqEqual
<1> QED
  BY <1>5 DEF t, b

LEMMA BitsOfOctets ==
    ASSUME NEW b \in Seq(Bit), NEW m \in Nat, Len(b) = 8 * m
    PROVE  Bits(Octets(b)) = b
<1> DEFINE s == Octets(b)
           c == Bits(s)
           piece(n) == SubSeq(b, 8*n - 7, 8*n)
<1>1. Len(b) \div 8 = m
  OBVIOUS
<1>2. /\ s \in Seq(Octet) /\ Len(s) = m
      /\ \A n \in 1..m :
            /\ piece(n) \in Seq(Bit) /\ Len(piece(n)) = 8
            /\ \A i \in 1..8 : piece(n)[i] = b[8 * (n - 1) + i]
            /\ s[n] = OctetOf(piece(n))
  BY <1>1, OctetsAre
<1> HIDE DEF s
<1>3. c \in Seq(Bit) /\ Len(c) = 8 * m /\ HasBits(c, s)
  BY <1>2, BitsAre
<1> HIDE DEF c, piece
<1>4. ASSUME NEW n \in 1..m, NEW i \in 1..8
      PROVE  c[8 * (n - 1) + i] = b[8 * (n - 1) + i]
  <2>1. ToBits(s[n]) = piece(n)
    BY <1>2, OctetOfBits
  <2>2. c[8 * (n - 1) + i] = ToBits(s[n])[i]
    BY <1>2, <1>3 DEF HasBits
  <2>3. piece(n)[i] = b[8 * (n - 1) + i]
    BY <1>2
  <2> QED
    BY <2>1, <2>2, <2>3
<1>5. ASSUME NEW k \in 1..8 * m
      PROVE  c[k] = b[k]
  <2> DEFINE n == ((k - 1) \div 8) + 1
             i == ((k - 1) % 8) + 1
  <2>1. n \in 1..m /\ i \in 1..8 /\ 8 * (n - 1) + i = k
    OBVIOUS
  <2> HIDE DEF n, i
  <2>2. c[8 * (n - 1) + i] = b[8 * (n - 1) + i]
    BY <1>4, <2>1
  <2> QED
    BY <2>1, <2>2
<1>6. c = b
  BY <1>3, <1>5, SeqEqual
<1> QED
  BY <1>6 DEF c, s
-----------------------------------------------------------------------------
(* The Huffman code.  u is where a codeword v begins.                      *)
Begins(u, v) == Len(u) <= Len(v) /\ \A i \in 1..Len(u) : u[i] = v[i]

LEMMA Code ==
    /\ EOS \in 1..256 /\ EOS \in Nat /\ DOMAIN Codewords = 0..EOS
    /\ \A c \in 0..EOS : Codewords[c] \in Seq(Bit)
    /\ \A c \in 0..EOS, d \in 0..EOS : Begins(Codewords[c], Codewords[d]) => c = d
    /\ Len(Codewords[EOS]) > 7 /\ \A i \in 1..Len(Codewords[EOS]) : Codewords[EOS][i] = 1
    /\ CodePoints = 0..EOS - 1 /\ CodePoints \subseteq Octet /\ CodePoints \subseteq 0..EOS
<1>1. EOS \in 1..256 /\ Codewords \in [0..EOS -> Seq(Bit)]
  BY HpackAssumption
<1>2. EOS \in Nat /\ EOS \in 0..EOS /\ DOMAIN Codewords = 0..EOS
  BY <1>1
<1>3. \A c \in 0..EOS : Codewords[c] \in Seq(Bit)
  BY <1>1
<1>4. ASSUME NEW c \in 0..EOS, NEW d \in 0..EOS, Begins(Codewords[c], Codewords[d])
      PROVE  c = d
  <2> DEFINE u == Codewords[c]
             v == Codewords[d]
             n == Len(u)
             x == SubSeq(u, 1, n)
             y == SubSeq(v, 1, n)
  <2>1. u \in Seq(Bit) /\ v \in Seq(Bit) /\ Begins(u, v)
    BY <1>3, <1>4
  <2> HIDE DEF u, v
  <2>2. n \in 0..Len(u) /\ n \in 0..Len(v) /\ n \in Nat
    BY <2>1 DEF Begins
  <2>3. x \in Seq(Bit) /\ Len(x) = n /\ \A i \in 1..n : x[i] = u[i]
    BY <2>1, <2>2, FirstOf
  <2>4. y \in Seq(Bit) /\ Len(y) = n /\ \A i \in 1..n : y[i] = v[i]
    <3> HIDE DEF n
    <3> QED
      BY <2>1, <2>2, FirstOf
  <2>5. \A i \in 1..n : u[i] = v[i]
    BY <2>1 DEF Begins
  <2> HIDE DEF x, y
  <2>6. x = y
    <3>1. \A i \in 1..Len(x) : x[i] = y[i]
      BY <2>3, <2>4, <2>5
    <3> QED
      BY <2>3, <2>4, <3>1, SeqEqual
  <2>7. IsPrefix(u, v)
    BY <2>1, <2>6 DEF IsPrefix, Begins, x, y, n
  <2> QED
    BY <2>7, HpackAssumption DEF u, v
<1>5. Len(Codewords[EOS]) > 7 /\ \A i \in 1..Len(Codewords[EOS]) : Codewords[EOS][i] = 1
  <2>1. Codewords[EOS] \in Seq(Bit)
    BY <1>2, <1>3
  <2>2. DOMAIN Codewords[EOS] = 1..Len(Codewords[EOS])
    BY <2>1
  <2> QED
    BY <2>2, HpackAssumption
<1>6. CodePoints = 0..EOS - 1
  <2>1. CodePoints = (0..EOS) \ {EOS}
    BY <1>2 DEF CodePoints
  <2> QED
    BY <1>2, <2>1
<1>7. CodePoints \subseteq Octet /\ CodePoints \subseteq 0..EOS
  BY <1>1, <1>6 DEF Octet
<1> QED
  BY <1>1, <1>2, <1>3, <1>4, <1>5, <1>6, <1>7

(* Only EOS adds what is not a code point.                                 *)
Walker == {w \in [path : Seq(Bit), result : Seq(0..EOS), eos : BOOLEAN] :
                ~w.eos => w.result \in Seq(CodePoints)}

Found(w, bit) == {c \in DOMAIN Codewords : Codewords[c] = Append(w.path, bit)}

LEMMA StepIsTyped ==
    ASSUME NEW w \in Walker, NEW bit \in Bit
    PROVE  Step(w, bit) \in Walker
<1>1. w \in [path : Seq(Bit), result : Seq(0..EOS), eos : BOOLEAN] /\ (~w.eos => w.result \in Seq(CodePoints))
  BY DEF Walker
<1>2. w.path \in Seq(Bit) /\ w.result \in Seq(0..EOS) /\ w.eos \in BOOLEAN
  BY <1>1
<1>3. Append(w.path, bit) \in Seq(Bit)
  BY <1>2
<1>4. CASE Found(w, bit) = {}
  <2> DEFINE u == Append(w.path, bit)
             r == w.result
             e == w.eos
             x == [path |-> u, result |-> r, eos |-> e]
  <2>1. Step(w, bit) = x
    BY <1>4 DEF Step, Found
  <2>2. u \in Seq(Bit) /\ r \in Seq(0..EOS) /\ e \in BOOLEAN /\ (~e => r \in Seq(CodePoints))
    BY <1>1, <1>2, <1>3
  <2> HIDE DEF u, r, e
  <2>3. x \in Walker
    BY <2>2 DEF Walker
  <2> QED
    BY <2>1, <2>3
<1>5. CASE Found(w, bit) # {}
  <2> DEFINE c == CHOOSE y \in Found(w, bit) : TRUE
             r == Append(w.result, c)
             e == w.eos \/ EOS \in Found(w, bit)
             x == [path |-> <<>>, result |-> r, eos |-> e]
  <2>1. Step(w, bit) = x
    BY <1>5 DEF Step, Found
  <2>2. c \in Found(w, bit)
    BY <1>5
  <2> HIDE DEF c
  <2>3. c \in 0..EOS /\ (~(EOS \in Found(w, bit)) => c \in CodePoints)
    BY <2>2, Code DEF Found
  <2>4. r \in Seq(0..EOS) /\ (~e => r \in Seq(CodePoints))
    BY <1>1, <1>2, <2>3
  <2>5. <<>> \in Seq(Bit) /\ e \in BOOLEAN
    OBVIOUS
  <2> HIDE DEF r, e
  <2>6. x \in Walker
    BY <2>4, <2>5 DEF Walker
  <2> QED
    BY <2>1, <2>6
<1> QED
  BY <1>4, <1>5

Walks(bits, W) == W = [n \in 0..Len(bits) |-> IF n = 0 THEN AtTheRoot ELSE Step(W[n - 1], bits[n])]

LEMMA RootIsTyped == AtTheRoot \in Walker
<1>1. <<>> \in Seq(Bit) /\ <<>> \in Seq(0..EOS) /\ <<>> \in Seq(CodePoints) /\ FALSE \in BOOLEAN
  OBVIOUS
<1> QED
  BY <1>1 DEF AtTheRoot, Walker

LEMMA WalksExist ==
    ASSUME NEW b \in Seq(Bit)
    PROVE  \E W : Walks(b, W)
<1> DEFINE at == [n \in Nat |-> IF n \in 1..Len(b) THEN b[n] ELSE 0]
           before == [n \in Nat |-> IF n = 0 THEN 0 ELSE n - 1]
           go == [x \in Nat \X Walker |-> Step(x[2], at[x[1]])]
<1>1. at \in [Nat -> Bit]
  <2>1. \A n \in 1..Len(b) : b[n] \in Bit
    BY ElementOfSeq
  <2>2. 0 \in Bit
    BY DEF Bit
  <2> QED
    BY <2>1, <2>2
<1> HIDE DEF at
<1>2. go \in [Nat \X Walker -> Walker]
  <2>1. ASSUME NEW x \in Nat \X Walker
        PROVE  Step(x[2], at[x[1]]) \in Walker
    <3>1. x[1] \in Nat /\ x[2] \in Walker
      OBVIOUS
    <3>2. at[x[1]] \in Bit
      BY <1>1, <3>1
    <3> QED
      BY <3>1, <3>2, StepIsTyped
  <2> QED
    BY <2>1
<1>3. Founded(Walker, AtTheRoot, before, go)
  <2>1. before \in [Nat -> Nat] /\ \A n \in Nat \ {0} : before[n] < n
    OBVIOUS
  <2> HIDE DEF before, go
  <2> QED
    BY <1>2, <2>1, RootIsTyped DEF Founded
<1>4. \A n \in Nat, w \in Walker : go[<<n, w>>] = Step(w, at[n])
  OBVIOUS
<1>5. PICK f \in [Nat -> Walker] : f[0] = AtTheRoot /\ \A n \in Nat \ {0} : f[n] = go[<<n, f[before[n]]>>]
  <2> HIDE DEF go, before
  <2> QED
    BY <1>3, RecursionExists
<1>6. \A n \in Nat \ {0} : f[n] = Step(f[n - 1], at[n])
  <2>1. \A n \in Nat \ {0} : before[n] = n - 1 /\ n - 1 \in Nat /\ f[n - 1] \in Walker
    OBVIOUS
  <2> HIDE DEF go, before
  <2> SUFFICES ASSUME NEW n \in Nat \ {0} PROVE f[n] = Step(f[n - 1], at[n])
    OBVIOUS
  <2>2. f[n] = go[<<n, f[n - 1]>>] /\ f[n - 1] \in Walker /\ n \in Nat
    BY <1>5, <2>1
  <2> QED
    BY <1>4, <2>2
<1> DEFINE W == [n \in 0..Len(b) |-> f[n]]
<1>7. ASSUME NEW n \in 0..Len(b)
      PROVE  W[n] = IF n = 0 THEN AtTheRoot ELSE Step(W[n - 1], b[n])
  <2>1. CASE n = 0
    BY <1>5, <2>1
  <2>2. CASE n # 0
    <3>1. n \in Nat \ {0} /\ n \in 1..Len(b) /\ n - 1 \in 0..Len(b)
      BY <2>2
    <3>2. at[n] = b[n]
      BY <3>1 DEF at
    <3>3. W[n] = f[n] /\ W[n - 1] = f[n - 1]
      BY <3>1
    <3> HIDE DEF W
    <3> QED
      BY <1>6, <2>2, <3>1, <3>2, <3>3
  <2> QED
    BY <2>1, <2>2
<1>8. Walks(b, W)
  BY <1>7 DEF Walks
<1> QED
  BY <1>8

LEMMA WalksAre ==
    ASSUME NEW b \in Seq(Bit), NEW W, Walks(b, W)
    PROVE  /\ W[0] = AtTheRoot
           /\ \A n \in 1..Len(b) : W[n] = Step(W[n - 1], b[n])
           /\ \A n \in 0..Len(b) : W[n] \in Walker
<1> DEFINE R == [n \in 0..Len(b) |-> IF n = 0 THEN AtTheRoot ELSE Step(W[n - 1], b[n])]
<1>1. W = R
  BY DEF Walks
<1>2. R[0] = AtTheRoot /\ \A n \in 1..Len(b) : R[n] = Step(W[n - 1], b[n])
  OBVIOUS
<1> HIDE DEF R
<1>3. W[0] = AtTheRoot /\ \A n \in 1..Len(b) : W[n] = Step(W[n - 1], b[n])
  BY <1>1, <1>2
<1> DEFINE T == {n \in Nat : n <= Len(b) => W[n] \in Walker}
<1>4. 0 \in T
  BY <1>3, RootIsTyped
<1>5. ASSUME NEW n \in Nat, n \in T
      PROVE  n + 1 \in T
  <2> SUFFICES ASSUME n + 1 <= Len(b) PROVE W[n + 1] \in Walker
    OBVIOUS
  <2>1. W[n] \in Walker /\ n + 1 \in 1..Len(b) /\ n + 1 - 1 = n
    BY <1>5
  <2>2. b[n + 1] \in Bit
    BY <2>1, ElementOfSeq
  <2>3. W[n + 1] = Step(W[n + 1 - 1], b[n + 1])
    BY <1>3, <2>1
  <2>4. W[n + 1] = Step(W[n], b[n + 1])
    BY <2>1, <2>3
  <2> QED
    BY <2>1, <2>2, <2>4, StepIsTyped
<1>6. Nat \subseteq T
  <2> HIDE DEF T
  <2> QED
    BY <1>4, <1>5, SetInduction
<1> QED
  BY <1>3, <1>6

(* The walk is one of these functions.                                     *)
LEMMA WalkIs ==
    ASSUME NEW b \in Seq(Bit)
    PROVE  \E W : Walks(b, W) /\ Walk(b) = W[Len(b)] /\ Walk(b) \in Walker
<1> DEFINE W == CHOOSE V : Walks(b, V)
<1>1. Walk(b) = W[Len(b)]
  BY DEF Walk, Walks
<1>2. Walks(b, W)
  BY WalksExist
<1> HIDE DEF W
<1>3. Len(b) \in 0..Len(b)
  OBVIOUS
<1> QED
  BY <1>1, <1>2, <1>3, WalksAre

-----------------------------------------------------------------------------
LEMMA OneMore ==
    ASSUME NEW S, NEW s \in Seq(S), NEW j \in Nat, j + 1 <= Len(s)
    PROVE  Append(SubSeq(s, 1, j), s[j + 1]) = SubSeq(s, 1, j + 1)
OBVIOUS

(* Down the tree along a codeword, from the root at n.                     *)
On(path, result) == [path |-> path, result |-> result, eos |-> FALSE]

Leads(b, n, c, k) ==
    /\ n + k <= Len(b) /\ k <= Len(Codewords[c])
    /\ \A j \in 1..k : b[n + j] = Codewords[c][j]

LEMMA Descends ==
    ASSUME NEW b \in Seq(Bit), NEW W, Walks(b, W), NEW r, NEW n \in Nat, W[n] = On(<<>>, r),
           NEW c \in 0..EOS, NEW k \in Nat, Leads(b, n, c, k), k < Len(Codewords[c])
    PROVE  W[n + k] = On(SubSeq(Codewords[c], 1, k), r)
<1> DEFINE v == Codewords[c]
           T == {j \in Nat : j <= k => W[n + j] = On(SubSeq(v, 1, j), r)}
<1>1. v \in Seq(Bit) /\ n + k <= Len(b) /\ k < Len(v) /\ \A j \in 1..k : b[n + j] = v[j]
  BY Code DEF Leads
<1>2. Len(v) \in Nat /\ Len(b) \in Nat
  BY <1>1
<1>3. 0 \in T
  <2>1. SubSeq(v, 1, 0) = <<>> /\ n + 0 = n
    BY <1>1
  <2> QED
    BY <2>1
<1>4. ASSUME NEW j \in Nat, j \in T
      PROVE  j + 1 \in T
  <2> SUFFICES ASSUME j + 1 <= k PROVE W[n + (j + 1)] = On(SubSeq(v, 1, j + 1), r)
    OBVIOUS
  <2> DEFINE m == n + (j + 1)
             u == SubSeq(v, 1, j)
             x == SubSeq(v, 1, j + 1)
             w == On(u, r)
  <2>1. m \in 1..Len(b) /\ m - 1 = n + j /\ j + 1 \in 1..k /\ j + 1 \in 0..Len(v) /\ j + 1 < Len(v)
    BY <1>1, <1>2
  <2>2. W[n + j] = w
    BY <1>4
  <2>3. b[m] = v[j + 1]
    BY <1>1, <2>1
  <2> HIDE DEF m, v
  <2>4. Append(u, v[j + 1]) = x
    BY <1>1, <2>1, OneMore
  <2>5. x \in Seq(Bit) /\ Len(x) = j + 1 /\ \A i \in 1..j + 1 : x[i] = v[i]
    BY <1>1, <2>1, FirstOf
  <2> HIDE DEF u, x
  <2>6. Found(w, v[j + 1]) = {}
    <3> SUFFICES ASSUME NEW d \in Found(w, v[j + 1]) PROVE FALSE
      OBVIOUS
    <3>1. d \in 0..EOS /\ Codewords[d] = x
      BY <2>4, Code DEF Found, On
    <3>2. Begins(Codewords[d], v)
      BY <1>2, <2>1, <2>5, <3>1 DEF Begins
    <3>3. d = c
      BY <3>1, <3>2, Code DEF v
    <3> QED
      BY <2>1, <2>5, <3>1, <3>3 DEF v
  <2>7. Step(w, v[j + 1]) = On(x, r)
    <3>1. Step(w, v[j + 1]) = [path |-> Append(w.path, v[j + 1]), result |-> w.result, eos |-> w.eos]
      BY <2>6 DEF Step, Found
    <3>2. w.path = u /\ w.result = r /\ w.eos = FALSE
      BY DEF On
    <3> HIDE DEF w
    <3> QED
      BY <2>4, <3>1, <3>2 DEF On
  <2>8. W[m] = Step(W[m - 1], b[m])
    BY <2>1, WalksAre
  <2>9. W[m] = On(x, r)
    BY <2>1, <2>2, <2>3, <2>7, <2>8
  <2> QED
    BY <2>9 DEF m, x
<1>5. Nat \subseteq T
  <2> HIDE DEF T
  <2> QED
    BY <1>3, <1>4, SetInduction
<1> QED
  BY <1>5

(* At the end of the codeword of a code point, back at the root.           *)
LEMMA Arrives ==
    ASSUME NEW b \in Seq(Bit), NEW W, Walks(b, W), NEW r, NEW n \in Nat, W[n] = On(<<>>, r),
           NEW c \in CodePoints, Leads(b, n, c, Len(Codewords[c]))
    PROVE  W[n + Len(Codewords[c])] = On(<<>>, Append(r, c))
<1> DEFINE v == Codewords[c]
           k == Len(v)
           j == k - 1
           u == SubSeq(v, 1, j)
           w == On(u, r)
<1>1. c \in 0..EOS /\ c # EOS /\ EOS \in 0..EOS /\ v \in Seq(Bit) /\ k \in Nat /\ Len(b) \in Nat
  <2>1. c \in 0..EOS /\ EOS \in 0..EOS /\ c # EOS
    BY Code DEF CodePoints
  <2>2. v \in Seq(Bit)
    BY <2>1, Code
  <2> QED
    BY <2>1, <2>2
<1>2. n + k <= Len(b) /\ \A i \in 1..k : b[n + i] = v[i]
  BY DEF Leads
<1>3. k >= 1
  <2> SUFFICES ASSUME k = 0 PROVE FALSE
    BY <1>1
  <2>1. Len(Codewords[EOS]) >= 0
    BY <1>1, Code
  <2>2. Begins(v, Codewords[EOS])
    BY <2>1 DEF Begins
  <2> QED
    BY <1>1, <2>2, Code
<1> HIDE DEF v, k
<1>4. j \in Nat /\ j < k /\ j + 1 = k /\ n + j <= Len(b) /\ n + k \in 1..Len(b) /\ n + k - 1 = n + j
  BY <1>1, <1>2, <1>3
<1> HIDE DEF j
<1>5. Leads(b, n, c, j)
  <2>1. j <= Len(Codewords[c])
    BY <1>1, <1>4 DEF k, v
  <2>2. \A i \in 1..j : i \in 1..k
    BY <1>4
  <2>3. \A i \in 1..j : b[n + i] = v[i]
    BY <1>2, <2>2
  <2> QED
    BY <1>4, <2>1, <2>3 DEF Leads, v
<1>6. W[n + j] = w
  BY <1>1, <1>4, <1>5, Descends DEF v, k
<1>7. Append(u, v[k]) = v
  <2>1. SubSeq(v, 1, k) = v
    BY <1>1 DEF k
  <2>2. Append(SubSeq(v, 1, j), v[j + 1]) = SubSeq(v, 1, j + 1)
    BY <1>1, <1>4, OneMore DEF k
  <2> QED
    BY <1>4, <2>1, <2>2
<1> HIDE DEF u
<1>8. Found(w, v[k]) = {c}
  <2>1. Found(w, v[k]) = {d \in 0..EOS : Codewords[d] = v}
    BY <1>7, Code DEF Found, On
  <2>2. ASSUME NEW d \in 0..EOS, Codewords[d] = v
        PROVE  d = c
    <3>1. Begins(Codewords[d], v)
      BY <1>1, <2>2 DEF Begins, k
    <3> QED
      BY <1>1, <3>1, Code DEF v
  <2> QED
    BY <1>1, <2>1, <2>2 DEF v
<1>9. Step(w, v[k]) = On(<<>>, Append(r, c))
  <2> DEFINE x == CHOOSE d \in {c} : TRUE
  <2>1. x = c
    OBVIOUS
  <2>2. w.result = r /\ w.eos = FALSE
    BY DEF On
  <2> HIDE DEF w
  <2>3. Step(w, v[k]) =
          [path |-> <<>>, result |-> Append(w.result, x), eos |-> w.eos \/ EOS \in {c}]
    BY <1>8 DEF Step, Found
  <2> HIDE DEF x
  <2>4. (FALSE \/ EOS \in {c}) = FALSE
    BY <1>1
  <2> QED
    BY <2>1, <2>2, <2>3, <2>4 DEF On
<1>10. W[n + k] = Step(W[n + k - 1], b[n + k])
  BY <1>4, WalksAre
<1>11. b[n + k] = v[k]
  BY <1>2, <1>1, <1>3
<1>12. W[n + k] = On(<<>>, Append(r, c))
  BY <1>4, <1>6, <1>9, <1>10, <1>11
<1> QED
  BY <1>12 DEF k, v

-----------------------------------------------------------------------------
(* Compressed strings.                                                     *)
CodewordsOf(s) == [i \in DOMAIN s |-> Codewords[s[i]]]

LEMMA CodewordsAre ==
    ASSUME NEW s \in Seq(CodePoints)
    PROVE  /\ Pieces(CodewordsOf(s), Len(s), Bit) /\ Len(s) \in Nat
           /\ \A i \in 1..Len(s) : s[i] \in CodePoints /\ CodewordsOf(s)[i] = Codewords[s[i]]
           /\ FlattenSeq(CodewordsOf(s)) = Flat(CodewordsOf(s), Len(s))
<1> DEFINE f == CodewordsOf(s)
<1>1. DOMAIN s = 1..Len(s) /\ Len(s) \in Nat
  OBVIOUS
<1>2. f = [i \in 1..Len(s) |-> Codewords[s[i]]]
  BY <1>1 DEF CodewordsOf
<1>3. \A i \in 1..Len(s) : s[i] \in CodePoints
  BY ElementOfSeq
<1>4. \A i \in 1..Len(s) : f[i] = Codewords[s[i]]
  BY <1>2
<1>5. \A i \in 1..Len(s) : f[i] \in Seq(Bit)
  BY <1>3, <1>4, Code
<1>6. f = [i \in 1..Len(s) |-> f[i]]
  BY <1>2
<1> HIDE DEF f
<1>7. Pieces(f, Len(s), Bit) /\ FlattenSeq(f) = Flat(f, Len(s))
  BY <1>1, <1>5, <1>6 DEF Pieces, Flat
<1> QED
  BY <1>1, <1>3, <1>4, <1>7 DEF f

LEMMA Decodes ==
    ASSUME NEW s \in Seq(CodePoints), NEW t \in Seq(Bit),
           NEW W, Walks(Flat(CodewordsOf(s), Len(s)) \o t, W)
    PROVE  W[Len(Flat(CodewordsOf(s), Len(s)))] = On(<<>>, s)
<1> DEFINE f == CodewordsOf(s)
           m == Len(s)
<1>1. /\ Pieces(f, m, Bit) /\ m \in Nat
      /\ \A i \in 1..m : s[i] \in CodePoints /\ f[i] = Codewords[s[i]]
  BY CodewordsAre
<1> HIDE DEF f
<1>2. /\ Flat(f, 0) = <<>>
      /\ \A k \in Nat : k < m => Flat(f, k + 1) = Flat(f, k) \o f[k + 1]
      /\ \A k \in 0..m : Flat(f, k) \in Seq(Bit)
  BY <1>1, FlatIs
<1> DEFINE T == {k \in Nat : k <= m => \A u \in Seq(Bit) : \A V :
                    Walks(Flat(f, k) \o u, V) => V[Len(Flat(f, k))] = On(<<>>, SubSeq(s, 1, k))}
<1>3. 0 \in T
  <2> SUFFICES ASSUME NEW u \in Seq(Bit), NEW V, Walks(u, V)
               PROVE  V[0] = On(<<>>, <<>>)
    <3>1. SubSeq(s, 1, 0) = <<>> /\ Len(Flat(f, 0)) = 0
      BY <1>2
    <3>2. \A u \in Seq(Bit) : Flat(f, 0) \o u = u
      BY <1>2
    <3> QED
      BY <3>1, <3>2
  <2> QED
    BY WalksAre DEF AtTheRoot, On
<1>4. ASSUME NEW k \in Nat, k \in T
      PROVE  k + 1 \in T
  <2> SUFFICES ASSUME k + 1 <= m, NEW u \in Seq(Bit), NEW V, Walks(Flat(f, k + 1) \o u, V)
               PROVE  V[Len(Flat(f, k + 1))] = On(<<>>, SubSeq(s, 1, k + 1))
    OBVIOUS
  <2> DEFINE c == s[k + 1]
             v == Codewords[c]
             a == Flat(f, k)
             n == Len(a)
             b == a \o (v \o u)
             r == SubSeq(s, 1, k)
  <2>1. c \in CodePoints /\ f[k + 1] = v /\ v \in Seq(Bit) /\ c \in 0..EOS
    <3>1. k + 1 \in 1..m
      BY <1>1
    <3>2. c \in CodePoints /\ f[k + 1] = v
      BY <1>1, <3>1
    <3> QED
      BY <3>2, Code
  <2>2. a \in Seq(Bit) /\ k < m /\ Flat(f, k + 1) = a \o v
    <3>1. k < m /\ k \in 0..m
      BY <1>1
    <3> HIDE DEF m, v
    <3>2. Flat(f, k) \in Seq(Bit) /\ Flat(f, k + 1) = Flat(f, k) \o f[k + 1]
      BY <1>2, <3>1
    <3> QED
      BY <2>1, <3>1, <3>2
  <2>3. Append(r, c) = SubSeq(s, 1, k + 1)
    BY OneMore DEF m
  <2> HIDE DEF a, v, c, m, r
  <2>4. Flat(f, k + 1) \o u = b /\ v \o u \in Seq(Bit) /\ b \in Seq(Bit)
    <3> DEFINE w == v \o u
    <3>1. a \in Seq(Bit) /\ v \in Seq(Bit) /\ w \in Seq(Bit)
      BY <2>1, <2>2
    <3>2. (a \o v) \o u = a \o w
      BY <3>1
    <3>3. a \o w \in Seq(Bit)
      <4> HIDE DEF w
      <4> QED
        BY <3>1
    <3> QED
      BY <2>2, <3>1, <3>2, <3>3
  <2>5. Walks(b, V)
    BY <2>4
  <2>6. V[n] = On(<<>>, r)
    <3>1. \A x \in Seq(Bit) : \A X : Walks(Flat(f, k) \o x, X) => X[Len(Flat(f, k))] = On(<<>>, SubSeq(s, 1, k))
      BY <1>1, <1>4, <2>2
    <3>2. Walks(a \o (v \o u), V)
      BY <2>5
    <3> QED
      BY <2>4, <3>1, <3>2 DEF a, r
  <2>7. n \in Nat /\ Len(v) \in Nat /\ Len(a \o v) = n + Len(v)
    BY <2>1, <2>2
  <2>8. Leads(b, n, c, Len(v))
    <3> DEFINE w == v \o u
    <3>1. w \in Seq(Bit) /\ Len(w) = Len(v) + Len(u) /\ Len(u) \in Nat /\ \A i \in 1..Len(v) : w[i] = v[i]
      BY <2>1, JoinedIs
    <3> HIDE DEF w
    <3>2. /\ Len(a \o w) = n + Len(w)
          /\ \A i \in 1..Len(w) : (a \o w)[n + i] = w[i]
      <4>1. a \in Seq(Bit) /\ w \in Seq(Bit)
        BY <2>2, <3>1
      <4> QED
        BY <4>1
    <3>3. b = a \o w
      BY DEF w
    <3> HIDE DEF b, n
    <3>4. \A i \in 1..Len(v) : i \in 1..Len(w)
      BY <2>7, <3>1
    <3>5. \A i \in 1..Len(v) : b[n + i] = v[i]
      BY <3>1, <3>2, <3>3, <3>4
    <3>6. n + Len(v) <= Len(b)
      BY <2>7, <3>1, <3>2, <3>3
    <3> QED
      BY <2>7, <3>5, <3>6 DEF Leads, v
  <2> HIDE DEF b, n
  <2>9. V[n + Len(v)] = On(<<>>, Append(r, c))
    BY <2>1, <2>4, <2>5, <2>6, <2>7, <2>8, Arrives DEF v
  <2> QED
    BY <2>2, <2>3, <2>7, <2>9
<1>5. Nat \subseteq T
  <2> HIDE DEF T
  <2> QED
    BY <1>3, <1>4, SetInduction
<1>6. \A k \in Nat : k <= m => \A u \in Seq(Bit) : \A V :
        Walks(Flat(f, k) \o u, V) => V[Len(Flat(f, k))] = On(<<>>, SubSeq(s, 1, k))
  BY <1>5
<1>7. W[Len(Flat(f, m))] = On(<<>>, SubSeq(s, 1, m))
  <2>1. Walks(Flat(f, m) \o t, W) /\ m <= m
    BY <1>1 DEF f
  <2> HIDE DEF T, m
  <2> QED
    BY <1>1, <1>6, <2>1
<1>8. SubSeq(s, 1, m) = s
  OBVIOUS
<1> QED
  BY <1>7, <1>8 DEF f

(* Ones up to the end of the octet.                                        *)
Ones(k) == [i \in 1..k |-> 1]

LEMMA UnwindsPadded ==
    ASSUME NEW s \in Seq(CodePoints), NEW k \in 0..7
    PROVE  /\ Walk(Flat(CodewordsOf(s), Len(s)) \o Ones(k)) = On(SubSeq(Codewords[EOS], 1, k), s)
           /\ \A i \in 1..k : SubSeq(Codewords[EOS], 1, k)[i] = 1
           /\ Len(SubSeq(Codewords[EOS], 1, k)) = k /\ SubSeq(Codewords[EOS], 1, k) \in Seq(Bit)
<1> DEFINE v == Codewords[EOS]
           a == Flat(CodewordsOf(s), Len(s))
           n == Len(a)
           t == Ones(k)
           b == a \o t
           u == SubSeq(v, 1, k)
<1>1. v \in Seq(Bit) /\ Len(v) > 7 /\ EOS \in 0..EOS /\ \A i \in 1..Len(v) : v[i] = 1
  BY Code
<1>2. k \in 0..Len(v) /\ k \in Nat /\ k < Len(v)
  BY <1>1
<1>3. u \in Seq(Bit) /\ Len(u) = k /\ \A i \in 1..k : u[i] = v[i]
  <2> HIDE DEF v
  <2> QED
    BY <1>1, <1>2, FirstOf
<1>4. \A i \in 1..k : v[i] = 1
  BY <1>1, <1>2
<1>5. a \in Seq(Bit)
  <2>1. Pieces(CodewordsOf(s), Len(s), Bit) /\ Len(s) \in 0..Len(s)
    BY CodewordsAre
  <2> QED
    BY <2>1, FlatIs
<1>6. t \in Seq(Bit) /\ Len(t) = k /\ \A i \in 1..k : t[i] = 1
  BY <1>2 DEF Ones, Bit
<1> HIDE DEF t, v, u
<1>7. PICK W : Walks(b, W) /\ Walk(b) = W[Len(b)]
  BY <1>5, <1>6, WalkIs, JoinedIs
<1>8. W[n] = On(<<>>, s)
  BY <1>6, <1>7, Decodes
<1> HIDE DEF a
<1>9. b \in Seq(Bit) /\ Len(b) = n + k /\ n \in Nat /\ \A i \in 1..k : b[n + i] = t[i]
  BY <1>5, <1>6, JoinedIs
<1> HIDE DEF b, n
<1>10. Leads(b, n, EOS, k)
  BY <1>2, <1>4, <1>6, <1>9 DEF Leads, v
<1>11. W[n + k] = On(u, s)
  BY <1>1, <1>2, <1>7, <1>8, <1>9, <1>10, Descends DEF u, v
<1> QED
  BY <1>3, <1>4, <1>7, <1>9, <1>11 DEF u, v, b, a, t

-----------------------------------------------------------------------------
(* Strings, written.                                                       *)
LEMMA StringIs ==
    ASSUME NEW s \in WrittenString
    PROVE  /\ s.data \in Seq(Octet) /\ s.compressed \in BOOLEAN
           /\ s.compressed => s.data \in Seq(CodePoints)
           /\ s.length = <<>> \/ s.length[1] \in Nat
           /\ s.padding = <<>> \/ s.padding[1] \in Seq(Bit)
<1>1. /\ s \in [data : Seq(Octet), compressed : BOOLEAN,
                length : AtMostOne(Nat), padding : AtMostOne(Seq(Bit))]
      /\ s.compressed => s.data \in Seq(CodePoints)
  BY DEF WrittenString
<1>2. /\ s.data \in Seq(Octet) /\ s.compressed \in BOOLEAN
      /\ s.length \in AtMostOne(Nat) /\ s.padding \in AtMostOne(Seq(Bit))
  BY <1>1
<1>3. ASSUME NEW S, NEW o \in AtMostOne(S)
      PROVE  o = <<>> \/ o[1] \in S
  BY DEF AtMostOne
<1>4. s.length = <<>> \/ s.length[1] \in Nat
  BY <1>2, <1>3
<1>5. s.padding = <<>> \/ s.padding[1] \in Seq(Bit)
  BY <1>2, <1>3
<1> QED
  BY <1>1, <1>2, <1>4, <1>5

LEMMA BitstringIs ==
    ASSUME NEW s \in WrittenString
    PROVE  /\ Bitstring(s) \in Seq(Bit)
           /\ s.compressed => Bitstring(s) = Flat(CodewordsOf(s.data), Len(s.data))
           /\ ~s.compressed => Bitstring(s) = Bits(s.data)
<1>1. CASE s.compressed
  <2>1. s.data \in Seq(CodePoints)
    BY <1>1, StringIs
  <2>2. Bitstring(s) = FlattenSeq(CodewordsOf(s.data))
    BY <1>1 DEF Bitstring, CodewordsOf
  <2>3. Pieces(CodewordsOf(s.data), Len(s.data), Bit) /\ Len(s.data) \in 0..Len(s.data)
    BY <2>1, CodewordsAre
  <2>4. Flat(CodewordsOf(s.data), Len(s.data)) \in Seq(Bit)
    BY <2>3, FlatIs
  <2> QED
    BY <1>1, <2>1, <2>2, <2>4, CodewordsAre
<1>2. CASE ~s.compressed
  <2>1. Bitstring(s) = Bits(s.data)
    BY <1>2 DEF Bitstring
  <2> QED
    BY <1>2, <2>1, StringIs, BitsAre
<1> QED
  BY <1>1, <1>2

LEMMA StringBytesTyped ==
    ASSUME NEW s \in WrittenString
    PROVE  WholeOctets(s) \in Seq(Octet) /\ StringBytes(s) \in Seq(Octet)
<1> DEFINE b == Bitstring(s)
           pad == IF s.padding = <<>> THEN Ones((0 - Len(b)) % 8) ELSE s.padding[1]
           o == WholeOctets(s)
           n == IF s.length = <<>> THEN Len(o) ELSE s.length[1]
           i == [val |-> n, padding |-> 0]
           c == IF s.compressed THEN 1 ELSE 0
<1>1. b \in Seq(Bit)
  BY BitstringIs
<1>2. pad \in Seq(Bit)
  <2>1. Ones((0 - Len(b)) % 8) \in Seq(Bit)
    <3> DEFINE k == (0 - Len(b)) % 8
    <3>1. k \in Nat
      BY <1>1
    <3> HIDE DEF k
    <3>2. Ones(k) \in Seq(Bit)
      BY <3>1 DEF Ones, Bit
    <3> QED
      BY <3>2 DEF k
  <2> QED
    BY <2>1, StringIs
<1>3. o = Octets(b \o pad)
  BY DEF WholeOctets, Ones
<1> HIDE DEF b, pad
<1>4. o \in Seq(Octet)
  BY <1>1, <1>2, <1>3, OctetsAre, JoinedIs
<1> HIDE DEF o
<1>5. n \in Nat
  BY <1>4, StringIs
<1> HIDE DEF n
<1>6. i \in WrittenInt
  BY <1>5 DEF WrittenInt
<1>7. Prefix(7, c, 2^7)
  <2>1. Prefix(7, 0, 2^7) /\ Prefix(7, 1, 2^7)
    BY PrefixIs
  <2> QED
    BY <2>1
<1>8. StringBytes(s) = IntBytes(i, 7, c) \o o
  BY DEF StringBytes, n, o
<1> HIDE DEF i, c
<1>9. IntBytes(i, 7, c) \in Seq(Octet)
  <2>1. <<>> \in Seq(Octet)
    OBVIOUS
  <2> QED
    BY <1>6, <1>7, <2>1, IntComesBack
<1> QED
  BY <1>4, <1>8, <1>9 DEF o

(* A result that another parser goes on from.                              *)
String == [data : Seq(Octet), rest : Seq(Octet)]

LEMMA ParseStringIs ==
    ASSUME NEW d, d # <<>>, NEW int, ParseInt(d, 7) = <<int>>
    PROVE  /\ int.val > Len(int.rest) => ParseString(d) = <<>>
           /\ ~(int.val > Len(int.rest)) =>
                 ParseString(d) = StringBody(d[1] >= 128, int.rest, int.val)
<1>1. <<int>> # <<>> /\ <<int>>[1] = int
  OBVIOUS
<1>2. ParseString(d) = IF int.val > Len(int.rest) THEN <<>>
                       ELSE StringBody(d[1] >= 128, int.rest, int.val)
  BY <1>1 DEF ParseString, Then
<1> QED
  BY <1>2

LEMMA ParseStringRefuses ==
    ASSUME NEW d, d = <<>> \/ ParseInt(d, 7) = <<>>
    PROVE  ParseString(d) = <<>>
BY DEF ParseString, Then

LEMMA ParseStringTyped ==
    ASSUME NEW d \in Seq(Octet)
    PROVE  ParseString(d) = <<>> \/ \E r \in String : ParseString(d) = <<r>>
<1>1. CASE d = <<>> \/ ParseInt(d, 7) = <<>>
  BY <1>1, ParseStringRefuses
<1>2. CASE ~(d = <<>> \/ ParseInt(d, 7) = <<>>)
  <2>1. PICK int \in IntRead : ParseInt(d, 7) = <<int>>
    BY <1>2, ParseIntTyped
  <2> DEFINE n == int.val
             r == int.rest
             head == SubSeq(r, 1, n)
             tail == From(r, n)
  <2>2. n \in Nat /\ r \in Seq(Octet)
    BY DEF IntRead
  <2>3. CASE n > Len(r)
    BY <1>2, <2>1, <2>3, ParseStringIs
  <2>4. CASE ~(n > Len(r))
    <3>1. ParseString(d) = StringBody(d[1] >= 128, r, n)
      BY <1>2, <2>1, <2>4, ParseStringIs
    <3> HIDE DEF n, r
    <3>2. head \in Seq(Octet) /\ tail \in Seq(Octet)
      BY <2>2, <2>4 DEF From
    <3>3. CASE d[1] >= 128
      <4> DEFINE w == Walk(Bits(head))
      <4>1. StringBody(d[1] >= 128, r, n) = Decompressed(w, tail)
        BY <3>3 DEF StringBody
      <4> HIDE DEF head, tail
      <4>2. w \in Walker
        BY <3>2, BitsAre, WalkIs
      <4> HIDE DEF w
      <4>3. CASE w.eos \/ BadPadding(w.path)
        BY <3>1, <4>1, <4>3 DEF Decompressed
      <4>4. CASE ~(w.eos \/ BadPadding(w.path))
        <5>1. StringBody(d[1] >= 128, r, n) = <<[data |-> w.result, rest |-> tail]>>
          BY <4>1, <4>4 DEF Decompressed
        <5>2. w.result \in Seq(CodePoints)
          BY <4>2, <4>4 DEF Walker
        <5>3. w.result \in Seq(Octet)
          BY <5>2, Code
        <5>4. [data |-> w.result, rest |-> tail] \in String
          BY <3>2, <5>3 DEF String
        <5> QED
          BY <3>1, <5>1, <5>4
      <4> QED
        BY <4>3, <4>4
    <3>4. CASE ~(d[1] >= 128)
      <4>1. StringBody(d[1] >= 128, r, n) = <<[data |-> head, rest |-> tail]>>
        BY <3>4 DEF StringBody
      <4> HIDE DEF head, tail
      <4>2. [data |-> head, rest |-> tail] \in String
        BY <3>2 DEF String
      <4> QED
        BY <3>1, <4>1, <4>2
    <3> QED
      BY <3>3, <3>4
  <2> QED
    BY <2>3, <2>4
<1> QED
  BY <1>1, <1>2

(* The octets of a string without padding of its own are read as the       *)
(* string.                                                                 *)
Flag(s) == IF s.compressed THEN 1 ELSE 0

LEMMA BodyComesBack ==
    ASSUME NEW s \in WrittenString, Plain(s), NEW r \in Seq(Octet), NEW first \in Nat,
           s.compressed => first >= 128, ~s.compressed => ~(first >= 128)
    PROVE  StringBody(first >= 128, WholeOctets(s) \o r, Len(WholeOctets(s))) =
             <<[data |-> s.data, rest |-> r]>>
<1> DEFINE o == WholeOctets(s)
           n == Len(o)
           b == Bitstring(s)
           k == (0 - Len(b)) % 8
           x == b \o Ones(k)
<1>1. o \in Seq(Octet)
  BY StringBytesTyped
<1>2. SubSeq(o \o r, 1, n) = o /\ From(o \o r, n) = r
  BY <1>1, PartsOfJoined
<1>3. o = Octets(x)
  BY DEF WholeOctets, Plain, Ones
<1>4. b \in Seq(Bit)
  BY BitstringIs
<1>5. CASE s.compressed
  <2> DEFINE a == Flat(CodewordsOf(s.data), Len(s.data))
             u == SubSeq(Codewords[EOS], 1, k)
             m == Len(x) \div 8
             w == Walk(x)
  <2>1. s.data \in Seq(CodePoints) /\ b = a
    BY <1>5, StringIs, BitstringIs
  <2>2. k \in 0..7 /\ k \in Nat /\ Len(b) \in Nat /\ (Len(b) + k) % 8 = 0
    BY <1>4
  <2>3. /\ Walk(a \o Ones(k)) = On(u, s.data) /\ \A i \in 1..k : u[i] = 1
        /\ Len(u) = k /\ u \in Seq(Bit)
    <3> HIDE DEF k, a, b
    <3> QED
      BY <2>1, <2>2, UnwindsPadded DEF a
  <2>4. x \in Seq(Bit) /\ Len(x) = Len(b) + k
    <3>1. Ones(k) \in Seq(Bit) /\ Len(Ones(k)) = k
      <4> HIDE DEF k
      <4> QED
        BY <2>2 DEF Ones, Bit
    <3> HIDE DEF k, b
    <3> QED
      BY <1>4, <3>1, JoinedIs
  <2>5. m \in Nat /\ Len(x) = 8 * m
    <3> HIDE DEF x, k, b
    <3> QED
      BY <2>2, <2>4
  <2>6. Bits(o) = x
    <3> HIDE DEF x, m
    <3> QED
      BY <1>3, <2>4, <2>5, BitsOfOctets
  <2>7. w.eos = FALSE /\ w.result = s.data /\ w.path = u
    <3>1. w = On(u, s.data)
      BY <2>1, <2>3
    <3> QED
      BY <3>1 DEF On
  <2>8. ~BadPadding(u)
    <3>1. DOMAIN u = 1..k
      BY <2>3
    <3> HIDE DEF u, k
    <3> QED
      BY <2>3, <3>1 DEF BadPadding
  <2> HIDE DEF w, u, x, k
  <2>9. Decompressed(w, r) = <<[data |-> s.data, rest |-> r]>>
    BY <2>7, <2>8 DEF Decompressed
  <2>10. StringBody(first >= 128, o \o r, n) = Decompressed(Walk(Bits(o)), r)
    BY <1>2, <1>5 DEF StringBody
  <2> QED
    BY <2>6, <2>9, <2>10 DEF w
<1>6. CASE ~s.compressed
  <2>1. s.data \in Seq(Octet) /\ b = Bits(s.data)
    BY <1>6, StringIs, BitstringIs
  <2>2. Len(b) = 8 * Len(s.data) /\ Len(s.data) \in Nat
    BY <2>1, BitsAre
  <2>3. k = 0
    <3> DEFINE m == Len(s.data)
    <3>1. Len(b) = 8 * m /\ m \in Nat
      BY <2>2
    <3> HIDE DEF b, m
    <3> QED
      BY <3>1
  <2>4. x = b
    <3>1. Ones(k) = <<>>
      <4> HIDE DEF k
      <4> QED
        BY <2>3 DEF Ones
    <3> HIDE DEF b, k
    <3> QED
      BY <1>4, <3>1
  <2>5. o = s.data
    BY <1>3, <2>1, <2>4, OctetsOfBits
  <2>6. StringBody(first >= 128, o \o r, n) = <<[data |-> o, rest |-> r]>>
    BY <1>2, <1>6 DEF StringBody
  <2> QED
    BY <2>5, <2>6
<1> QED
  BY <1>5, <1>6

(* What is written for such a string: its length and its octets.           *)
Announced(s) == [val |-> Len(WholeOctets(s)), padding |-> 0]

LEMMA PlainStringBytes ==
    ASSUME NEW s \in WrittenString, Plain(s)
    PROVE  /\ StringBytes(s) = IntBytes(Announced(s), 7, Flag(s)) \o WholeOctets(s)
           /\ Announced(s) \in WrittenInt /\ Prefix(7, Flag(s), 2^7) /\ 2^7 = 128
<1>1. StringBytes(s) = IntBytes(Announced(s), 7, Flag(s)) \o WholeOctets(s)
  BY DEF StringBytes, Plain, Announced, Flag
<1>2. WholeOctets(s) \in Seq(Octet)
  BY StringBytesTyped
<1>3. Announced(s) \in WrittenInt
  <2>1. Len(WholeOctets(s)) \in Nat
    BY <1>2
  <2> QED
    BY <2>1 DEF Announced, WrittenInt
<1>4. Prefix(7, Flag(s), 2^7)
  <2>1. Prefix(7, 0, 2^7) /\ Prefix(7, 1, 2^7)
    BY PrefixIs
  <2> QED
    BY <2>1 DEF Flag
<1> QED
  BY <1>1, <1>3, <1>4

LEMMA StringComesBack ==
    ASSUME NEW s \in WrittenString, Plain(s), NEW r \in Seq(Octet)
    PROVE  ParseString(StringBytes(s) \o r) = <<[data |-> s.data, rest |-> r]>>
<1> DEFINE o == WholeOctets(s)
           i == Announced(s)
           a == IntBytes(i, 7, Flag(s))
           t == o \o r
           d == a \o t
           int == [val |-> Len(o), rest |-> t]
<1>1. /\ StringBytes(s) = a \o o /\ i \in WrittenInt /\ Prefix(7, Flag(s), 2^7) /\ 2^7 = 128
      /\ i.val = Len(o)
  BY PlainStringBytes DEF Announced
<1>2. o \in Seq(Octet) /\ t \in Seq(Octet)
  BY StringBytesTyped
<1>3. /\ a \in Seq(Octet) /\ Len(a) >= 1 /\ a[1] \in Flag(s) * 2^7..Flag(s) * 2^7 + (2^7 - 1)
      /\ ParseInt(d, 7) = <<int>>
  <2> HIDE DEF i, t, o
  <2> QED
    BY <1>1, <1>2, IntComesBack
<1>4. StringBytes(s) \o r = d
  <2>1. ASSUME NEW x \in Seq(Octet), NEW y \in Seq(Octet), NEW z \in Seq(Octet)
        PROVE  (x \o y) \o z = x \o (y \o z)
    OBVIOUS
  <2>2. a \in Seq(Octet) /\ o \in Seq(Octet)
    BY <1>2, <1>3
  <2> HIDE DEF a, o
  <2>3. (a \o o) \o r = a \o t
    BY <2>1, <2>2
  <2> QED
    BY <1>1, <2>3
<1> HIDE DEF a, i
<1>5. d # <<>> /\ d[1] = a[1] /\ a[1] \in Nat
  <2> HIDE DEF t
  <2>1. a[1] \in Octet /\ 1 \in 1..Len(a)
    BY <1>3
  <2>2. /\ Len(d) = Len(a) + Len(t) /\ Len(a) \in Nat /\ Len(t) \in Nat
        /\ \A j \in 1..Len(a) : d[j] = a[j]
    BY <1>2, <1>3, JoinedIs
  <2> HIDE DEF d
  <2> QED
    BY <1>3, <2>1, <2>2, OctetIsNatural
<1>6. (s.compressed => a[1] >= 128) /\ (~s.compressed => ~(a[1] >= 128))
  <2>1. a[1] \in Flag(s) * 128..Flag(s) * 128 + 127
    BY <1>1, <1>3
  <2>2. CASE s.compressed
    <3>1. Flag(s) = 1
      BY <2>2 DEF Flag
    <3>2. \A x \in 1 * 128..1 * 128 + 127 : x >= 128
      OBVIOUS
    <3>3. a[1] >= 128
      BY <2>1, <3>1, <3>2
    <3> QED
      BY <2>2, <3>3
  <2>3. CASE ~s.compressed
    <3>1. Flag(s) = 0
      BY <2>3 DEF Flag
    <3>2. \A x \in 0 * 128..0 * 128 + 127 : ~(x >= 128)
      OBVIOUS
    <3>3. ~(a[1] >= 128)
      BY <2>1, <3>1, <3>2
    <3> QED
      BY <2>3, <3>3
  <2> QED
    BY <2>2, <2>3
<1>7. ~(int.val > Len(int.rest)) /\ int.val = Len(o) /\ int.rest = t
  <2>1. Len(t) = Len(o) + Len(r) /\ Len(r) \in Nat /\ Len(o) \in Nat
    BY <1>2, JoinedIs
  <2> QED
    BY <2>1
<1> HIDE DEF int
<1>8. ParseString(d) = StringBody(a[1] >= 128, t, Len(o))
  <2>1. ParseString(d) = StringBody(d[1] >= 128, int.rest, int.val)
    <3> HIDE DEF d
    <3> QED
      BY <1>3, <1>5, <1>7, ParseStringIs
  <2> QED
    BY <1>5, <1>7, <2>1
<1>9. StringBody(a[1] >= 128, t, Len(o)) = <<[data |-> s.data, rest |-> r]>>
  BY <1>5, <1>6, BodyComesBack
<1> QED
  BY <1>4, <1>8, <1>9

LEMMA TornStringRefused ==
    ASSUME NEW s \in WrittenString, Plain(s), NEW d, Torn(d, StringBytes(s))
    PROVE  ParseString(d) = <<>>
<1> DEFINE o == WholeOctets(s)
           i == Announced(s)
           a == IntBytes(i, 7, Flag(s))
<1>1. /\ StringBytes(s) = a \o o /\ i \in WrittenInt /\ Prefix(7, Flag(s), 2^7)
      /\ i.val = Len(o)
  BY PlainStringBytes DEF Announced
<1>2. o \in Seq(Octet)
  BY StringBytesTyped
<1>3. a \in Seq(Octet) /\ Len(a) >= 1
  <2>1. <<>> \in Seq(Octet)
    OBVIOUS
  <2> HIDE DEF i
  <2> QED
    BY <1>1, <2>1, IntComesBack
<1>4. Torn(d, a) \/ TornBehind(d, a, o, Octet)
  <2> HIDE DEF a, o
  <2>1. Torn(d, a \o o)
    BY <1>1
  <2> QED
    BY <1>2, <1>3, <2>1, TornJoined
<1>5. CASE Torn(d, a)
  <2>1. d = <<>> \/ ParseInt(d, 7) = <<>>
    <3> HIDE DEF i
    <3> QED
      BY <1>1, <1>5, TornIntRefused
  <2> QED
    BY <2>1, ParseStringRefuses
<1>6. CASE TornBehind(d, a, o, Octet)
  <2>1. PICK e \in Seq(Octet) : Torn(e, o) /\ d = a \o e
    BY <1>6 DEF TornBehind
  <2> DEFINE int == [val |-> Len(o), rest |-> e]
  <2>2. ParseInt(d, 7) = <<int>>
    <3>1. ParseInt(a \o e, 7) = <<[val |-> i.val, rest |-> e]>>
      <4> HIDE DEF i
      <4> QED
        BY <1>1, IntComesBack
    <3> QED
      BY <1>1, <2>1, <3>1
  <2>3. int.val > Len(int.rest)
    <3>1. Len(e) < Len(o) /\ Len(e) \in Nat /\ Len(o) \in Nat
      BY <1>2, <2>1, TornIs
    <3> QED
      BY <3>1
  <2>4. d # <<>>
    <3> HIDE DEF a
    <3> QED
      BY <1>3, <2>1
  <2> HIDE DEF int
  <2> QED
    BY <2>2, <2>3, <2>4, ParseStringIs
<1> QED
  BY <1>4, <1>5, <1>6

-----------------------------------------------------------------------------
(* Fields.                                                                 *)
ParsedField ==
    [kind : {"indexed"}, index : Nat]
        \cup [kind : {"partial"}, index : Nat, val : Seq(Octet), prop : Props]
        \cup [kind : {"literal"}, key : Seq(Octet), val : Seq(Octet), prop : Props]
        \cup [kind : {"resize"}, size : Nat]

Result == [field : ParsedField, rest : Seq(Octet)]

(* The four kinds of a written field.                                      *)
LEMMA WrittenFieldIs ==
    ASSUME NEW f \in WrittenField
    PROVE  \/ f.kind = "indexed" /\ f.index \in WrittenInt
           \/ f.kind = "partial" /\ f.index \in WrittenInt /\ f.val \in WrittenString /\ f.prop \in Props
           \/ /\ f.kind = "literal" /\ f.key \in WrittenString /\ f.val \in WrittenString
              /\ f.prop \in Props
           \/ f.kind = "resize" /\ f.size \in WrittenInt
<1> DEFINE A == [kind : {"indexed"}, index : WrittenInt]
           B == [kind : {"partial"}, index : WrittenInt, val : WrittenString, prop : Props]
           C == [kind : {"literal"}, key : WrittenString, val : WrittenString, prop : Props]
           D == [kind : {"resize"}, size : WrittenInt]
<1>1. f \in A \/ f \in B \/ f \in C \/ f \in D
  BY DEF WrittenField
<1>2. CASE f \in A
  BY <1>2
<1>3. CASE f \in B
  BY <1>3
<1>4. CASE f \in C
  BY <1>4
<1>5. CASE f \in D
  BY <1>5
<1> QED
  BY <1>1, <1>2, <1>3, <1>4, <1>5

LEMMA PrefixOf ==
    ASSUME NEW prop \in Props
    PROVE  /\ IndexPrefix(prop) \in {4, 6}
           /\ Prefix(IndexPrefix(prop), Preprefix(prop), 2^IndexPrefix(prop))
<1>1. IndexPrefix(prop) \in {4, 6} /\ Preprefix(prop) \in {0, 1}
  BY DEF IndexPrefix, Preprefix
<1> DEFINE p == IndexPrefix(prop)
<1> HIDE DEF p
<1>2. p \in {4, 5, 6, 7}
  BY <1>1 DEF p
<1>3. Prefix(p, 0, 2^p) /\ Prefix(p, 1, 2^p)
  BY <1>2, PrefixIs
<1> QED
  BY <1>1, <1>3 DEF p

(* A literal name is announced by the index 0.                             *)
Zero == [val |-> 0, padding |-> 0]

LEMMA ZeroIs ==
    ASSUME NEW prop \in Props
    PROVE  /\ Zero \in WrittenInt /\ Zero.val = 0
           /\ <<Preprefix(prop) * 2^IndexPrefix(prop)>> =
                IntBytes(Zero, IndexPrefix(prop), Preprefix(prop))
<1> DEFINE p == IndexPrefix(prop)
           pre == Preprefix(prop)
           first == pre * 2^p
<1>1. p \in {4, 5, 6, 7} /\ Prefix(p, pre, 2^p)
  BY PrefixOf
<1> HIDE DEF p
<1>2. 2^p \in {16, 32, 64, 128} /\ Mask(p) = 2^p - 1
  BY <1>1, PrefixIs
<1>3. 0 < Mask(p)
  BY <1>2
<1>4. first \in Nat
  <2>1. pre \in {0, 1}
    BY DEF Preprefix
  <2> DEFINE P == 2^p
  <2>2. P \in Nat
    BY <1>2
  <2> HIDE DEF P, pre
  <2>3. \A x \in {0, 1} : x * P \in Nat
    BY <2>2
  <2> QED
    BY <2>1, <2>3 DEF P
<1> HIDE DEF first
<1>5. first + 0 = first
  BY <1>4
<1>6. Zero.val = 0 /\ Zero \in WrittenInt
  BY DEF Zero, WrittenInt
<1>7. IntBytes(Zero, p, pre) = <<first + 0>>
  BY <1>3, <1>6 DEF IntBytes, first
<1> QED
  BY <1>5, <1>6, <1>7 DEF first, p, pre

LEMMA FieldBytesAre ==
    ASSUME NEW f \in WrittenField
    PROVE  /\ f.kind = "indexed" => FieldBytes(f) = IntBytes(f.index, 7, 1)
           /\ f.kind = "resize" => FieldBytes(f) = IntBytes(f.size, 5, 1)
           /\ f.kind = "partial" =>
                FieldBytes(f) = IntBytes(f.index, IndexPrefix(f.prop), Preprefix(f.prop)) \o StringBytes(f.val)
           /\ f.kind = "literal" =>
                FieldBytes(f) = (IntBytes(Zero, IndexPrefix(f.prop), Preprefix(f.prop))
                                    \o StringBytes(f.key)) \o StringBytes(f.val)
<1>1. CASE f.kind = "literal"
  <2>1. f.prop \in Props
    BY <1>1, WrittenFieldIs
  <2>2. FieldBytes(f) = (<<Preprefix(f.prop) * 2^IndexPrefix(f.prop)>> \o StringBytes(f.key)) \o StringBytes(f.val)
    BY <1>1 DEF FieldBytes
  <2> QED
    BY <1>1, <2>1, <2>2, ZeroIs
<1>2. CASE f.kind = "indexed"
  BY <1>2 DEF FieldBytes
<1>3. CASE f.kind = "partial"
  BY <1>3 DEF FieldBytes
<1>4. CASE f.kind = "resize"
  BY <1>4 DEF FieldBytes
<1> QED
  BY <1>1, <1>2, <1>3, <1>4, WrittenFieldIs

LEMMA Fronted ==
    ASSUME NEW a \in Seq(Octet), Len(a) >= 1, NEW b \in Seq(Octet)
    PROVE  a \o b \in Seq(Octet) /\ Len(a \o b) >= 1 /\ (a \o b)[1] = a[1]
<1>1. /\ a \o b \in Seq(Octet) /\ Len(a \o b) = Len(a) + Len(b) /\ Len(a) \in Nat /\ Len(b) \in Nat
      /\ \A i \in 1..Len(a) : (a \o b)[i] = a[i]
  BY JoinedIs
<1>2. 1 \in 1..Len(a)
  BY <1>1
<1> QED
  BY <1>1, <1>2

(* Each form of a field has first octets of its own.                       *)
LeadOf(f) ==
    CASE f.kind = "indexed" -> 128..255
      [] f.kind = "resize" -> 32..63
      [] OTHER -> IF f.prop = "CACHED" THEN 64..127 ELSE IF f.prop = "VERBATIM" THEN 16..31 ELSE 0..15

LEMMA FieldBytesTyped ==
    ASSUME NEW f \in WrittenField
    PROVE  FieldBytes(f) \in Seq(Octet) /\ Len(FieldBytes(f)) >= 1 /\ FieldBytes(f)[1] \in LeadOf(f)
<1>0. <<>> \in Seq(Octet) /\ 2^7 = 128 /\ 2^6 = 64 /\ 2^5 = 32 /\ 2^4 = 16
  OBVIOUS
<1>1. CASE f.kind = "indexed"
  <2> DEFINE b == FieldBytes(f)
  <2>1. f.index \in WrittenInt /\ Prefix(7, 1, 2^7) /\ b = IntBytes(f.index, 7, 1)
    BY <1>1, WrittenFieldIs, FieldBytesAre, PrefixIs
  <2> HIDE DEF b
  <2>2. b \in Seq(Octet) /\ Len(b) >= 1 /\ b[1] \in 1 * 2^7..1 * 2^7 + (2^7 - 1)
    BY <2>1, IntBytesTyped
  <2>3. LeadOf(f) = 128..255 /\ 1 * 2^7..1 * 2^7 + (2^7 - 1) = 128..255
    BY <1>0, <1>1 DEF LeadOf
  <2> QED
    BY <2>2, <2>3 DEF b
<1>2. CASE f.kind = "resize"
  <2> DEFINE b == FieldBytes(f)
  <2>1. f.size \in WrittenInt /\ Prefix(5, 1, 2^5) /\ b = IntBytes(f.size, 5, 1)
    BY <1>2, WrittenFieldIs, FieldBytesAre, PrefixIs
  <2> HIDE DEF b
  <2>2. b \in Seq(Octet) /\ Len(b) >= 1 /\ b[1] \in 1 * 2^5..1 * 2^5 + (2^5 - 1)
    BY <2>1, IntBytesTyped
  <2>3. LeadOf(f) = 32..63 /\ 1 * 2^5..1 * 2^5 + (2^5 - 1) = 32..63
    BY <1>0, <1>2 DEF LeadOf
  <2> QED
    BY <2>2, <2>3 DEF b
<1>3. ASSUME NEW i \in WrittenInt, f.prop \in Props, ~(f.kind = "indexed"), ~(f.kind = "resize")
      PROVE  LET a == IntBytes(i, IndexPrefix(f.prop), Preprefix(f.prop))
             IN  a \in Seq(Octet) /\ Len(a) >= 1 /\ a[1] \in LeadOf(f)
  <2> DEFINE p == IndexPrefix(f.prop)
             pre == Preprefix(f.prop)
             a == IntBytes(i, p, pre)
  <2>1. Prefix(p, pre, 2^p)
    BY <1>3, PrefixOf
  <2>2. a \in Seq(Octet) /\ Len(a) >= 1 /\ a[1] \in pre * 2^p..pre * 2^p + (2^p - 1)
    <3> HIDE DEF p, pre
    <3> QED
      BY <2>1, IntBytesTyped
  <2> HIDE DEF a
  <2>3. pre * 2^p..pre * 2^p + (2^p - 1) = LeadOf(f)
    <3>1. CASE f.prop = "CACHED"
      <4>1. LeadOf(f) = 64..127 /\ p = 6 /\ pre = 1
        BY <1>3, <3>1 DEF LeadOf, IndexPrefix, Preprefix
      <4> HIDE DEF p, pre
      <4> QED
        BY <1>0, <4>1
    <3>2. CASE f.prop = "VERBATIM"
      <4>1. LeadOf(f) = 16..31 /\ p = 4 /\ pre = 1
        BY <1>3, <3>2 DEF LeadOf, IndexPrefix, Preprefix
      <4> HIDE DEF p, pre
      <4> QED
        BY <1>0, <4>1
    <3>3. CASE f.prop = "UNCACHED"
      <4>1. LeadOf(f) = 0..15 /\ p = 4 /\ pre = 0
        BY <1>3, <3>3 DEF LeadOf, IndexPrefix, Preprefix
      <4> HIDE DEF p, pre
      <4> QED
        BY <1>0, <4>1
    <3> QED
      BY <1>3, <3>1, <3>2, <3>3 DEF Props
  <2> QED
    BY <2>2, <2>3 DEF a
<1>4. CASE f.kind = "partial"
  <2> DEFINE a == IntBytes(f.index, IndexPrefix(f.prop), Preprefix(f.prop))
             v == StringBytes(f.val)
  <2>1. f.index \in WrittenInt /\ f.val \in WrittenString /\ f.prop \in Props /\ FieldBytes(f) = a \o v
    BY <1>4, WrittenFieldIs, FieldBytesAre
  <2>2. a \in Seq(Octet) /\ Len(a) >= 1 /\ a[1] \in LeadOf(f)
    BY <1>3, <1>4, <2>1
  <2>3. v \in Seq(Octet)
    BY <2>1, StringBytesTyped
  <2> HIDE DEF a, v
  <2> QED
    BY <2>1, <2>2, <2>3, Fronted
<1>5. CASE f.kind = "literal"
  <2> DEFINE a == IntBytes(Zero, IndexPrefix(f.prop), Preprefix(f.prop))
             k == StringBytes(f.key)
             v == StringBytes(f.val)
             b == a \o k
  <2>1. f.key \in WrittenString /\ f.val \in WrittenString /\ f.prop \in Props /\ FieldBytes(f) = b \o v
    BY <1>5, WrittenFieldIs, FieldBytesAre
  <2>2. Zero \in WrittenInt
    BY <2>1, ZeroIs
  <2>3. a \in Seq(Octet) /\ Len(a) >= 1 /\ a[1] \in LeadOf(f)
    BY <1>3, <1>5, <2>1, <2>2
  <2>4. k \in Seq(Octet) /\ v \in Seq(Octet)
    BY <2>1, StringBytesTyped
  <2> HIDE DEF a, k, v
  <2>5. b \in Seq(Octet) /\ Len(b) >= 1 /\ b[1] = a[1]
    BY <2>3, <2>4, Fronted
  <2> HIDE DEF b
  <2>6. b \o v \in Seq(Octet) /\ Len(b \o v) >= 1 /\ (b \o v)[1] = b[1]
    BY <2>4, <2>5, Fronted
  <2> QED
    BY <2>1, <2>3, <2>5, <2>6
<1> QED
  BY <1>1, <1>2, <1>4, <1>5, WrittenFieldIs

ParseIndexed(d) ==
    IF ParseInt(d, 7) = <<>> THEN <<>>
    ELSE <<[field |-> Indexed(ParseInt(d, 7)[1].val), rest |-> ParseInt(d, 7)[1].rest]>>

ParseResized(d) ==
    IF ParseInt(d, 5) = <<>> THEN <<>>
    ELSE <<[field |-> Resized(ParseInt(d, 5)[1].val), rest |-> ParseInt(d, 5)[1].rest]>>

PropOf(o) == IF o >= 64 THEN "CACHED" ELSE IF o >= 16 THEN "VERBATIM" ELSE "UNCACHED"

LEMMA ParseFieldIs ==
    ASSUME NEW d
    PROVE  ParseField(d) = IF d[1] \in 128..255 THEN ParseIndexed(d)
                           ELSE IF d[1] \in 32..63 THEN ParseResized(d)
                           ELSE ParseNamed(d, PropOf(d[1]))
<1>1. CASE d[1] \in 128..255
  <2>1. ParseField(d) = ParseIndexed(d)
    <3>1. ~(d[1] \in 32..63)
      BY <1>1
    <3> QED
      BY <1>1, <3>1 DEF ParseField, Then, ParseIndexed
  <2> QED
    BY <1>1, <2>1
<1>2. CASE ~(d[1] \in 128..255) /\ d[1] \in 32..63
  <2>1. ParseField(d) = ParseResized(d)
    BY <1>2 DEF ParseField, Then, ParseResized
  <2> QED
    BY <1>2, <2>1
<1>3. CASE ~(d[1] \in 128..255) /\ ~(d[1] \in 32..63)
  <2>1. ParseField(d) = ParseNamed(d, PropOf(d[1]))
    BY <1>3 DEF ParseField, PropOf
  <2> QED
    BY <1>3, <2>1
<1> QED
  BY <1>1, <1>2, <1>3

LEMMA Dispatched ==
    ASSUME NEW f \in WrittenField, NEW d, d[1] \in LeadOf(f)
    PROVE  /\ f.kind = "indexed" => ParseField(d) = ParseIndexed(d)
           /\ f.kind = "resize" => ParseField(d) = ParseResized(d)
           /\ f.kind \in {"partial", "literal"} => ParseField(d) = ParseNamed(d, f.prop)
<1>1. CASE f.kind = "indexed"
  <2>1. d[1] \in 128..255
    BY <1>1 DEF LeadOf
  <2> QED
    BY <1>1, <2>1, ParseFieldIs
<1>2. CASE f.kind = "resize"
  <2>1. d[1] \in 32..63 /\ ~(d[1] \in 128..255)
    BY <1>2 DEF LeadOf
  <2> QED
    BY <1>2, <2>1, ParseFieldIs
<1>3. CASE f.kind \in {"partial", "literal"}
  <2>1. f.prop \in Props
    BY <1>3, WrittenFieldIs
  <2>2. d[1] \in IF f.prop = "CACHED" THEN 64..127 ELSE IF f.prop = "VERBATIM" THEN 16..31 ELSE 0..15
    BY <1>3 DEF LeadOf
  <2> DEFINE o == d[1]
  <2>3. ParseField(d) = IF o \in 128..255 THEN ParseIndexed(d)
                        ELSE IF o \in 32..63 THEN ParseResized(d) ELSE ParseNamed(d, PropOf(o))
    BY ParseFieldIs
  <2>4. o \in IF f.prop = "CACHED" THEN 64..127 ELSE IF f.prop = "VERBATIM" THEN 16..31 ELSE 0..15
    BY <2>2
  <2> HIDE DEF o
  <2>5. ~(o \in 128..255) /\ ~(o \in 32..63) /\ f.prop = PropOf(o)
    BY <2>1, <2>4 DEF Props, PropOf
  <2> QED
    BY <1>3, <2>3, <2>5
<1> QED
  BY <1>1, <1>2, <1>3

(* The steps of a named field: its index, one string, and for the index 0  *)
(* another.                                                                *)
LEMMA NamedRefusesIndex ==
    ASSUME NEW d, NEW prop, ParseInt(d, IndexPrefix(prop)) = <<>>
    PROVE  ParseNamed(d, prop) = <<>>
BY DEF ParseNamed, Then

LEMMA NamedRefusesString ==
    ASSUME NEW d, NEW prop, NEW i, ParseInt(d, IndexPrefix(prop)) = <<i>>, ParseString(i.rest) = <<>>
    PROVE  ParseNamed(d, prop) = <<>>
<1>1. <<i>> # <<>> /\ <<i>>[1] = i
  OBVIOUS
<1> QED
  BY <1>1 DEF ParseNamed, Then

LEMMA NamedReadsPartial ==
    ASSUME NEW d, NEW prop, NEW i, ParseInt(d, IndexPrefix(prop)) = <<i>>, i.val # 0,
           NEW first, ParseString(i.rest) = <<first>>
    PROVE  ParseNamed(d, prop) = <<[field |-> Partial(i.val, first.data, prop), rest |-> first.rest]>>
<1>1. <<i>> # <<>> /\ <<i>>[1] = i /\ <<first>> # <<>> /\ <<first>>[1] = first
  OBVIOUS
<1> QED
  BY <1>1 DEF ParseNamed, Then

LEMMA NamedRefusesSecond ==
    ASSUME NEW d, NEW prop, NEW i, ParseInt(d, IndexPrefix(prop)) = <<i>>, i.val = 0,
           NEW first, ParseString(i.rest) = <<first>>, ParseString(first.rest) = <<>>
    PROVE  ParseNamed(d, prop) = <<>>
<1>1. <<i>> # <<>> /\ <<i>>[1] = i /\ <<first>> # <<>> /\ <<first>>[1] = first
  OBVIOUS
<1> QED
  BY <1>1 DEF ParseNamed, Then

LEMMA NamedReadsLiteral ==
    ASSUME NEW d, NEW prop, NEW i, ParseInt(d, IndexPrefix(prop)) = <<i>>, i.val = 0,
           NEW first, ParseString(i.rest) = <<first>>, NEW second, ParseString(first.rest) = <<second>>
    PROVE  ParseNamed(d, prop) =
             <<[field |-> Literal(first.data, second.data, prop), rest |-> second.rest]>>
<1>1. /\ <<i>> # <<>> /\ <<i>>[1] = i /\ <<first>> # <<>> /\ <<first>>[1] = first
      /\ <<second>> # <<>> /\ <<second>>[1] = second
  OBVIOUS
<1> QED
  BY <1>1 DEF ParseNamed, Then

LEMMA ParseNamedTyped ==
    ASSUME NEW d \in Seq(Octet), d # <<>>, NEW prop \in Props
    PROVE  ParseNamed(d, prop) = <<>> \/ \E r \in Result : ParseNamed(d, prop) = <<r>>
<1> DEFINE p == IndexPrefix(prop)
<1>1. p \in {4, 5, 6, 7}
  BY PrefixOf
<1>2. CASE ParseInt(d, p) = <<>>
  BY <1>2, NamedRefusesIndex
<1>3. CASE ParseInt(d, p) # <<>>
  <2>1. PICK i \in IntRead : ParseInt(d, p) = <<i>>
    <3> HIDE DEF p
    <3> QED
      BY <1>1, <1>3, ParseIntTyped
  <2>2. i.val \in Nat /\ i.rest \in Seq(Octet)
    BY DEF IntRead
  <2>3. CASE ParseString(i.rest) = <<>>
    BY <2>1, <2>3, NamedRefusesString
  <2>4. CASE ParseString(i.rest) # <<>>
    <3>1. PICK first \in String : ParseString(i.rest) = <<first>>
      BY <2>2, <2>4, ParseStringTyped
    <3>2. first.data \in Seq(Octet) /\ first.rest \in Seq(Octet)
      BY DEF String
    <3>3. CASE i.val # 0
      <4> DEFINE r == [field |-> Partial(i.val, first.data, prop), rest |-> first.rest]
      <4>1. ParseNamed(d, prop) = <<r>>
        BY <2>1, <3>1, <3>3, NamedReadsPartial
      <4>2. Partial(i.val, first.data, prop) \in ParsedField
        BY <2>2, <3>2 DEF Partial, ParsedField
      <4>3. r \in Result
        BY <3>2, <4>2 DEF Result
      <4> QED
        BY <4>1, <4>3
    <3>4. CASE i.val = 0
      <4>1. CASE ParseString(first.rest) = <<>>
        BY <2>1, <3>1, <3>4, <4>1, NamedRefusesSecond
      <4>2. CASE ParseString(first.rest) # <<>>
        <5>1. PICK second \in String : ParseString(first.rest) = <<second>>
          BY <3>2, <4>2, ParseStringTyped
        <5>2. second.data \in Seq(Octet) /\ second.rest \in Seq(Octet)
          BY DEF String
        <5> DEFINE r == [field |-> Literal(first.data, second.data, prop), rest |-> second.rest]
        <5>3. ParseNamed(d, prop) = <<r>>
          BY <2>1, <3>1, <3>4, <5>1, NamedReadsLiteral
        <5>4. Literal(first.data, second.data, prop) \in ParsedField
          BY <3>2, <5>2 DEF Literal, ParsedField
        <5>5. r \in Result
          BY <5>2, <5>4 DEF Result
        <5> QED
          BY <5>3, <5>5
      <4> QED
        BY <4>1, <4>2
    <3> QED
      BY <3>3, <3>4
  <2> QED
    BY <2>3, <2>4
<1> QED
  BY <1>2, <1>3

LEMMA ParseFieldTyped ==
    ASSUME NEW d \in Seq(Octet), d # <<>>
    PROVE  ParseField(d) = <<>> \/ \E r \in Result : ParseField(d) = <<r>>
<1>1. CASE d[1] \in 128..255
  <2>1. ParseField(d) = ParseIndexed(d)
    BY <1>1, ParseFieldIs
  <2>2. CASE ParseInt(d, 7) = <<>>
    BY <2>1, <2>2 DEF ParseIndexed
  <2>3. CASE ParseInt(d, 7) # <<>>
    <3>1. PICK i \in IntRead : ParseInt(d, 7) = <<i>>
      BY <2>3, ParseIntTyped
    <3>2. i.val \in Nat /\ i.rest \in Seq(Octet)
      BY DEF IntRead
    <3> DEFINE r == [field |-> Indexed(i.val), rest |-> i.rest]
    <3>3. ParseField(d) = <<r>>
      BY <2>1, <3>1 DEF ParseIndexed
    <3>4. Indexed(i.val) \in ParsedField
      BY <3>2 DEF Indexed, ParsedField
    <3>5. r \in Result
      BY <3>2, <3>4 DEF Result
    <3> QED
      BY <3>3, <3>5
  <2> QED
    BY <2>2, <2>3
<1>2. CASE ~(d[1] \in 128..255) /\ d[1] \in 32..63
  <2>1. ParseField(d) = ParseResized(d)
    BY <1>2, ParseFieldIs
  <2>2. CASE ParseInt(d, 5) = <<>>
    BY <2>1, <2>2 DEF ParseResized
  <2>3. CASE ParseInt(d, 5) # <<>>
    <3>1. PICK i \in IntRead : ParseInt(d, 5) = <<i>>
      BY <2>3, ParseIntTyped
    <3>2. i.val \in Nat /\ i.rest \in Seq(Octet)
      BY DEF IntRead
    <3> DEFINE r == [field |-> Resized(i.val), rest |-> i.rest]
    <3>3. ParseField(d) = <<r>>
      BY <2>1, <3>1 DEF ParseResized
    <3>4. Resized(i.val) \in ParsedField
      BY <3>2 DEF Resized, ParsedField
    <3>5. r \in Result
      BY <3>2, <3>4 DEF Result
    <3> QED
      BY <3>3, <3>5
  <2> QED
    BY <2>2, <2>3
<1>3. CASE ~(d[1] \in 128..255) /\ ~(d[1] \in 32..63)
  <2>1. ParseField(d) = ParseNamed(d, PropOf(d[1]))
    BY <1>3, ParseFieldIs
  <2>2. PropOf(d[1]) \in Props
    BY DEF PropOf, Props
  <2> QED
    BY <2>1, <2>2, ParseNamedTyped
<1> QED
  BY <1>1, <1>2, <1>3

(* hpack.py:364-659: parse_hpack_field undoes to_bytes, whatever octets    *)
(* follow the field, for integers of any size and padding, strings raw or  *)
(* compressed, and every way of caching.                                   *)
THEOREM FieldComesBack ==
    ASSUME NEW f \in WrittenField, PlainField(f), NEW r \in Seq(Octet)
    PROVE  ParseField(FieldBytes(f) \o r) = <<[field |-> FieldMeant(f), rest |-> r]>>
<1> DEFINE b == FieldBytes(f)
           d == b \o r
<1>1. b \in Seq(Octet) /\ Len(b) >= 1 /\ b[1] \in LeadOf(f)
  BY FieldBytesTyped
<1>2. d \in Seq(Octet) /\ Len(d) >= 1 /\ d[1] \in LeadOf(f)
  <2> HIDE DEF b
  <2> QED
    BY <1>1, Fronted
<1>3. CASE f.kind = "indexed"
  <2>1. b = IntBytes(f.index, 7, 1) /\ f.index \in WrittenInt /\ Prefix(7, 1, 2^7)
    BY <1>3, WrittenFieldIs, FieldBytesAre, PrefixIs
  <2>2. ParseInt(d, 7) = <<[val |-> f.index.val, rest |-> r]>>
    BY <2>1, IntComesBack
  <2> HIDE DEF d
  <2>3. ParseField(d) = ParseIndexed(d)
    BY <1>2, <1>3, Dispatched
  <2>4. FieldMeant(f) = Indexed(f.index.val)
    BY <1>3 DEF FieldMeant
  <2> QED
    BY <2>2, <2>3, <2>4 DEF ParseIndexed, d
<1>4. CASE f.kind = "resize"
  <2>1. b = IntBytes(f.size, 5, 1) /\ f.size \in WrittenInt /\ Prefix(5, 1, 2^5)
    BY <1>4, WrittenFieldIs, FieldBytesAre, PrefixIs
  <2>2. ParseInt(d, 5) = <<[val |-> f.size.val, rest |-> r]>>
    BY <2>1, IntComesBack
  <2> HIDE DEF d
  <2>3. ParseField(d) = ParseResized(d)
    BY <1>2, <1>4, Dispatched
  <2>4. FieldMeant(f) = Resized(f.size.val)
    BY <1>4 DEF FieldMeant
  <2> QED
    BY <2>2, <2>3, <2>4 DEF ParseResized, d
<1>5. CASE f.kind = "partial"
  <2> DEFINE p == IndexPrefix(f.prop)
             a == IntBytes(f.index, p, Preprefix(f.prop))
             v == StringBytes(f.val)
             t == v \o r
             i == [val |-> f.index.val, rest |-> t]
             first == [data |-> f.val.data, rest |-> r]
  <2>1. /\ f.index \in WrittenInt /\ f.val \in WrittenString /\ f.prop \in Props /\ b = a \o v
        /\ Prefix(p, Preprefix(f.prop), 2^p) /\ Plain(f.val) /\ f.index.val # 0
    BY <1>5, WrittenFieldIs, FieldBytesAre, PrefixOf DEF PlainField
  <2>2. a \in Seq(Octet) /\ v \in Seq(Octet)
    BY <2>1, IntBytesTyped, StringBytesTyped
  <2>3. d = a \o t /\ t \in Seq(Octet)
    <3>1. ASSUME NEW x \in Seq(Octet), NEW y \in Seq(Octet), NEW z \in Seq(Octet)
          PROVE  (x \o y) \o z = x \o (y \o z) /\ y \o z \in Seq(Octet)
      OBVIOUS
    <3> HIDE DEF a, v, b
    <3> QED
      BY <2>1, <2>2, <3>1
  <2>4. ParseString(t) = <<first>>
    BY <2>1, StringComesBack
  <2>5. ParseInt(d, p) = <<i>>
    <3> HIDE DEF t, p, d, b
    <3> QED
      BY <2>1, <2>3, IntComesBack
  <2>6. ParseField(d) = ParseNamed(d, f.prop)
    <3> HIDE DEF d
    <3> QED
      BY <1>2, <1>5, Dispatched
  <2>7. i.val # 0 /\ i.val = f.index.val /\ i.rest = t /\ first.data = f.val.data /\ first.rest = r
    BY <2>1
  <2>8. FieldMeant(f) = Partial(f.index.val, f.val.data, f.prop)
    BY <1>5 DEF FieldMeant
  <2> HIDE DEF i, first, t, d
  <2>9. ParseNamed(d, f.prop) = <<[field |-> Partial(i.val, first.data, f.prop), rest |-> first.rest]>>
    BY <2>4, <2>5, <2>7, NamedReadsPartial
  <2> QED
    BY <2>6, <2>7, <2>8, <2>9 DEF d
<1>6. CASE f.kind = "literal"
  <2> DEFINE p == IndexPrefix(f.prop)
             a == IntBytes(Zero, p, Preprefix(f.prop))
             k == StringBytes(f.key)
             v == StringBytes(f.val)
             t == v \o r
             u == k \o t
             i == [val |-> 0, rest |-> u]
             first == [data |-> f.key.data, rest |-> t]
             second == [data |-> f.val.data, rest |-> r]
  <2>1. /\ f.key \in WrittenString /\ f.val \in WrittenString /\ f.prop \in Props /\ b = (a \o k) \o v
        /\ Prefix(p, Preprefix(f.prop), 2^p) /\ Plain(f.val) /\ Plain(f.key)
        /\ Zero \in WrittenInt /\ Zero.val = 0
    BY <1>6, WrittenFieldIs, FieldBytesAre, PrefixOf, ZeroIs DEF PlainField
  <2>2. a \in Seq(Octet) /\ v \in Seq(Octet) /\ k \in Seq(Octet)
    BY <2>1, IntBytesTyped, StringBytesTyped
  <2>3. d = a \o u /\ t \in Seq(Octet) /\ u \in Seq(Octet)
    <3> DEFINE c == a \o k
    <3>1. ASSUME NEW x \in Seq(Octet), NEW y \in Seq(Octet), NEW z \in Seq(Octet)
          PROVE  (x \o y) \o z = x \o (y \o z) /\ y \o z \in Seq(Octet)
      OBVIOUS
    <3>2. b = c \o v
      BY <2>1
    <3> HIDE DEF a, v, b, k
    <3>3. c \in Seq(Octet) /\ t \in Seq(Octet)
      BY <2>2, <3>1
    <3>4. c \o t = a \o u /\ u \in Seq(Octet)
      <4>1. a \in Seq(Octet) /\ k \in Seq(Octet) /\ t \in Seq(Octet)
        BY <2>2, <3>3
      <4> HIDE DEF t
      <4>2. (a \o k) \o t = a \o (k \o t)
        BY <3>1, <4>1
      <4>3. k \o t \in Seq(Octet)
        BY <3>1, <4>1
      <4> QED
        BY <4>2, <4>3
    <3>5. d = c \o t
      <4> HIDE DEF c
      <4> QED
        BY <2>2, <3>1, <3>2, <3>3
    <3> QED
      BY <3>3, <3>4, <3>5
  <2>4. ParseString(t) = <<second>>
    BY <2>1, StringComesBack
  <2>5. ParseString(u) = <<first>>
    <3> HIDE DEF t
    <3> QED
      BY <2>1, <2>3, StringComesBack
  <2>6. ParseInt(d, p) = <<i>>
    <3>1. ParseInt(a \o u, p) = <<[val |-> Zero.val, rest |-> u]>>
      <4> HIDE DEF u, p
      <4> QED
        BY <2>1, <2>3, IntComesBack
    <3> QED
      BY <2>1, <2>3, <3>1
  <2>7. ParseField(d) = ParseNamed(d, f.prop)
    <3> HIDE DEF d
    <3> QED
      BY <1>2, <1>6, Dispatched
  <2>8. /\ i.val = 0 /\ i.rest = u /\ first.data = f.key.data /\ first.rest = t
        /\ second.data = f.val.data /\ second.rest = r
    OBVIOUS
  <2>9. FieldMeant(f) = Literal(f.key.data, f.val.data, f.prop)
    BY <1>6 DEF FieldMeant
  <2> HIDE DEF i, first, second, t, u, d
  <2>10. ParseNamed(d, f.prop) = <<[field |-> Literal(first.data, second.data, f.prop), rest |-> second.rest]>>
    BY <2>4, <2>5, <2>6, <2>8, NamedReadsLiteral
  <2> QED
    BY <2>7, <2>8, <2>9, <2>10 DEF d
<1> QED
  BY <1>3, <1>4, <1>5, <1>6, WrittenFieldIs

(* A field that ends too early is refused.                                 *)
LEMMA NamedTorn ==
    ASSUME NEW i \in WrittenInt, NEW s \in WrittenString, Plain(s), NEW prop \in Props,
           NEW d, d # <<>>,
           Torn(d, IntBytes(i, IndexPrefix(prop), Preprefix(prop)) \o StringBytes(s))
    PROVE  ParseNamed(d, prop) = <<>>
<1> DEFINE p == IndexPrefix(prop)
           pre == Preprefix(prop)
           a == IntBytes(i, p, pre)
           b == StringBytes(s)
<1>1. Prefix(p, pre, 2^p)
  BY PrefixOf
<1>2. a \in Seq(Octet) /\ b \in Seq(Octet)
  <2> HIDE DEF p, pre
  <2> QED
    BY <1>1, IntBytesTyped, StringBytesTyped
<1>3. Torn(d, a) \/ TornBehind(d, a, b, Octet)
  <2>1. Torn(d, a \o b)
    OBVIOUS
  <2> HIDE DEF a, b
  <2> QED
    BY <1>2, <2>1, TornJoined
<1>4. CASE Torn(d, a)
  <2>1. ParseInt(d, p) = <<>>
    <3> HIDE DEF p, pre
    <3> QED
      BY <1>1, <1>4, TornIntRefused
  <2> QED
    BY <2>1, NamedRefusesIndex
<1>5. CASE TornBehind(d, a, b, Octet)
  <2>1. PICK e \in Seq(Octet) : Torn(e, b) /\ d = a \o e
    BY <1>5 DEF TornBehind
  <2> DEFINE int == [val |-> i.val, rest |-> e]
  <2>2. ParseInt(d, p) = <<int>>
    <3> HIDE DEF p, pre
    <3> QED
      BY <1>1, <2>1, IntComesBack
  <2>3. ParseString(int.rest) = <<>>
    BY <2>1, TornStringRefused
  <2> HIDE DEF int
  <2> QED
    BY <2>2, <2>3, NamedRefusesString
<1> QED
  BY <1>3, <1>4, <1>5

LEMMA LiteralTorn ==
    ASSUME NEW s \in WrittenString, Plain(s), NEW t \in WrittenString, Plain(t), NEW prop \in Props,
           NEW d, d # <<>>,
           Torn(d, (IntBytes(Zero, IndexPrefix(prop), Preprefix(prop)) \o StringBytes(s)) \o StringBytes(t))
    PROVE  ParseNamed(d, prop) = <<>>
<1> DEFINE p == IndexPrefix(prop)
           pre == Preprefix(prop)
           a == IntBytes(Zero, p, pre)
           b == StringBytes(s)
           c == StringBytes(t)
           ab == a \o b
<1>1. Prefix(p, pre, 2^p) /\ Zero \in WrittenInt /\ Zero.val = 0
  BY PrefixOf, ZeroIs
<1>2. a \in Seq(Octet) /\ b \in Seq(Octet) /\ c \in Seq(Octet)
  <2> HIDE DEF p, pre
  <2> QED
    BY <1>1, IntBytesTyped, StringBytesTyped
<1>3. Torn(d, ab) \/ TornBehind(d, ab, c, Octet)
  <2>1. Torn(d, ab \o c)
    OBVIOUS
  <2>2. ab \in Seq(Octet)
    <3> HIDE DEF a, b
    <3> QED
      BY <1>2
  <2> HIDE DEF ab, c
  <2> QED
    BY <1>2, <2>1, <2>2, TornJoined
<1>4. CASE Torn(d, ab)
  BY <1>1, <1>4, NamedTorn
<1>5. CASE TornBehind(d, ab, c, Octet)
  <2>1. PICK e \in Seq(Octet) : Torn(e, c) /\ d = ab \o e
    BY <1>5 DEF TornBehind
  <2> DEFINE u == b \o e
             int == [val |-> 0, rest |-> u]
             first == [data |-> s.data, rest |-> e]
  <2>2. d = a \o u /\ u \in Seq(Octet)
    <3>1. ASSUME NEW x \in Seq(Octet), NEW y \in Seq(Octet), NEW z \in Seq(Octet)
          PROVE  (x \o y) \o z = x \o (y \o z) /\ y \o z \in Seq(Octet)
      OBVIOUS
    <3> HIDE DEF a, b
    <3>2. (a \o b) \o e = a \o (b \o e)
      BY <1>2, <3>1
    <3>3. b \o e \in Seq(Octet)
      BY <1>2, <3>1
    <3> QED
      BY <2>1, <3>2, <3>3
  <2>3. ParseInt(d, p) = <<int>>
    <3>1. ParseInt(a \o u, p) = <<[val |-> Zero.val, rest |-> u]>>
      <4> HIDE DEF u, p, pre
      <4> QED
        BY <1>1, <2>2, IntComesBack
    <3> QED
      BY <1>1, <2>2, <3>1
  <2>4. ParseString(int.rest) = <<first>> /\ int.val = 0
    BY StringComesBack
  <2>5. ParseString(first.rest) = <<>>
    BY <2>1, TornStringRefused
  <2> HIDE DEF int, first
  <2> QED
    BY <2>3, <2>4, <2>5, NamedRefusesSecond
<1> QED
  BY <1>3, <1>4, <1>5

(* hpack.py:364-520: where the octets end inside a field, the integer or   *)
(* the string that they end in raises an HPACKError.                       *)
THEOREM TornFieldRefused ==
    ASSUME NEW f \in WrittenField, PlainField(f), NEW d, Torn(d, FieldBytes(f)), d # <<>>
    PROVE  ParseField(d) = <<>>
<1> DEFINE b == FieldBytes(f)
<1>1. b \in Seq(Octet) /\ Len(b) >= 1 /\ b[1] \in LeadOf(f)
  BY FieldBytesTyped
<1>2. d[1] \in LeadOf(f)
  <2> HIDE DEF b
  <2>1. Torn(d, b)
    BY DEF b
  <2>2. d \in Seq(Octet) /\ Len(d) \in Nat /\ \A i \in 1..Len(d) : d[i] = b[i]
    BY <1>1, <2>1, TornIs
  <2>3. 1 \in 1..Len(d)
    BY <2>2
  <2> QED
    BY <1>1, <2>2, <2>3
<1>3. CASE f.kind = "indexed"
  <2>1. f.index \in WrittenInt /\ Prefix(7, 1, 2^7) /\ b = IntBytes(f.index, 7, 1)
    BY <1>3, WrittenFieldIs, FieldBytesAre, PrefixIs
  <2>2. ParseInt(d, 7) = <<>>
    BY <2>1, TornIntRefused
  <2> QED
    BY <1>2, <1>3, <2>2, Dispatched DEF ParseIndexed
<1>4. CASE f.kind = "resize"
  <2>1. f.size \in WrittenInt /\ Prefix(5, 1, 2^5) /\ b = IntBytes(f.size, 5, 1)
    BY <1>4, WrittenFieldIs, FieldBytesAre, PrefixIs
  <2>2. ParseInt(d, 5) = <<>>
    BY <2>1, TornIntRefused
  <2> QED
    BY <1>2, <1>4, <2>2, Dispatched DEF ParseResized
<1>5. CASE f.kind = "partial"
  <2>1. /\ f.index \in WrittenInt /\ f.val \in WrittenString /\ f.prop \in Props /\ Plain(f.val)
        /\ b = IntBytes(f.index, IndexPrefix(f.prop), Preprefix(f.prop)) \o StringBytes(f.val)
    BY <1>5, WrittenFieldIs, FieldBytesAre DEF PlainField
  <2>2. ParseNamed(d, f.prop) = <<>>
    BY <2>1, NamedTorn
  <2> QED
    BY <1>2, <1>5, <2>2, Dispatched
<1>6. CASE f.kind = "literal"
  <2>1. /\ f.key \in WrittenString /\ f.val \in WrittenString /\ f.prop \in Props
        /\ Plain(f.val) /\ Plain(f.key)
        /\ b = (IntBytes(Zero, IndexPrefix(f.prop), Preprefix(f.prop)) \o StringBytes(f.key))
                  \o StringBytes(f.val)
    BY <1>6, WrittenFieldIs, FieldBytesAre DEF PlainField
  <2>2. ParseNamed(d, f.prop) = <<>>
    BY <2>1, LiteralTorn
  <2> QED
    BY <1>2, <1>6, <2>2, Dispatched
<1> QED
  BY <1>3, <1>4, <1>5, <1>6, WrittenFieldIs

-----------------------------------------------------------------------------
(* A block is written field by field.                                      *)
LEMMA WrittenIs ==
    ASSUME NEW b \in Seq(WrittenField)
    PROVE  /\ Written(b, 0) = <<>>
           /\ \A k \in Nat : k < Len(b) => Written(b, k + 1) = Written(b, k) \o FieldBytes(b[k + 1])
           /\ \A k \in 0..Len(b) : Written(b, k) \in Seq(Octet)
<1> DEFINE m == Len(b)
           f == [i \in 1..m |-> FieldBytes(b[i])]
<1>1. m \in Nat /\ \A i \in 1..m : b[i] \in WrittenField
  BY ElementOfSeq
<1>2. \A i \in 1..m : f[i] = FieldBytes(b[i])
  OBVIOUS
<1>3. \A i \in 1..m : f[i] \in Seq(Octet)
  BY <1>1, <1>2, FieldBytesTyped
<1>4. Pieces(f, m, Octet)
  <2> HIDE DEF f, m
  <2> QED
    BY <1>1, <1>3 DEF Pieces
<1>5. ASSUME NEW k \in 0..m
      PROVE  Flat(f, k) = Written(b, k)
  <2> DEFINE u == [i \in 1..k |-> f[i]]
             v == [i \in 1..k |-> FieldBytes(b[i])]
  <2>1. \A i \in 1..k : f[i] = FieldBytes(b[i])
    BY <1>1, <1>2
  <2> HIDE DEF f
  <2>2. u = v
    BY <2>1
  <2>3. FlattenSeq(u) = FlattenSeq(v)
    BY <2>2
  <2> QED
    BY <2>3 DEF Flat, Written
<1> HIDE DEF f
<1>6. /\ Flat(f, 0) = <<>>
      /\ \A k \in Nat : k < m => Flat(f, k + 1) = Flat(f, k) \o f[k + 1]
      /\ \A k \in 0..m : Flat(f, k) \in Seq(Octet)
  BY <1>4, FlatIs
<1> HIDE DEF m
<1>7. \A k \in Nat : k < m => k \in 0..m /\ k + 1 \in 0..m /\ k + 1 \in 1..m
  BY <1>1
<1>8. 0 \in 0..m
  BY <1>1
<1>9. Written(b, 0) = <<>> /\ \A k \in 0..m : Written(b, k) \in Seq(Octet)
  BY <1>5, <1>6, <1>8
<1>10. \A k \in Nat : k < m => Written(b, k + 1) = Written(b, k) \o FieldBytes(b[k + 1])
  BY <1>2, <1>5, <1>6, <1>7
<1> QED
  BY <1>9, <1>10 DEF m

LEMMA BeginsJoined ==
    ASSUME NEW a \in Seq(Octet), NEW b \in Seq(Octet), NEW c \in Seq(Octet), Begins(a, b)
    PROVE  Begins(a, b \o c)
<1>1. /\ Len(b \o c) = Len(b) + Len(c) /\ Len(b) \in Nat /\ Len(c) \in Nat /\ Len(a) \in Nat
      /\ \A i \in 1..Len(b) : (b \o c)[i] = b[i]
  BY JoinedIs
<1>2. Len(a) <= Len(b) /\ \A i \in 1..Len(a) : a[i] = b[i]
  BY DEF Begins
<1>3. \A i \in 1..Len(a) : i \in 1..Len(b)
  BY <1>1, <1>2
<1>4. Len(a) <= Len(b \o c)
  BY <1>1, <1>2
<1> QED
  BY <1>1, <1>2, <1>3, <1>4 DEF Begins

(* Fewer fields begin more of them, and are shorter.                       *)
LEMMA WrittenGrows ==
    ASSUME NEW b \in Seq(WrittenField), NEW j \in 0..Len(b), NEW k \in 0..Len(b), j <= k
    PROVE  /\ Begins(Written(b, j), Written(b, k))
           /\ j < k => Len(Written(b, j)) < Len(Written(b, k))
<1> DEFINE m == Len(b)
           L(i) == Len(Written(b, i))
           T == {i \in Nat : j <= i /\ i <= m =>
                    /\ Begins(Written(b, j), Written(b, i))
                    /\ j < i => L(j) < L(i)}
<1>1. m \in Nat /\ \A i \in 1..m : b[i] \in WrittenField
  BY ElementOfSeq
<1>2. /\ \A i \in Nat : i < m => Written(b, i + 1) = Written(b, i) \o FieldBytes(b[i + 1])
      /\ \A i \in 0..m : Written(b, i) \in Seq(Octet)
  BY WrittenIs
<1>3. \A i \in 0..m : L(i) \in Nat
  BY <1>2
<1> HIDE DEF m, L
<1>4. Begins(Written(b, j), Written(b, j))
  <2>1. Len(Written(b, j)) \in Nat
    BY <1>3 DEF L, m
  <2> QED
    BY <2>1 DEF Begins
<1>5. 0 \in T
  <2> SUFFICES ASSUME j <= 0 PROVE j = 0
    BY <1>4
  <2> QED
    BY <1>1 DEF m
<1>6. ASSUME NEW i \in Nat, i \in T
      PROVE  i + 1 \in T
  <2> SUFFICES ASSUME j <= i + 1, i + 1 <= m
               PROVE  /\ Begins(Written(b, j), Written(b, i + 1))
                      /\ j < i + 1 => L(j) < L(i + 1)
    OBVIOUS
  <2>1. j \in Nat /\ i < m /\ i \in 0..m /\ i + 1 \in 1..m
    BY <1>1 DEF m
  <2>2. CASE j = i + 1
    BY <1>4, <2>1, <2>2
  <2>3. CASE j # i + 1
    <3> DEFINE w == FieldBytes(b[i + 1])
               a == Written(b, i)
    <3>1. j <= i /\ i <= m
      BY <2>1, <2>3
    <3>2. w \in Seq(Octet) /\ Len(w) >= 1
      BY <1>1, <2>1, FieldBytesTyped
    <3>3. a \in Seq(Octet) /\ Written(b, j) \in Seq(Octet) /\ Written(b, i + 1) = a \o w
      BY <1>2, <2>1 DEF m
    <3>4. Begins(Written(b, j), a) /\ (j < i => L(j) < L(i))
      BY <1>6, <3>1
    <3> HIDE DEF w, a
    <3>5. Begins(Written(b, j), a \o w)
      BY <3>2, <3>3, <3>4, BeginsJoined
    <3>6. Len(a \o w) = Len(a) + Len(w) /\ Len(a) \in Nat /\ Len(w) \in Nat
      BY <3>2, <3>3, JoinedIs
    <3>7. L(i) = Len(a) /\ L(i + 1) = Len(a \o w)
      BY <3>3 DEF L, a
    <3>8. L(j) \in Nat /\ L(i) \in Nat /\ L(i + 1) \in Nat /\ L(i) < L(i + 1)
      BY <1>3, <2>1, <3>2, <3>6, <3>7 DEF m
    <3>9. j < i \/ j = i
      BY <2>1, <3>1
    <3>10. L(j) < L(i + 1)
      BY <3>4, <3>8, <3>9
    <3> QED
      BY <3>3, <3>5, <3>10
  <2> QED
    BY <2>2, <2>3
<1>7. Nat \subseteq T
  <2> HIDE DEF T
  <2> QED
    BY <1>5, <1>6, SetInduction
<1>8. k \in Nat /\ k \in T /\ k <= m
  BY <1>1, <1>7 DEF m
<1> QED
  BY <1>8 DEF L

(* Of the first k octets of a block, the fields after the n-th are in d.   *)
StandsAt(b, n, k, d) ==
    /\ n \in 0..Len(b) /\ k \in 0..Len(Written(b, Len(b)))
    /\ d \in Seq(Octet)
    /\ SubSeq(Written(b, Len(b)), 1, k) = Written(b, n) \o d

LEMMA StandsAtIs ==
    ASSUME NEW b \in Seq(WrittenField), NEW n, NEW k, NEW d, StandsAt(b, n, k, d)
    PROVE  /\ k = Len(Written(b, n)) + Len(d)
           /\ \A i \in 1..Len(d) : d[i] = Written(b, Len(b))[Len(Written(b, n)) + i]
<1> DEFINE whole == Written(b, Len(b))
           a == Written(b, n)
           t == SubSeq(whole, 1, k)
           u == a \o d
<1>1. Len(b) \in 0..Len(b)
  OBVIOUS
<1>2. whole \in Seq(Octet) /\ a \in Seq(Octet) /\ d \in Seq(Octet) /\ k \in 0..Len(whole) /\ t = u
  BY <1>1, WrittenIs DEF StandsAt
<1> HIDE DEF whole, a
<1>3. Len(t) = k /\ \A i \in 1..k : t[i] = whole[i]
  BY <1>2, FirstOf
<1>4. /\ Len(u) = Len(a) + Len(d) /\ Len(a) \in Nat /\ Len(d) \in Nat
      /\ \A i \in 1..Len(d) : u[Len(a) + i] = d[i]
  BY <1>2, JoinedIs
<1> HIDE DEF t, u
<1>5. k = Len(a) + Len(d)
  BY <1>2, <1>3, <1>4
<1>6. ASSUME NEW i \in 1..Len(d)
      PROVE  d[i] = whole[Len(a) + i]
  <2>1. Len(a) + i \in 1..k
    BY <1>4, <1>5
  <2> QED
    BY <1>2, <1>3, <1>4, <2>1
<1> QED
  BY <1>5, <1>6 DEF whole, a

(* The next field is there, or it is torn.                                 *)
LEMMA NextField ==
    ASSUME NEW b \in Seq(WrittenField), NEW n, NEW k, NEW d, StandsAt(b, n, k, d), n < Len(b)
    PROVE  \/ \E r \in Seq(Octet) : d = FieldBytes(b[n + 1]) \o r /\ StandsAt(b, n + 1, k, r)
           \/ /\ Torn(d, FieldBytes(b[n + 1]))
              /\ k = Len(Written(b, n)) + Len(d) /\ k < Len(Written(b, n + 1))
<1> DEFINE whole == Written(b, Len(b))
           a == Written(b, n)
           w == FieldBytes(b[n + 1])
           next == Written(b, n + 1)
<1>1. n \in Nat /\ n + 1 \in 0..Len(b) /\ n + 1 <= Len(b) /\ Len(b) \in 0..Len(b) /\ n \in 0..Len(b)
  BY DEF StandsAt
<1>2. b[n + 1] \in WrittenField
  BY <1>1
<1>3. /\ whole \in Seq(Octet) /\ a \in Seq(Octet) /\ w \in Seq(Octet) /\ d \in Seq(Octet)
      /\ k \in 0..Len(whole) /\ next = a \o w
  BY <1>1, <1>2, WrittenIs, FieldBytesTyped DEF StandsAt
<1>4. Begins(next, whole)
  BY <1>1, WrittenGrows
<1>5. k = Len(a) + Len(d) /\ \A i \in 1..Len(d) : d[i] = whole[Len(a) + i]
  BY StandsAtIs
<1>6. SubSeq(whole, 1, k) = a \o d
  BY DEF StandsAt
<1>7. StandsAt(b, n + 1, k, SubSeq(d, Len(w) + 1, Len(d))) <=>
        /\ SubSeq(d, Len(w) + 1, Len(d)) \in Seq(Octet)
        /\ SubSeq(whole, 1, k) = next \o SubSeq(d, Len(w) + 1, Len(d))
  BY <1>1, <1>3 DEF StandsAt
<1> HIDE DEF whole, a, w, next
<1>8. /\ Len(next) = Len(a) + Len(w) /\ Len(a) \in Nat /\ Len(w) \in Nat /\ Len(d) \in Nat
      /\ \A i \in 1..Len(w) : next[Len(a) + i] = w[i]
  BY <1>3, JoinedIs
<1>9. ASSUME NEW i \in 1..Len(d), i <= Len(w)
      PROVE  d[i] = w[i]
  <2>1. i \in 1..Len(w) /\ Len(a) + i \in 1..Len(next)
    BY <1>8, <1>9
  <2>2. next[Len(a) + i] = whole[Len(a) + i]
    BY <1>4, <2>1 DEF Begins
  <2> QED
    BY <1>5, <1>8, <2>1, <2>2
<1>10. CASE Len(w) <= Len(d)
  <2> DEFINE r == SubSeq(d, Len(w) + 1, Len(d))
             t == w \o r
  <2>1. /\ r \in Seq(Octet) /\ Len(r) = Len(d) - Len(w)
        /\ \A i \in 1..Len(r) : r[i] = d[Len(w) + i]
    BY <1>3, <1>8, <1>10, PieceIs
  <2> HIDE DEF r
  <2>2. /\ t \in Seq(Octet) /\ Len(t) = Len(w) + Len(r)
        /\ \A i \in 1..Len(w) : t[i] = w[i]
        /\ \A i \in 1..Len(r) : t[Len(w) + i] = r[i]
    BY <1>3, <2>1, JoinedIs
  <2> HIDE DEF t
  <2>3. Len(t) = Len(d)
    BY <1>8, <1>10, <2>1, <2>2
  <2>4. ASSUME NEW i \in 1..Len(d)
        PROVE  d[i] = t[i]
    <3>1. CASE i <= Len(w)
      <4>1. i \in 1..Len(w)
        BY <1>8, <3>1
      <4> QED
        BY <1>9, <2>2, <3>1, <4>1
    <3>2. CASE i > Len(w)
      <4> DEFINE j == i - Len(w)
      <4>1. j \in 1..Len(r) /\ Len(w) + j = i
        BY <1>8, <2>1, <3>2
      <4> HIDE DEF j
      <4>2. t[Len(w) + j] = r[j] /\ r[j] = d[Len(w) + j]
        BY <2>1, <2>2, <4>1
      <4> QED
        BY <4>1, <4>2
    <3> QED
      BY <1>8, <3>1, <3>2
  <2>5. d = w \o r
    <3>1. d = t
      BY <1>3, <2>2, <2>3, <2>4, SeqEqual
    <3> QED
      BY <3>1 DEF t
  <2>6. ASSUME NEW x \in Seq(Octet), NEW y \in Seq(Octet), NEW z \in Seq(Octet)
        PROVE  x \o (y \o z) = (x \o y) \o z
    OBVIOUS
  <2>7. a \o (w \o r) = (a \o w) \o r
    BY <1>3, <2>1, <2>6
  <2>8. SubSeq(whole, 1, k) = next \o r
    BY <1>3, <1>6, <2>5, <2>7
  <2>9. StandsAt(b, n + 1, k, r)
    BY <1>7, <2>1, <2>8 DEF r
  <2>10. d = FieldBytes(b[n + 1]) \o r
    BY <2>5 DEF w
  <2>11. \E x \in Seq(Octet) : d = FieldBytes(b[n + 1]) \o x /\ StandsAt(b, n + 1, k, x)
    BY <2>1, <2>9, <2>10, Zenon
  <2> QED
    BY <2>11, Zenon
<1>11. CASE Len(d) < Len(w)
  <2> DEFINE u == SubSeq(w, 1, Len(d))
  <2>1. Len(d) \in 0..Len(w)
    BY <1>8, <1>11
  <2>2. u \in Seq(Octet) /\ Len(u) = Len(d) /\ \A i \in 1..Len(d) : u[i] = w[i]
    BY <1>3, <2>1, FirstOf
  <2> HIDE DEF u
  <2>3. ASSUME NEW i \in 1..Len(d)
        PROVE  d[i] = u[i]
    <3>1. i <= Len(w)
      BY <1>8, <1>11
    <3> QED
      BY <1>9, <2>2, <3>1
  <2>4. d = u
    BY <1>3, <2>2, <2>3, SeqEqual
  <2>5. Torn(d, w)
    BY <1>8, <1>11, <2>4 DEF Torn, u
  <2>6. k < Len(next)
    BY <1>5, <1>8, <1>11
  <2> QED
    BY <1>5, <2>5, <2>6 DEF w, a, next
<1>12. Len(w) <= Len(d) \/ Len(d) < Len(w)
  BY <1>8
<1> QED
  BY <1>10, <1>11, <1>12, Zenon

(* Behind the last field there is nothing.                                 *)
LEMMA NoNextField ==
    ASSUME NEW b \in Seq(WrittenField), NEW k, NEW d, StandsAt(b, Len(b), k, d)
    PROVE  d = <<>>
<1> DEFINE whole == Written(b, Len(b))
<1>1. k = Len(whole) + Len(d) /\ k \in 0..Len(whole) /\ d \in Seq(Octet)
  BY StandsAtIs DEF StandsAt
<1>2. Len(b) \in 0..Len(b)
  OBVIOUS
<1>3. whole \in Seq(Octet)
  BY <1>2, WrittenIs
<1> HIDE DEF whole
<1>4. Len(d) = 0
  BY <1>1, <1>3
<1> QED
  BY <1>1, <1>4

-----------------------------------------------------------------------------
(* The receiving program and its HPACKState.                               *)
States == {"idle", "parse", "process", "HPACKError", "AssertionError"}

Types ==
    /\ pc \in States
    /\ block \in Seq(WrittenField) /\ received \in Nat /\ data \in Seq(Octet)
    /\ parsed \in Seq(ParsedField) /\ fields \in Seq(ParsedField)
    /\ headers \in Seq(Header) /\ table \in Seq(Header) /\ capacity \in Nat

(* What each variable holds outside the phase it is for.                   *)
AtRest ==
    /\ pc \in {"idle", "parse", "HPACKError"} => fields = <<>> /\ headers = <<>>
    /\ pc = "idle" => block = <<>> /\ received = 0 /\ parsed = <<>>
    /\ pc \in {"idle", "process", "AssertionError"} => data = <<>>

(* What __post_init__ asserts.                                             *)
Fits == pc # "AssertionError" => TableSize(table) <= capacity /\ capacity <= MaxCapacity

(* Where the parser is in a block it can read back.                        *)
InStep ==
    (\A i \in DOMAIN block : PlainField(block[i])) =>
        /\ StandsAt(block, Len(parsed), received, data)
        /\ \A i \in DOMAIN parsed : parsed[i] = FieldMeant(block[i])
        /\ pc = "HPACKError" => \A n \in 0..Len(block) : received # Len(Written(block, n))

HpackIInv == Types /\ AtRest /\ Fits /\ InStep

LEMMA IndexIs ==
    ASSUME Types, NEW i \in Nat, IsHeader(i)
    PROVE  GetHeader(i) \in Header
<1>1. StaticTable \in Seq(Header) /\ table \in Seq(Header)
  BY HpackAssumption DEF Types
<1>2. i > 0 /\ (i - 1 < Len(StaticTable) \/ i - 1 - Len(StaticTable) < Len(table))
  BY DEF IsHeader
<1>3. Len(StaticTable) \in Nat /\ Len(table) \in Nat
  BY <1>1
<1>4. CASE i - 1 < Len(StaticTable)
  <2>1. i \in 1..Len(StaticTable)
    BY <1>2, <1>3, <1>4
  <2>2. StaticTable[i] \in Header
    BY <1>1, <2>1
  <2> QED
    BY <1>4, <2>2 DEF GetHeader
<1>5. CASE ~(i - 1 < Len(StaticTable))
  <2>1. i - Len(StaticTable) \in 1..Len(table)
    BY <1>2, <1>3, <1>5
  <2>2. table[i - Len(StaticTable)] \in Header
    BY <1>1, <2>1
  <2> QED
    BY <1>5, <2>2 DEF GetHeader
<1> QED
  BY <1>4, <1>5

LEMMA EvictedFits ==
    ASSUME NEW t \in Seq(Header), NEW room \in Nat
    PROVE  /\ Evicted(t, room) \in Seq(Header) /\ TableSize(Evicted(t, room)) <= room
           /\ TableSize(t) <= room => Evicted(t, room) = t
<1>1. PICK n : Keeps(t, room, n) /\ Evicted(t, room) = SubSeq(t, 1, n)
  BY EvictedKeeps
<1>2. n \in 0..Len(t) /\ SizeOf(t, n) <= room /\ \A m \in 0..Len(t) : SizeOf(t, m) <= room => m <= n
  BY <1>1 DEF Keeps
<1>3. SubSeq(t, 1, n) \in Seq(Header) /\ SubSeq(t, 1, Len(t)) = t
  BY <1>2, FirstOf
<1>4. SizeOf(t, Len(t)) = TableSize(t) /\ Len(t) \in 0..Len(t)
  BY SizeOfIs
<1>5. TableSize(SubSeq(t, 1, n)) <= room
  BY <1>2 DEF SizeOf
<1>6. ASSUME TableSize(t) <= room
      PROVE  n = Len(t)
  <2>1. Len(t) <= n
    BY <1>2, <1>4, <1>6
  <2> QED
    BY <1>2, <2>1
<1> QED
  BY <1>1, <1>3, <1>5, <1>6

LEMMA HeadIs ==
    ASSUME Types, fields # <<>>
    PROVE  Head(fields) \in ParsedField /\ Tail(fields) \in Seq(ParsedField)
BY DEF Types

LEMMA ParsedFieldIs ==
    ASSUME NEW f \in ParsedField
    PROVE  \/ f.kind = "indexed" /\ f.index \in Nat
           \/ f.kind = "partial" /\ f.index \in Nat /\ f.val \in Seq(Octet)
           \/ f.kind = "literal" /\ f.key \in Seq(Octet) /\ f.val \in Seq(Octet)
           \/ f.kind = "resize" /\ f.size \in Nat
<1> DEFINE A == [kind : {"indexed"}, index : Nat]
           B == [kind : {"partial"}, index : Nat, val : Seq(Octet), prop : Props]
           C == [kind : {"literal"}, key : Seq(Octet), val : Seq(Octet), prop : Props]
           D == [kind : {"resize"}, size : Nat]
<1>1. f \in A \/ f \in B \/ f \in C \/ f \in D
  BY DEF ParsedField
<1>2. CASE f \in A
  BY <1>2
<1>3. CASE f \in B
  BY <1>3
<1>4. CASE f \in C
  BY <1>4
<1>5. CASE f \in D
  BY <1>5
<1> QED
  BY <1>1, <1>2, <1>3, <1>4, <1>5

LEMMA PairIsHeader ==
    ASSUME NEW a \in Seq(Octet), NEW b \in Seq(Octet)
    PROVE  <<a, b>> \in Header
<1> DEFINE S == Seq(Octet)
<1>1. a \in S /\ b \in S
  OBVIOUS
<1> HIDE DEF S
<1>2. <<a, b>> \in Seq(S) /\ Len(<<a, b>>) = 2
  BY <1>1
<1> QED
  BY <1>2 DEF Header, S

(* The headers of the three kinds, one lemma for each.                     *)
LEMMA IndexedHeader ==
    ASSUME Types, At("indexed"), IsHeader(Head(fields).index)
    PROVE  GetHeader(Head(fields).index) \in Header /\ Head(fields).index \in Nat
<1>1. Head(fields) \in ParsedField /\ Head(fields).kind = "indexed"
  BY HeadIs DEF At
<1>2. Head(fields).index \in Nat
  BY <1>1, ParsedFieldIs
<1> QED
  BY <1>2, IndexIs

LEMMA PartialHeader ==
    ASSUME Types, At("partial"), IsHeader(Head(fields).index)
    PROVE  /\ Head(fields).index \in Nat
           /\ <<GetHeader(Head(fields).index)[1], Head(fields).val>> \in Header
<1>1. Head(fields) \in ParsedField /\ Head(fields).kind = "partial"
  BY HeadIs DEF At
<1>2. Head(fields).index \in Nat /\ Head(fields).val \in Seq(Octet)
  BY <1>1, ParsedFieldIs
<1>3. GetHeader(Head(fields).index) \in Header
  BY <1>2, IndexIs
<1>4. GetHeader(Head(fields).index)[1] \in Seq(Octet)
  BY <1>3, EntrySizeIsNatural
<1> QED
  BY <1>2, <1>4, PairIsHeader

LEMMA LiteralHeader ==
    ASSUME Types, At("literal")
    PROVE  <<Head(fields).key, Head(fields).val>> \in Header
<1>1. Head(fields) \in ParsedField /\ Head(fields).kind = "literal"
  BY HeadIs DEF At
<1>2. Head(fields).key \in Seq(Octet) /\ Head(fields).val \in Seq(Octet)
  BY <1>1, ParsedFieldIs
<1> QED
  BY <1>2, PairIsHeader

LEMMA SizeIs ==
    ASSUME Types, At("resize")
    PROVE  Head(fields).size \in Nat
<1>1. Head(fields) \in ParsedField /\ Head(fields).kind = "resize"
  BY HeadIs DEF At
<1> QED
  BY <1>1, ParsedFieldIs

(* A header that is yielded, and may go into the table.                    *)
LEMMA Yielded ==
    ASSUME Types, Fits, pc = "process", fields # <<>>, NEW h \in Header, Yield(h),
           AddHeaderToDynamicTable(h) \/ table' = table, capacity' = capacity
    PROVE  /\ headers' \in Seq(Header) /\ fields' \in Seq(ParsedField) /\ table' \in Seq(Header)
           /\ TableSize(table') <= capacity'
<1>1. headers \in Seq(Header) /\ table \in Seq(Header) /\ capacity \in Nat
  BY DEF Types
<1>2. headers' \in Seq(Header) /\ fields' \in Seq(ParsedField)
  BY <1>1, HeadIs DEF Yield
<1>3. CASE table' = table
  BY <1>1, <1>2, <1>3 DEF Fits
<1>4. CASE AddHeaderToDynamicTable(h)
  <2> DEFINE t == <<h>> \o table
  <2>1. t \in Seq(Header) /\ table' = Evicted(t, capacity)
    BY <1>1, <1>4, Prepended DEF AddHeaderToDynamicTable
  <2> HIDE DEF t
  <2> QED
    BY <1>1, <1>2, <2>1, EvictedFits
<1> QED
  BY <1>3, <1>4

LEMMA NothingStands == StandsAt(<<>>, 0, 0, <<>>)
<1> DEFINE b == <<>>
<1>1. b \in Seq(WrittenField) /\ Len(b) = 0
  OBVIOUS
<1> HIDE DEF b
<1>2. Written(b, 0) = <<>> /\ Written(b, Len(b)) = <<>>
  BY <1>1, WrittenIs
<1>3. SubSeq(<<>>, 1, 0) = <<>> /\ <<>> \o <<>> = <<>> /\ <<>> \in Seq(Octet) /\ Len(<<>>) = 0
  OBVIOUS
<1>4. SubSeq(Written(b, Len(b)), 1, 0) = Written(b, 0) \o <<>>
  BY <1>2, <1>3
<1>5. 0 \in 0..Len(b) /\ 0 \in 0..Len(Written(b, Len(b)))
  BY <1>1, <1>2, <1>3
<1>6. StandsAt(b, 0, 0, <<>>)
  BY <1>3, <1>4, <1>5 DEF StandsAt
<1> QED
  BY <1>6 DEF b

LEMMA HpackBegins == Init => HpackIInv
<1> SUFFICES ASSUME Init PROVE HpackIInv
  OBVIOUS
<1> USE DEF Init
<1>1. Types
  <2>1. MaxCapacity \in Nat
    BY HpackAssumption
  <2>2. <<>> \in Seq(WrittenField) /\ <<>> \in Seq(Octet) /\ <<>> \in Seq(ParsedField) /\ <<>> \in Seq(Header)
    OBVIOUS
  <2> QED
    BY <2>1, <2>2 DEF Types, States
<1>2. AtRest
  BY DEF AtRest
<1>3. Fits
  <2>1. table \in Seq(Header) /\ Len(table) = 0 /\ MaxCapacity \in Nat
    BY HpackAssumption
  <2>2. SizeOf(table, Len(table)) = TableSize(table) /\ SizeOf(table, 0) = 0
    BY <2>1, SizeOfIs
  <2> QED
    BY <2>1, <2>2 DEF Fits
<1>4. InStep
  <2>1. Len(parsed) = 0 /\ StandsAt(block, 0, received, data)
    BY NothingStands
  <2> QED
    BY <2>1 DEF InStep
<1> QED
  BY <1>1, <1>2, <1>3, <1>4 DEF HpackIInv

(* Nothing of the block or of its parsing changes.                         *)
LEMMA StillInStep ==
    ASSUME InStep, UNCHANGED <<block, received, data, parsed>>, pc' # "HPACKError"
    PROVE  InStep'
BY DEF InStep

LEMMA ReceiveKeeps ==
    ASSUME HpackIInv, Receive
    PROVE  HpackIInv'
<1> USE DEF HpackIInv, Receive
<1>1. PICK b \in Blocks : /\ block' = b
                          /\ \E k \in 0..Len(Written(b, Len(b))) :
                                received' = k /\ data' = SubSeq(Written(b, Len(b)), 1, k)
  OBVIOUS
<1> DEFINE whole == Written(b, Len(b))
<1>2. b \in Seq(WrittenField) /\ Len(b) \in 0..Len(b) /\ 0 \in 0..Len(b)
  BY HpackAssumption
<1>3. whole \in Seq(Octet) /\ Written(b, 0) = <<>>
  BY <1>2, WrittenIs
<1>4. PICK k \in 0..Len(whole) : received' = k /\ data' = SubSeq(whole, 1, k)
  BY <1>1
<1>5. SubSeq(whole, 1, k) \in Seq(Octet)
  <2> HIDE DEF whole
  <2> QED
    BY <1>3, FirstOf
<1>6. fields = <<>> /\ headers = <<>> /\ parsed = <<>>
  BY DEF AtRest
<1>7. Types'
  BY <1>1, <1>2, <1>4, <1>5 DEF Types, States
<1>8. AtRest'
  BY <1>6 DEF AtRest
<1>9. Fits'
  BY DEF Fits
<1>10. InStep'
  <2>1. Len(parsed') = 0 /\ parsed' = <<>>
    BY <1>6
  <2>2. \A s \in Seq(Octet) : s = <<>> \o s
    OBVIOUS
  <2>3. SubSeq(whole, 1, k) = Written(b, 0) \o SubSeq(whole, 1, k)
    BY <1>3, <1>5, <2>2
  <2>4. StandsAt(b, 0, k, SubSeq(whole, 1, k))
    BY <1>2, <1>5, <2>3 DEF StandsAt
  <2>5. StandsAt(block', Len(parsed'), received', data')
    BY <1>1, <1>4, <2>1, <2>4
  <2>6. \A i \in DOMAIN parsed' : parsed'[i] = FieldMeant(block'[i])
    BY <2>1
  <2> QED
    BY <2>5, <2>6 DEF InStep
<1> QED
  BY <1>7, <1>8, <1>9, <1>10

LEMMA ParseOneKeeps ==
    ASSUME HpackIInv, ParseOne
    PROVE  HpackIInv'
<1> USE DEF HpackIInv
<1> DEFINE result == ParseField(data)
<1>1. /\ pc = "parse" /\ data # <<>> /\ result # <<>>
      /\ parsed' = Append(parsed, result[1].field) /\ data' = result[1].rest
      /\ UNCHANGED <<pc, block, received, fields, headers, table, capacity>>
  BY DEF ParseOne
<1>2. block \in Seq(WrittenField) /\ data \in Seq(Octet) /\ parsed \in Seq(ParsedField)
  BY DEF Types
<1>3. PICK r \in Result : result = <<r>>
  BY <1>1, <1>2, ParseFieldTyped
<1>4. r.field \in ParsedField /\ r.rest \in Seq(Octet)
  BY DEF Result
<1> HIDE DEF result
<1>5. parsed' = Append(parsed, r.field) /\ data' = r.rest
  BY <1>1, <1>3
<1>6. Types'
  BY <1>1, <1>2, <1>4, <1>5 DEF Types
<1>7. AtRest'
  BY <1>1 DEF AtRest
<1>8. Fits'
  BY <1>1 DEF Fits
<1>9. InStep'
  <2> SUFFICES ASSUME \A i \in DOMAIN block : PlainField(block[i])
               PROVE  /\ StandsAt(block, Len(parsed'), received, data')
                      /\ \A i \in DOMAIN parsed' : parsed'[i] = FieldMeant(block[i])
    BY <1>1 DEF InStep
  <2> DEFINE n == Len(parsed)
  <2>1. StandsAt(block, n, received, data) /\ \A i \in 1..n : parsed[i] = FieldMeant(block[i])
    BY <1>2 DEF InStep
  <2>2. n \in 0..Len(block) /\ Len(block) \in Nat
    BY <1>2, <2>1 DEF StandsAt
  <2>3. n < Len(block)
    <3>1. n # Len(block)
      BY <1>1, <1>2, <2>1, NoNextField
    <3> QED
      BY <2>2, <3>1
  <2>4. /\ Len(parsed') = n + 1 /\ parsed'[n + 1] = r.field /\ DOMAIN parsed' = 1..(n + 1)
        /\ \A i \in 1..n : parsed'[i] = parsed[i]
    BY <1>2, <1>4, <1>5
  <2> HIDE DEF n
  <2> DEFINE f == block[n + 1]
  <2>5. f \in WrittenField /\ PlainField(f)
    BY <1>2, <2>2, <2>3
  <2>6. ~Torn(data, FieldBytes(f))
    <3> SUFFICES ASSUME Torn(data, FieldBytes(f)) PROVE FALSE
      OBVIOUS
    <3>1. ParseField(data) = <<>>
      <4> HIDE DEF f
      <4> QED
        BY <1>1, <2>5, TornFieldRefused
    <3> QED
      BY <1>1, <3>1 DEF result
  <2>7. PICK s \in Seq(Octet) : data = FieldBytes(f) \o s /\ StandsAt(block, n + 1, received, s)
    BY <1>2, <2>1, <2>3, <2>6, NextField
  <2>8. result = <<[field |-> FieldMeant(f), rest |-> s]>>
    <3> HIDE DEF f
    <3>1. ParseField(FieldBytes(f) \o s) = <<[field |-> FieldMeant(f), rest |-> s]>>
      BY <2>5, FieldComesBack
    <3> QED
      BY <2>7, <3>1 DEF result
  <2>9. r.field = FieldMeant(f) /\ r.rest = s
    BY <1>3, <2>8
  <2>10. StandsAt(block, Len(parsed'), received, data')
    BY <1>5, <2>4, <2>7, <2>9
  <2>11. ASSUME NEW i \in 1..(n + 1)
         PROVE  parsed'[i] = FieldMeant(block[i])
    <3>1. CASE i = n + 1
      BY <2>4, <2>9, <3>1
    <3>2. CASE i # n + 1
      BY <2>1, <2>2, <2>4, <3>2
    <3> QED
      BY <3>1, <3>2
  <2> QED
    BY <2>4, <2>10, <2>11
<1> QED
  BY <1>6, <1>7, <1>8, <1>9

LEMMA ParseRaisesKeeps ==
    ASSUME HpackIInv, ParseRaises
    PROVE  HpackIInv'
<1> USE DEF HpackIInv
<1>1. /\ pc = "parse" /\ data # <<>> /\ ParseField(data) = <<>> /\ pc' = "HPACKError"
      /\ UNCHANGED <<block, received, data, parsed, fields, headers, table, capacity>>
  BY DEF ParseRaises
<1>2. block \in Seq(WrittenField) /\ data \in Seq(Octet) /\ parsed \in Seq(ParsedField)
  BY DEF Types
<1>3. Types'
  BY <1>1 DEF Types, States
<1>4. AtRest'
  BY <1>1 DEF AtRest
<1>5. Fits'
  BY <1>1 DEF Fits
<1>6. InStep'
  <2> SUFFICES ASSUME \A i \in DOMAIN block : PlainField(block[i])
               PROVE  /\ StandsAt(block, Len(parsed), received, data)
                      /\ \A i \in DOMAIN parsed : parsed[i] = FieldMeant(block[i])
                      /\ \A n \in 0..Len(block) : received # Len(Written(block, n))
    BY <1>1 DEF InStep
  <2> DEFINE n == Len(parsed)
  <2>1. StandsAt(block, n, received, data) /\ \A i \in DOMAIN parsed : parsed[i] = FieldMeant(block[i])
    BY DEF InStep
  <2>2. n \in 0..Len(block) /\ Len(block) \in Nat
    BY <1>2, <2>1 DEF StandsAt
  <2>3. n < Len(block)
    <3>1. n # Len(block)
      BY <1>1, <1>2, <2>1, NoNextField
    <3> QED
      BY <2>2, <3>1
  <2> HIDE DEF n
  <2> DEFINE f == block[n + 1]
  <2>4. f \in WrittenField /\ PlainField(f)
    BY <1>2, <2>2, <2>3
  <2>5. ASSUME NEW s \in Seq(Octet), data = FieldBytes(f) \o s
        PROVE  FALSE
    <3> HIDE DEF f
    <3>1. ParseField(FieldBytes(f) \o s) = <<[field |-> FieldMeant(f), rest |-> s]>>
      BY <2>4, FieldComesBack
    <3> QED
      BY <1>1, <2>5, <3>1
  <2>6. /\ received = Len(Written(block, n)) + Len(data)
        /\ received < Len(Written(block, n + 1))
    BY <1>2, <2>1, <2>3, <2>5, NextField
  <2>7. Len(data) \in Nat \ {0}
    BY <1>1, <1>2
  <2>8. ASSUME NEW m \in 0..Len(block)
        PROVE  received # Len(Written(block, m))
    <3>1. n + 1 \in 0..Len(block)
      BY <2>2, <2>3
    <3>2. Len(Written(block, m)) \in Nat /\ Len(Written(block, n)) \in Nat /\ Len(Written(block, n + 1)) \in Nat
      <4>1. Written(block, m) \in Seq(Octet) /\ Written(block, n) \in Seq(Octet) /\ Written(block, n + 1) \in Seq(Octet)
        BY <1>2, <2>2, <3>1, WrittenIs
      <4> QED
        BY <4>1
    <3>3. CASE m <= n
      <4>1. Len(Written(block, m)) <= Len(Written(block, n))
        BY <1>2, <2>2, <3>3, WrittenGrows DEF Begins
      <4> QED
        BY <2>6, <2>7, <3>2, <4>1
    <3>4. CASE n + 1 <= m
      <4>1. Len(Written(block, n + 1)) <= Len(Written(block, m))
        BY <1>2, <3>1, <3>4, WrittenGrows DEF Begins
      <4> QED
        BY <2>6, <2>7, <3>2, <4>1
    <3> QED
      BY <2>2, <3>3, <3>4
  <2> QED
    BY <2>1, <2>8 DEF n
<1> QED
  BY <1>3, <1>4, <1>5, <1>6

LEMMA ParseEndsKeeps ==
    ASSUME HpackIInv, ParseEnds
    PROVE  HpackIInv'
<1> USE DEF HpackIInv
<1>1. /\ pc = "parse" /\ data = <<>> /\ fields' = parsed /\ pc' = "process"
      /\ UNCHANGED <<block, received, data, parsed, headers, table, capacity>>
  BY DEF ParseEnds
<1>2. Types'
  BY <1>1 DEF Types, States
<1>3. AtRest'
  BY <1>1 DEF AtRest
<1>4. Fits'
  BY <1>1 DEF Fits
<1>5. InStep'
  BY <1>1, StillInStep
<1> QED
  BY <1>2, <1>3, <1>4, <1>5

LEMMA ProcessKeeps ==
    ASSUME HpackIInv, Process
    PROVE  HpackIInv'
<1> USE DEF HpackIInv
<1>1. /\ headers' \in Seq(Header) /\ fields' \in Seq(ParsedField) /\ table' \in Seq(Header)
      /\ capacity' \in Nat /\ TableSize(table') <= capacity' /\ capacity' <= MaxCapacity
      /\ pc = "process" /\ UNCHANGED <<pc, block, received, data, parsed>>
  <2>0. capacity \in Nat /\ table \in Seq(Header) /\ headers \in Seq(Header)
    BY DEF Types
  <2>1. CASE ProcessIndexed
    <3> DEFINE h == GetHeader(Head(fields).index)
    <3>1. /\ pc = "process" /\ fields # <<>> /\ Yield(h) /\ At("indexed") /\ IsHeader(Head(fields).index)
          /\ UNCHANGED <<pc, block, received, data, parsed, table, capacity>>
      BY <2>1 DEF ProcessIndexed, At
    <3>2. h \in Header
      BY <3>1, IndexedHeader
    <3> HIDE DEF h
    <3> QED
      BY <2>0, <3>1, <3>2, Yielded DEF Fits
  <2>2. CASE ProcessLiteral
    <3> DEFINE h == <<Head(fields).key, Head(fields).val>>
    <3>1. /\ pc = "process" /\ fields # <<>> /\ Yield(h) /\ At("literal")
          /\ AddHeaderToDynamicTable(h) \/ table' = table
          /\ UNCHANGED <<pc, block, received, data, parsed, capacity>>
      BY <2>2 DEF ProcessLiteral, At
    <3>2. h \in Header
      BY <3>1, LiteralHeader
    <3> HIDE DEF h
    <3> QED
      BY <2>0, <3>1, <3>2, Yielded DEF Fits
  <2>3. CASE ProcessPartial
    <3> DEFINE h == <<GetHeader(Head(fields).index)[1], Head(fields).val>>
    <3>1. /\ pc = "process" /\ fields # <<>> /\ Yield(h) /\ At("partial") /\ IsHeader(Head(fields).index)
          /\ AddHeaderToDynamicTable(h) \/ table' = table
          /\ UNCHANGED <<pc, block, received, data, parsed, capacity>>
      BY <2>3 DEF ProcessPartial, At
    <3>2. h \in Header
      BY <3>1, PartialHeader
    <3> HIDE DEF h
    <3> QED
      BY <2>0, <3>1, <3>2, Yielded DEF Fits
  <2>4. CASE UpdateTableCapacity
    <3> DEFINE size == Head(fields).size
    <3>1. /\ pc = "process" /\ fields # <<>> /\ At("resize") /\ size <= MaxCapacity
          /\ capacity' = size /\ table' = Evicted(table, size) /\ fields' = Tail(fields)
          /\ UNCHANGED <<pc, block, received, data, parsed, headers>>
      BY <2>4 DEF UpdateTableCapacity, At
    <3>2. size \in Nat
      BY <3>1, SizeIs
    <3> HIDE DEF size
    <3>3. table' \in Seq(Header) /\ TableSize(table') <= capacity'
      BY <2>0, <3>1, <3>2, EvictedFits
    <3>4. fields' \in Seq(ParsedField)
      BY <3>1, HeadIs
    <3> QED
      BY <2>0, <3>1, <3>2, <3>3, <3>4
  <2> QED
    BY <2>1, <2>2, <2>3, <2>4 DEF Process
<1>2. Types'
  BY <1>1 DEF Types
<1>3. AtRest'
  BY <1>1 DEF AtRest
<1>4. Fits'
  BY <1>1 DEF Fits
<1>5. InStep'
  BY <1>1, StillInStep
<1> QED
  BY <1>2, <1>3, <1>4, <1>5

LEMMA AssertionFailsKeeps ==
    ASSUME HpackIInv, AssertionFails
    PROVE  HpackIInv'
<1> USE DEF HpackIInv
<1>1. /\ pc = "process" /\ pc' = "AssertionError" /\ fields' = <<>> /\ headers' = <<>>
      /\ UNCHANGED <<block, received, data, parsed>>
  BY DEF AssertionFails, At
<1>2. table' \in Seq(Header) /\ capacity' \in Nat
  <2>1. table \in Seq(Header) /\ capacity \in Nat
    BY DEF Types
  <2>2. CASE UNCHANGED <<table, capacity>>
    BY <2>1, <2>2
  <2>3. CASE At("resize") /\ capacity' = Head(fields).size /\ table' = Evicted(table, capacity')
    <3> DEFINE size == Head(fields).size
    <3>1. size \in Nat
      BY <2>3, SizeIs
    <3>2. capacity' = size /\ table' = Evicted(table, size)
      BY <2>3
    <3> HIDE DEF size
    <3> QED
      BY <2>1, <3>1, <3>2, EvictedFits
  <2> QED
    BY <2>2, <2>3 DEF AssertionFails
<1>3. <<>> \in Seq(ParsedField) /\ <<>> \in Seq(Header)
  OBVIOUS
<1>4. Types'
  BY <1>1, <1>2, <1>3 DEF Types, States
<1>5. AtRest'
  BY <1>1 DEF AtRest
<1>6. Fits'
  BY <1>1 DEF Fits
<1>7. InStep'
  BY <1>1, StillInStep
<1> QED
  BY <1>4, <1>5, <1>6, <1>7

LEMMA ReturnKeeps ==
    ASSUME HpackIInv, Return
    PROVE  HpackIInv'
<1> USE DEF HpackIInv
<1>1. /\ pc = "process" /\ fields = <<>> /\ pc' = "idle"
      /\ block' = <<>> /\ received' = 0 /\ parsed' = <<>> /\ headers' = <<>>
      /\ UNCHANGED <<data, fields, table, capacity>>
  BY DEF Return
<1>2. data = <<>>
  BY <1>1 DEF AtRest
<1>3. <<>> \in Seq(WrittenField) /\ <<>> \in Seq(ParsedField) /\ <<>> \in Seq(Header)
  OBVIOUS
<1>4. Types'
  BY <1>1, <1>3 DEF Types, States
<1>5. AtRest'
  BY <1>1, <1>2 DEF AtRest
<1>6. Fits'
  BY <1>1 DEF Fits
<1>7. InStep'
  <2>1. Len(parsed') = 0 /\ StandsAt(block', 0, received', data')
    BY <1>1, <1>2, NothingStands
  <2> QED
    BY <1>1, <2>1 DEF InStep
<1> QED
  BY <1>4, <1>5, <1>6, <1>7

(* The state of an HPACKState and of the program that uses it              *)
(* (parse_field_block and process_field_block): types, the assertions of   *)
(* __post_init__, and where in the block the parser stands.                *)
THEOREM HpackInvariance == Spec => []HpackIInv
<1>1. ASSUME HpackIInv, [Next]_vars
      PROVE  HpackIInv'
  <2>1. CASE UNCHANGED vars
    BY <1>1, <2>1 DEF vars, HpackIInv, Types, AtRest, Fits, InStep
  <2> QED
    BY <1>1, <2>1, ReceiveKeeps, ParseOneKeeps, ParseRaisesKeeps, ParseEndsKeeps, ProcessKeeps,
       AssertionFailsKeeps, ReturnKeeps DEF Next
<1> QED
  BY <1>1, HpackBegins, PTL DEF Spec

(* hpack.py:682: after every field, the table holds headers, it is no      *)
(* larger than its capacity, and this no larger than what was agreed.      *)
THEOREM HpackTypes == Spec => []HpackTypeOK
<1>1. HpackIInv => HpackTypeOK
  BY DEF HpackIInv, Types, States, Fits, HpackTypeOK
<1> QED
  BY <1>1, HpackInvariance, PTL

(* hpack.py:364-659: for every value, padding, prefix and Huffman code,    *)
(* parse_hpack_field returns the fields to_bytes wrote, in their order.    *)
THEOREM FieldsReturn == Spec => []FieldsComeBack
<1>1. HpackIInv => FieldsComeBack
  BY DEF HpackIInv, InStep, FieldsComeBack
<1> QED
  BY <1>1, HpackInvariance, PTL

(* hpack.py:662-672: parse_field_block raises an HPACKError where the      *)
(* octets end inside a field, and nowhere else.                            *)
THEOREM TornBlocksRefused == Spec => []OnlyTornBlocksAreRefused
<1>1. ASSUME HpackIInv
      PROVE  OnlyTornBlocksAreRefused
  <2> DEFINE boundaries == {Len(Written(block, n)) : n \in 0..Len(block)}
  <2> SUFFICES ASSUME \A i \in DOMAIN block : PlainField(block[i])
               PROVE  /\ pc = "HPACKError" => received \notin boundaries
                      /\ pc = "process" => received \in boundaries
    BY DEF OnlyTornBlocksAreRefused
  <2>1. /\ StandsAt(block, Len(parsed), received, data)
        /\ pc = "HPACKError" => \A n \in 0..Len(block) : received # Len(Written(block, n))
    BY <1>1 DEF HpackIInv, InStep
  <2>2. pc = "HPACKError" => received \notin boundaries
    BY <2>1
  <2>3. ASSUME pc = "process"
        PROVE  received \in boundaries
    <3>1. data = <<>> /\ block \in Seq(WrittenField)
      BY <1>1, <2>3 DEF HpackIInv, Types, AtRest
    <3>2. received = Len(Written(block, Len(parsed))) + Len(data) /\ Len(parsed) \in 0..Len(block)
      BY <2>1, <3>1, StandsAtIs DEF StandsAt
    <3>3. Written(block, Len(parsed)) \in Seq(Octet)
      BY <3>1, <3>2, WrittenIs
    <3>4. Len(Written(block, Len(parsed))) \in Nat /\ Len(data) = 0
      BY <3>1, <3>3
    <3>5. received = Len(Written(block, Len(parsed)))
      BY <3>2, <3>4
    <3> QED
      BY <3>2, <3>5
  <2> QED
    BY <2>2, <2>3
<1> QED
  BY <1>1, HpackInvariance, PTL

-----------------------------------------------------------------------------
(* One index space of the two tables.                                      *)
LEMMA IndexSpaceIs ==
    ASSUME Types, NEW i \in Nat
    PROVE  /\ IsHeader(i) <=> i \in DOMAIN Promise!IndexSpace
           /\ IsHeader(i) => GetHeader(i) = Promise!IndexSpace[i]
<1> DEFINE s == StaticTable
           t == table
           u == s \o t
<1>1. s \in Seq(Header) /\ t \in Seq(Header)
  BY HpackAssumption DEF Types
<1>2. IsHeader(i) <=> i > 0 /\ (i - 1 < Len(s) \/ i - 1 - Len(s) < Len(t))
  BY DEF IsHeader
<1>3. GetHeader(i) = IF i - 1 < Len(s) THEN s[i] ELSE t[i - Len(s)]
  BY DEF GetHeader
<1>4. Promise!IndexSpace = u
  BY DEF Promise!IndexSpace
<1> HIDE DEF s, t
<1>5. /\ u \in Seq(Header) /\ Len(u) = Len(s) + Len(t) /\ Len(s) \in Nat /\ Len(t) \in Nat
      /\ \A j \in 1..Len(s) : u[j] = s[j]
      /\ \A j \in 1..Len(t) : u[Len(s) + j] = t[j]
  BY <1>1, JoinedIs
<1>6. DOMAIN u = 1..(Len(s) + Len(t))
  BY <1>5
<1> HIDE DEF u
<1>7. IsHeader(i) <=> i \in DOMAIN u
  BY <1>2, <1>5, <1>6
<1>8. ASSUME IsHeader(i)
      PROVE  GetHeader(i) = u[i]
  <2>1. CASE i - 1 < Len(s)
    <3>1. i \in 1..Len(s)
      BY <1>2, <1>5, <1>8, <2>1
    <3> QED
      BY <1>3, <1>5, <2>1, <3>1
  <2>2. CASE ~(i - 1 < Len(s))
    <3> DEFINE j == i - Len(s)
    <3>1. j \in 1..Len(t) /\ Len(s) + j = i
      BY <1>2, <1>5, <1>8, <2>2
    <3>2. GetHeader(i) = t[j]
      BY <1>3, <2>2
    <3> HIDE DEF j
    <3> QED
      BY <1>5, <3>1, <3>2
  <2> QED
    BY <2>1, <2>2
<1> QED
  BY <1>4, <1>7, <1>8

LEMMA DecodesIndexed ==
    ASSUME HpackIInv, ProcessIndexed
    PROVE  fields # <<>> /\ Promise!DecodeField
<1> DEFINE i == Head(fields).index
<1>1. /\ fields # <<>> /\ Head(fields).kind = "indexed" /\ At("indexed") /\ IsHeader(i)
      /\ headers' = Append(headers, GetHeader(i)) /\ fields' = Tail(fields)
      /\ UNCHANGED <<table, capacity>>
  BY DEF ProcessIndexed, At, Yield
<1>2. Types /\ i \in Nat
  BY <1>1, IndexedHeader DEF HpackIInv
<1>3. i \in DOMAIN Promise!IndexSpace /\ GetHeader(i) = Promise!IndexSpace[i]
  <2> HIDE DEF i
  <2> QED
    BY <1>1, <1>2, IndexSpaceIs
<1>4. Promise!Decode(Promise!IndexSpace[i], FALSE)
  BY <1>1, <1>3 DEF Promise!Decode
<1> QED
  BY <1>1, <1>3, <1>4 DEF Promise!DecodeField

(* What an entry that may go into the table does to it.                    *)
LEMMA AddsAsPromised ==
    ASSUME Types, fields # <<>>, NEW h \in Header, Yield(h), capacity' = capacity, NEW prop,
           IF prop = "CACHED" THEN AddHeaderToDynamicTable(h) ELSE UNCHANGED table
    PROVE  Promise!Decode(h, prop = "CACHED")
<1>1. headers' = Append(headers, h) /\ fields' = Tail(fields)
  BY DEF Yield
<1>2. table \in Seq(Header) /\ capacity \in Nat
  BY DEF Types
<1>3. Evicted(<<h>> \o table, capacity) = Promise!Inserted(h)
  BY <1>2, EvictedIsInserted
<1>4. table' = IF prop = "CACHED" THEN Promise!Inserted(h) ELSE table
  BY <1>3 DEF AddHeaderToDynamicTable
<1> QED
  BY <1>1, <1>4 DEF Promise!Decode

LEMMA DecodesLiteral ==
    ASSUME HpackIInv, ProcessLiteral
    PROVE  fields # <<>> /\ Promise!DecodeField
<1> DEFINE h == <<Head(fields).key, Head(fields).val>>
           prop == Head(fields).prop
<1>1. /\ fields # <<>> /\ Head(fields).kind = "literal" /\ At("literal")
      /\ Yield(h) /\ capacity' = capacity
      /\ IF prop = "CACHED" THEN AddHeaderToDynamicTable(h) ELSE UNCHANGED table
  BY DEF ProcessLiteral, At
<1>2. Types /\ h \in Header
  BY <1>1, LiteralHeader DEF HpackIInv
<1>3. Promise!Decode(h, prop = "CACHED")
  <2> HIDE DEF h, prop
  <2> QED
    BY <1>1, <1>2, AddsAsPromised
<1> QED
  BY <1>1, <1>3 DEF Promise!DecodeField

LEMMA DecodesPartial ==
    ASSUME HpackIInv, ProcessPartial
    PROVE  fields # <<>> /\ Promise!DecodeField
<1> DEFINE i == Head(fields).index
           h == <<GetHeader(i)[1], Head(fields).val>>
           prop == Head(fields).prop
<1>1. /\ fields # <<>> /\ Head(fields).kind = "partial" /\ At("partial") /\ IsHeader(i)
      /\ Yield(h) /\ capacity' = capacity
      /\ IF prop = "CACHED" THEN AddHeaderToDynamicTable(h) ELSE UNCHANGED table
  BY DEF ProcessPartial, At
<1>2. Types /\ h \in Header /\ i \in Nat
  BY <1>1, PartialHeader DEF HpackIInv
<1>3. i \in DOMAIN Promise!IndexSpace /\ GetHeader(i) = Promise!IndexSpace[i]
  <2> HIDE DEF i
  <2> QED
    BY <1>1, <1>2, IndexSpaceIs
<1>4. Promise!Decode(h, prop = "CACHED")
  <2> HIDE DEF h, prop
  <2> QED
    BY <1>1, <1>2, AddsAsPromised
<1>5. h = <<Promise!IndexSpace[i][1], Head(fields).val>>
  BY <1>3
<1>6. Promise!Decode(<<Promise!IndexSpace[i][1], Head(fields).val>>, Head(fields).prop = "CACHED")
  BY <1>4, <1>5
<1> QED
  BY <1>1, <1>3, <1>6 DEF Promise!DecodeField

LEMMA ResizesAsPromised ==
    ASSUME HpackIInv, UpdateTableCapacity
    PROVE  fields # <<>> /\ Promise!Resize
<1> DEFINE size == Head(fields).size
<1>1. /\ fields # <<>> /\ Head(fields).kind = "resize" /\ At("resize") /\ size <= MaxCapacity
      /\ capacity' = size /\ table' = Evicted(table, size) /\ fields' = Tail(fields)
      /\ UNCHANGED headers
  BY DEF UpdateTableCapacity, At
<1>2. size \in Nat /\ table \in Seq(Header)
  BY <1>1, SizeIs DEF HpackIInv, Types
<1>3. Evicted(table, size) = Promise!Newest(table, size)
  <2> HIDE DEF size
  <2> QED
    BY <1>2, EvictedIsNewest
<1>4. table' = Promise!Newest(table, capacity')
  BY <1>1, <1>3
<1> QED
  BY <1>1, <1>4 DEF Promise!Resize

(* The assertion on a capacity that is not allowed comes after the         *)
(* eviction, which removes nothing: the table was no larger before.        *)
LEMMA RefusesAsPromised ==
    ASSUME HpackIInv, AssertionFails
    PROVE  fields # <<>> /\ Promise!Refuse
<1> DEFINE f == Head(fields)
<1>1. pc = "process" /\ fields # <<>> /\ fields' = <<>> /\ headers' = <<>>
  BY DEF AssertionFails, At
<1>2. Types /\ table \in Seq(Header) /\ capacity \in Nat
  BY DEF HpackIInv, Types
<1>3. CASE /\ At("indexed") \/ At("partial")
           /\ ~IsHeader(f.index) /\ UNCHANGED <<table, capacity>>
  <2>1. f.kind \in {"indexed", "partial"}
    BY <1>3 DEF At
  <2>2. f.index \in Nat
    <3>1. f \in ParsedField
      BY <1>1, <1>2, HeadIs
    <3> HIDE DEF f
    <3> QED
      BY <2>1, <3>1, ParsedFieldIs
  <2>3. f.index \notin DOMAIN Promise!IndexSpace
    <3> DEFINE i == f.index
    <3>1. i \in Nat /\ ~IsHeader(i)
      BY <1>3, <2>2
    <3> HIDE DEF i
    <3>2. i \notin DOMAIN Promise!IndexSpace
      BY <1>2, <3>1, IndexSpaceIs
    <3> QED
      BY <3>2 DEF i
  <2>4. table' = table /\ capacity' \in Nat
    BY <1>2, <1>3
  <2> QED
    BY <1>1, <2>1, <2>3, <2>4 DEF Promise!Refuse
<1>4. CASE /\ At("resize") /\ f.size > MaxCapacity
           /\ capacity' = f.size /\ table' = Evicted(table, capacity')
  <2> DEFINE size == f.size
  <2>1. size \in Nat /\ f.kind = "resize" /\ size > MaxCapacity
    BY <1>2, <1>4, SizeIs DEF At
  <2>2. capacity' = size /\ table' = Evicted(table, size)
    BY <1>4
  <2>3. TableSize(table) <= size
    <3>1. TableSize(table) <= capacity /\ capacity <= MaxCapacity
      BY <1>1 DEF HpackIInv, Fits
    <3>2. TableSize(table) \in Nat
      BY <1>2, SizeOfIs
    <3>3. MaxCapacity \in Nat
      BY HpackAssumption
    <3> HIDE DEF size
    <3> QED
      BY <1>2, <2>1, <3>1, <3>2, <3>3
  <2>4. table' = table
    <3> HIDE DEF size
    <3> QED
      BY <1>2, <2>1, <2>2, <2>3, EvictedFits
  <2> QED
    BY <1>1, <2>1, <2>2, <2>4 DEF Promise!Refuse
<1> QED
  BY <1>3, <1>4 DEF AssertionFails

(* The decoder keeps its promise: the headers of a block and the dynamic   *)
(* table are those HpackPromise describes, although the code evicts after  *)
(* it has added and looks into two tables one after the other.             *)
THEOREM HpackKeepsThePromise == Spec => Implements
<1>1. Init => Promise!PInit
  BY DEF Init, Promise!PInit
<1>2. ASSUME HpackIInv, [Next]_vars
      PROVE  [Promise!PNext]_Promise!pvars
  <2>1. CASE UNCHANGED vars \/ Receive \/ ParseOne \/ ParseRaises
    <3>1. UNCHANGED <<fields, headers, table, capacity>>
      BY <2>1 DEF vars, Receive, ParseOne, ParseRaises
    <3> QED
      BY <3>1 DEF Promise!pvars
  <2>2. CASE ParseEnds
    <3>1. fields = <<>> /\ headers = <<>> /\ UNCHANGED <<headers, table, capacity>>
      BY <1>2, <2>2 DEF ParseEnds, HpackIInv, AtRest
    <3>2. Promise!Begin
      BY <3>1 DEF Promise!Begin
    <3> QED
      BY <3>2 DEF Promise!PNext
  <2>3. CASE Return
    <3>1. Promise!Deliver
      BY <2>3 DEF Return, Promise!Deliver
    <3> QED
      BY <3>1 DEF Promise!PNext
  <2>4. CASE ProcessIndexed \/ ProcessLiteral \/ ProcessPartial
    <3>1. fields # <<>> /\ Promise!DecodeField
      BY <1>2, <2>4, DecodesIndexed, DecodesLiteral, DecodesPartial
    <3> QED
      BY <3>1 DEF Promise!PNext
  <2>5. CASE UpdateTableCapacity
    <3>1. fields # <<>> /\ Promise!Resize
      BY <1>2, <2>5, ResizesAsPromised
    <3> QED
      BY <3>1 DEF Promise!PNext
  <2>6. CASE AssertionFails
    <3>1. fields # <<>> /\ Promise!Refuse
      BY <1>2, <2>6, RefusesAsPromised
    <3> QED
      BY <3>1 DEF Promise!PNext
  <2> QED
    BY <1>2, <2>1, <2>2, <2>3, <2>4, <2>5, <2>6 DEF Next, Process
<1> QED
  BY <1>1, <1>2, HpackInvariance, PTL DEF Spec, Implements, Promise!HpackPromiseSpec
=============================================================================
