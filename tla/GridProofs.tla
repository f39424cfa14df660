----------------------------- MODULE GridProofs -----------------------------
(***************************************************************************)
(* The verdict on two servers' answers, for any answers and any quirks,    *)
(* and what follows for the grid and the clusters.                         *)
(***************************************************************************)
EXTENDS Grid, InductionLemmas, FiniteSetTheorems, SequenceTheorems

(* HTTPRequest.__eq__ is symmetric once each side is normalized with       *)
(* respect to the other (diff.py:29: "This ends up being symmetric since   *)
(* this function runs twice").                                             *)
LEMMA SameRequestSymmetric ==
    ASSUME NEW r1, NEW r2, NEW s1, NEW s2
    PROVE  SameRequest(r1, r2, s1, s2) <=> SameRequest(r2, r1, s2, s1)
BY Zenon DEF SameRequest

(* Every excuse is tried both ways round, the one for HTTP/0.9 with the    *)
(* quirk of the second server only.                                        *)
LEMMA ExcusedSymmetric ==
    ASSUME NEW r1, NEW r2, NEW s1, NEW s2, s1.allows09 = s2.allows09
    PROVE  Excused(r1, r2, s1, s2) <=> Excused(r2, r1, s2, s1)
<1>1. ExcusedByVersion(r1, r2, s1, s2) <=> ExcusedByVersion(r2, r1, s2, s1)
  BY DEF ExcusedByVersion
<1> QED  BY <1>1, Zenon DEF Excused

(* One step of categorize_discrepancy decides the same with its arguments  *)
(* swapped.                                                                *)
LEMMA PairVerdictSymmetric ==
    ASSUME NEW r1, NEW r2, NEW s1, NEW s2, s1.allows09 = s2.allows09
    PROVE  PairVerdict(r1, r2, s1, s2) = PairVerdict(r2, r1, s2, s1)
<1>1. SameRequest(r1, r2, s1, s2) <=> SameRequest(r2, r1, s2, s1)
  BY SameRequestSymmetric, Zenon
<1>2. Excused(r1, r2, s1, s2) <=> Excused(r2, r1, s2, s1)
  BY ExcusedSymmetric
<1>3. RejectedByOneOnly(r1, r2) <=> RejectedByOneOnly(r2, r1)
  BY DEF RejectedByOneOnly
<1>4. /\ (r1 = None) # (r2 = None) <=> (r2 = None) # (r1 = None)
      /\ IsRequest(r1) # IsRequest(r2) <=> IsRequest(r2) # IsRequest(r1)
      /\ r1.code # r2.code <=> r2.code # r1.code
  BY DEF IsRequest
<1> QED  BY <1>1, <1>2, <1>3, <1>4, Zenon DEF PairVerdict

LEMMA DecisiveSymmetric ==
    ASSUME NEW p1, NEW p2, NEW s1, NEW s2, s1.allows09 = s2.allows09
    PROVE  Decisive(p1, p2, s1, s2) = Decisive(p2, p1, s2, s1)
<1>1. \A i : PairVerdict(At(p1, i), At(p2, i), s1, s2) = PairVerdict(At(p2, i), At(p1, i), s2, s1)
  BY PairVerdictSymmetric
<1> QED  BY <1>1 DEF Decisive

(* categorize_discrepancy gives two servers the same verdict whichever is  *)
(* named first, provided both allow HTTP/0.9 or neither does.              *)
THEOREM VerdictsAreSymmetric ==
    ASSUME NEW pts1, NEW pts2, NEW s1, NEW s2
    PROVE  SymmetricVerdict(pts1, pts2, s1, s2)
<1> SUFFICES ASSUME s1.allows09 = s2.allows09
             PROVE  CategorizeDiscrepancy(pts1, pts2, s1, s2)
                      = CategorizeDiscrepancy(pts2, pts1, s2, s1)
  BY DEF SymmetricVerdict
<1> DEFINE p1 == Compared(pts1, s1, s2)
           p2 == Compared(pts2, s1, s2)
           d == Decisive(p1, p2, s1, s2)
<1>1. p1 = Compared(pts1, s2, s1) /\ p2 = Compared(pts2, s2, s1)
  BY Zenon DEF Compared
<1>2. Decisive(p2, p1, s2, s1) = d
  BY DecisiveSymmetric
<1>3. PairVerdict(At(p1, Min(d)), At(p2, Min(d)), s1, s2)
        = PairVerdict(At(p2, Min(d)), At(p1, Min(d)), s2, s1)
  BY PairVerdictSymmetric
<1>4. Decision(p1, p2, s1, s2) = Decision(p2, p1, s2, s1)
  <2> HIDE DEF p1, p2
  <2> QED  BY <1>2, <1>3, Zenon DEF Decision
<1> QED  BY <1>1, <1>4, Zenon DEF CategorizeDiscrepancy

-----------------------------------------------------------------------------
(* Sorting the values of a name: Rank is a permutation of their places, so *)
(* the values are the same and as many.                                    *)

Value == Seq(Int)

LEMMA BeforeTransitive ==
    ASSUME NEW u \in Value, NEW v \in Value, NEW w \in Value, Before(u, v), Before(v, w)
    PROVE  Before(u, w)
<1>1. /\ Len(u) \in Nat /\ Len(v) \in Nat /\ Len(w) \in Nat
      /\ \A l \in 1 .. Len(u) : u[l] \in Int
      /\ \A l \in 1 .. Len(v) : v[l] \in Int
      /\ \A l \in 1 .. Len(w) : w[l] \in Int
  BY DEF Value
<1>2. PICK k \in 1 .. Len(v) : /\ k <= Len(u) + 1 /\ \A l \in 1 .. k - 1 : u[l] = v[l]
                               /\ k = Len(u) + 1 \/ u[k] < v[k]
  BY DEF Before
<1>3. PICK h \in 1 .. Len(w) : /\ h <= Len(v) + 1 /\ \A l \in 1 .. h - 1 : v[l] = w[l]
                               /\ h = Len(v) + 1 \/ v[h] < w[h]
  BY DEF Before
<1>4. CASE k < h
  <2>1. /\ k \in 1 .. Len(w) /\ k <= Len(u) + 1 /\ v[k] = w[k]
        /\ \A l \in 1 .. k - 1 : u[l] = w[l]
    BY <1>1, <1>2, <1>3, <1>4
  <2> QED
    BY <1>2, <2>1 DEF Before
<1>5. CASE k = h
  <2>1. v[k] < w[k] /\ \A l \in 1 .. k - 1 : u[l] = w[l]
    BY <1>1, <1>2, <1>3, <1>5
  <2>2. k = Len(u) + 1 \/ u[k] < w[k]
    BY <1>1, <1>2, <1>3, <1>5, <2>1
  <2> QED
    BY <1>2, <1>3, <1>5, <2>1, <2>2 DEF Before
<1>6. CASE h < k
  <2>1. /\ h <= Len(u) + 1 /\ u[h] = v[h] /\ v[h] < w[h]
        /\ \A l \in 1 .. h - 1 : u[l] = w[l]
    BY <1>1, <1>2, <1>3, <1>6
  <2> QED
    BY <1>3, <2>1 DEF Before
<1> QED
  BY <1>1, <1>4, <1>5, <1>6

LEMMA BeforeTotal ==
    ASSUME NEW v \in Value, NEW w \in Value
    PROVE  v = w \/ Before(v, w) \/ Before(w, v)
<1> DEFINE D == {k \in Nat \ {0} : k <= Len(v) /\ k <= Len(w) /\ v[k] # w[k]}
<1>1. /\ Len(v) \in Nat /\ Len(w) \in Nat
      /\ \A l \in 1 .. Len(v) : v[l] \in Int
      /\ \A l \in 1 .. Len(w) : w[l] \in Int
  BY DEF Value
<1>2. CASE D = {}
  <2>1. \A l \in Nat \ {0} : l <= Len(v) /\ l <= Len(w) => v[l] = w[l]
    BY <1>2
  <2>2. CASE Len(v) = Len(w)
    BY <2>1, <2>2, SeqEqual DEF Value
  <2>3. CASE Len(v) < Len(w)
    <3>1. /\ Len(v) + 1 \in 1 .. Len(w) /\ Len(v) + 1 <= Len(v) + 1
          /\ \A l \in 1 .. Len(v) + 1 - 1 : v[l] = w[l]
      BY <1>1, <2>1, <2>3
    <3> QED
      BY <3>1 DEF Before
  <2>4. CASE Len(w) < Len(v)
    <3>1. /\ Len(w) + 1 \in 1 .. Len(v) /\ Len(w) + 1 <= Len(w) + 1
          /\ \A l \in 1 .. Len(w) + 1 - 1 : w[l] = v[l]
      BY <1>1, <2>1, <2>4
    <3> QED
      BY <3>1 DEF Before
  <2> QED
    BY <1>1, <2>2, <2>3, <2>4
<1>3. CASE D # {}
  <2>1. PICK k \in D : \A y \in D : k <= y
    <3> D \subseteq Nat
      OBVIOUS
    <3> HIDE DEF D
    <3> QED
      BY <1>3, LeastElement
  <2>2. /\ k \in 1 .. Len(v) /\ k \in 1 .. Len(w) /\ v[k] # w[k]
        /\ k <= Len(v) + 1 /\ k <= Len(w) + 1
    BY <1>1
  <2>3. \A l \in 1 .. k - 1 : v[l] = w[l]
    BY <1>1, <2>1, <2>2
  <2>4. v[k] < w[k] \/ w[k] < v[k]
    BY <1>1, <2>2
  <2> QED
    BY <2>2, <2>3, <2>4 DEF Before
<1> QED
  BY <1>2, <1>3

LEMMA BeforeStrict ==
    ASSUME NEW v \in Value PROVE ~Before(v, v)
<1>1. Len(v) \in Nat /\ \A l \in 1 .. Len(v) : v[l] \in Int
  BY DEF Value
<1> QED
  BY <1>1 DEF Before

LEMMA NoLaterOrders ==
    ASSUME NEW values \in Seq(Value)
    PROVE  \A i, j, k \in DOMAIN values :
               /\ NoLater(values, i, i)
               /\ NoLater(values, i, j) \/ NoLater(values, j, i)
               /\ NoLater(values, i, j) /\ NoLater(values, j, i) => i = j
               /\ NoLater(values, i, j) /\ NoLater(values, j, k) => NoLater(values, i, k)
<1>1. \A i \in DOMAIN values : values[i] \in Value /\ i \in Int
  OBVIOUS
<1>2. \A u, v, w \in Value : Before(u, v) /\ Before(v, w) => Before(u, w)
  BY BeforeTransitive
<1>3. \A v, w \in Value : v = w \/ Before(v, w) \/ Before(w, v)
  BY BeforeTotal
<1>4. \A v \in Value : ~Before(v, v)
  BY BeforeStrict
<1> HIDE DEF Value
<1> QED
  BY <1>1, <1>2, <1>3, <1>4 DEF NoLater

LEMMA RankPermutes ==
    ASSUME NEW values \in Seq(Value)
    PROVE  /\ \A i \in DOMAIN values : Rank(values, i) \in DOMAIN values
           /\ \A i, j \in DOMAIN values : Rank(values, i) = Rank(values, j) => i = j
           /\ \A k \in DOMAIN values : \E i \in DOMAIN values : Rank(values, i) = k
<1> DEFINE n == Len(values)
           R == {p \in (1..n) \X (1..n) : NoLater(values, p[1], p[2])}
           r == [i \in 1..n |-> Rank(values, i)]
<1>1. DOMAIN values = 1..n /\ n \in Nat
  OBVIOUS
<1>2. \A i, j \in 1..n : <<i, j>> \in R <=> NoLater(values, i, j)
  OBVIOUS
<1>3. Orders(R, n)
  <2> HIDE DEF R, n
  <2> QED
    BY <1>1, <1>2, NoLaterOrders DEF Orders
<1>4. Ranks(R, n, r)
  <2>1. \A i \in 1..n : {j \in 1..n : <<j, i>> \in R} = {j \in DOMAIN values : NoLater(values, j, i)}
    BY <1>1, <1>2
  <2> HIDE DEF R
  <2> QED
    BY <2>1 DEF Ranks, Rank
<1>5. Permutes(r, n)
  <2> HIDE DEF R, n, r
  <2> QED
    BY <1>1, <1>3, <1>4, RanksPermute
<1>6. \A i \in 1..n : r[i] = Rank(values, i)
  OBVIOUS
<1>7. /\ \A i \in 1..n : Rank(values, i) \in 1..n
      /\ \A i, j \in 1..n : Rank(values, i) = Rank(values, j) => i = j
      /\ \A k \in 1..n : \E i \in 1..n : Rank(values, i) = k
  <2> HIDE DEF r, R, n
  <2> QED
    BY <1>5, <1>6, Zenon DEF Permutes
<1> HIDE DEF r, R, n
<1> QED
  BY <1>1, <1>7, Zenon

LEMMA SortedPermutes ==
    ASSUME NEW values \in Seq(Value)
    PROVE  /\ Sorted(values) \in Seq(Value) /\ Len(Sorted(values)) = Len(values)
           /\ ToBag(Sorted(values)) = ToBag(values)
<1> DEFINE D == DOMAIN values
           place == [k \in D |-> CHOOSE i \in D : Rank(values, i) = k]
           t == Sorted(values)
<1>1. D = 1..Len(values) /\ Len(values) \in Nat /\ IsFiniteSet(D)
  BY FS_Interval
<1>2. \A k \in D : place[k] \in D /\ Rank(values, place[k]) = k
  BY RankPermutes
<1>3. \A i \in D : Rank(values, i) \in D /\ place[Rank(values, i)] = i
  BY <1>2, RankPermutes
<1>4. t = [k \in D |-> values[place[k]]]
  BY DEF Sorted
<1>5. t \in Seq(Value) /\ Len(t) = Len(values) /\ DOMAIN t = D
  <2>1. \A k \in D : values[place[k]] \in Value
    BY <1>2
  <2> QED
    BY <1>1, <1>4, <2>1
<1> HIDE DEF place, t
<1>6. Range(t) = Range(values)
  BY <1>2, <1>3, <1>4 DEF Range
<1>7. ASSUME NEW x
      PROVE  Cardinality({k \in D : t[k] = x}) = Cardinality({i \in D : values[i] = x})
  <2> DEFINE A == {k \in D : t[k] = x}
             B == {i \in D : values[i] = x}
             f == [k \in A |-> place[k]]
  <2>1. f \in Bijection(A, B)
    <3>1. f \in [A -> B]
      BY <1>2, <1>4
    <3>2. \A a, b \in A : f[a] = f[b] => a = b
      BY <1>2
    <3>3. \A b \in B : \E a \in A : f[a] = b
      <4> SUFFICES ASSUME NEW b \in B PROVE \E a \in A : f[a] = b
        OBVIOUS
      <4>1. Rank(values, b) \in A /\ f[Rank(values, b)] = b
        BY <1>3, <1>4
      <4> QED
        BY <4>1
    <3> QED
      BY <3>1, <3>2, <3>3 DEF Bijection, Injection, Surjection, IsInjective
  <2>2. IsFiniteSet(A)
    <3>1. A \in SUBSET D
      OBVIOUS
    <3> HIDE DEF A, D
    <3> QED
      BY <1>1, <3>1, FS_Subset
  <2> HIDE DEF A, B, f
  <2> QED
    BY <2>1, <2>2, FS_Bijection DEF ExistsBijection, A, B
<1>8. ToBag(t) = ToBag(values)
  BY <1>5, <1>6, <1>7, Zenon DEF ToBag
<1> QED
  BY <1>5, <1>8 DEF t

(* An answer r that is q but for the order of its headers' values: all a   *)
(* verdict reads when no server joins duplicates.                          *)
SameValues(h, k) ==
    \A n \in Names : ToBag(h[n]) = ToBag(k[n]) /\ (h[n] = <<>> <=> k[n] = <<>>)

Alike(r, q) ==
    /\ r.kind = q.kind
    /\ ~IsRequest(q) => r = q
    /\ IsRequest(q) =>
          /\ r.valid = q.valid /\ r.method = q.method /\ r.version = q.version
          /\ r.content = q.content /\ SameValues(r.headers, q.headers)

AlikeLists(p, q) ==
    /\ DOMAIN p = DOMAIN q /\ Len(p) = Len(q)
    /\ \A k \in DOMAIN q : Alike(p[k], q[k])

LEMMA AlikeTransitive ==
    ASSUME NEW r, NEW q, NEW s, Alike(r, q), Alike(q, s)
    PROVE  Alike(r, s)
BY DEF Alike, IsRequest, SameValues

LEMMA AlikeReflexive == \A r : Alike(r, r)
BY DEF Alike, SameValues

(* Sorting the headers of a request leaves one like it. *)
LEMMA SortedRequestAlike ==
    ASSUME NEW r \in Requests
    PROVE  SortedRequest(r) \in Requests /\ Alike(SortedRequest(r), r)
<1> DEFINE q == SortedRequest(r)
<1>1. \A n \in Names : r.headers[n] \in Seq(Value)
  BY DEF Requests, Value
<1>2. r.headers \in [Names -> Seq(Value)] /\ DOMAIN r.headers = Names
  BY DEF Requests, Value
<1>3. /\ q.headers = [n \in Names |-> Sorted(r.headers[n])]
      /\ q = [r EXCEPT !.headers = q.headers]
      /\ q.kind = r.kind /\ q.valid = r.valid /\ q.method = r.method
      /\ q.version = r.version /\ q.content = r.content
  BY <1>2 DEF SortedRequest, Requests
<1>4. \A n \in Names : /\ q.headers[n] \in Seq(Value) /\ Len(q.headers[n]) = Len(r.headers[n])
                       /\ ToBag(q.headers[n]) = ToBag(r.headers[n])
  BY <1>1, <1>3, SortedPermutes
<1>5. \A n \in Names : q.headers[n] = <<>> <=> r.headers[n] = <<>>
  BY <1>1, <1>4
<1>6. q.headers \in [Names -> Seq(Value)]
  BY <1>3, <1>4
<1> HIDE DEF q
<1>7. q \in Requests
  BY <1>3, <1>6 DEF Requests, Value
<1>8. SameValues(q.headers, r.headers)
  BY <1>4, <1>5, Zenon DEF SameValues
<1>9. Alike(q, r)
  BY <1>3, <1>8 DEF Alike, IsRequest, Requests
<1> QED
  BY <1>7, <1>9 DEF q

(* The headers compared depend on their values, not on their order.        *)
LEMMA NormalizedHeadersAlike ==
    ASSUME NEW h, NEW k, NEW s1, NEW s2, ~s2.joins, SameValues(h, k)
    PROVE  NormalizedHeaders(h, s1, s2) = NormalizedHeaders(k, s1, s2)
<1> DEFINE joined(f) == [n \in Names |-> IF s2.joins THEN Joined(f[n], s2.joiner) ELSE f[n]]
           kept(f) == [n \in Names |-> IF n \in Ignored(s1, s2) THEN <<>> ELSE joined(f)[n]]
           bags(f) == [n \in Names |-> ToBag(kept(f)[n])]
<1>1. \A n \in Names : ToBag(kept(h)[n]) = ToBag(kept(k)[n])
  <2> SUFFICES ASSUME NEW n \in Names PROVE ToBag(kept(h)[n]) = ToBag(kept(k)[n])
    OBVIOUS
  <2>1. kept(h)[n] = (IF n \in Ignored(s1, s2) THEN <<>> ELSE h[n])
    BY Zenon
  <2>2. kept(k)[n] = (IF n \in Ignored(s1, s2) THEN <<>> ELSE k[n])
    BY Zenon
  <2> HIDE DEF kept
  <2> QED
    BY <2>1, <2>2, Zenon DEF SameValues
<1>2. bags(h) = bags(k)
  <2> HIDE DEF kept
  <2> QED
    BY <1>1, Zenon
<1>3. NormalizedHeaders(h, s1, s2) = Together(bags(h), s2)
  BY Zenon DEF NormalizedHeaders
<1>4. NormalizedHeaders(k, s1, s2) = Together(bags(k), s2)
  BY Zenon DEF NormalizedHeaders
<1> HIDE DEF bags
<1> QED
  BY <1>2, <1>3, <1>4, Zenon

LEMMA SameRequestAlike ==
    ASSUME NEW r1, NEW r2, NEW q1, NEW q2, NEW s1, NEW s2, ~s1.joins, ~s2.joins,
           IsRequest(q1), IsRequest(q2), Alike(r1, q1), Alike(r2, q2)
    PROVE  SameRequest(r1, r2, s1, s2) <=> SameRequest(q1, q2, s1, s2)
<1>1. NormalizedHeaders(r1.headers, s1, s2) = NormalizedHeaders(q1.headers, s1, s2)
  <2> SameValues(r1.headers, q1.headers)
    BY DEF Alike
  <2> QED
    BY NormalizedHeadersAlike
<1>2. NormalizedHeaders(r2.headers, s2, s1) = NormalizedHeaders(q2.headers, s2, s1)
  <2> SameValues(r2.headers, q2.headers)
    BY DEF Alike
  <2> QED
    BY NormalizedHeadersAlike
<1> QED
  BY <1>1, <1>2 DEF Alike, SameRequest

LEMMA ExcusedAlike ==
    ASSUME NEW r1, NEW r2, NEW q1, NEW q2, NEW s1, NEW s2,
           Alike(r1, q1), Alike(r2, q2)
    PROVE  Excused(r1, r2, s1, s2) <=> Excused(q1, q2, s1, s2)
<1>0. "host" \in Names
  BY DiffAssumption DEF DiffAssumption
<1>1. ASSUME NEW ra, NEW rb, NEW qa, NEW qb, NEW sa, NEW sb, Alike(ra, qa), Alike(rb, qb)
      PROVE  /\ LengthRequired(ra, rb, sa, sb) <=> LengthRequired(qa, qb, sa, sb)
             /\ HostRequired(ra, rb, sa, sb) <=> HostRequired(qa, qb, sa, sb)
             /\ MethodRefused(ra, rb, sa) <=> MethodRefused(qa, qb, sa)
             /\ ExcusedByVersion(ra, rb, sa, sb) <=> ExcusedByVersion(qa, qb, sa, sb)
  <2>1. LengthRequired(ra, rb, sa, sb) <=> LengthRequired(qa, qb, sa, sb)
    BY <1>1 DEF Alike, LengthRequired, IsRequest, IsResponse
  <2>2. HostRequired(ra, rb, sa, sb) <=> HostRequired(qa, qb, sa, sb)
    <3>1. ra = None <=> qa = None
      BY <1>1 DEF Alike, None, IsRequest
    <3>2. IsResponse(ra) /\ ra.code = 400 <=> IsResponse(qa) /\ qa.code = 400
      BY <1>1 DEF Alike, IsRequest, IsResponse
    <3>3. IsRequest(rb) /\ rb.headers["host"] = <<>> <=> IsRequest(qb) /\ qb.headers["host"] = <<>>
      BY <1>0, <1>1 DEF Alike, SameValues, IsRequest
    <3> QED
      BY <3>1, <3>2, <3>3 DEF HostRequired
  <2>3. MethodRefused(ra, rb, sa) <=> MethodRefused(qa, qb, sa)
    BY <1>1 DEF Alike, MethodRefused, IsRequest, IsResponse
  <2>4. ExcusedByVersion(ra, rb, sa, sb) <=> ExcusedByVersion(qa, qb, sa, sb)
    BY <1>1 DEF Alike, ExcusedByVersion, IsRequest, IsResponse
  <2> QED
    BY <2>1, <2>2, <2>3, <2>4
<1> QED
  BY <1>1 DEF Excused

LEMMA PairVerdictAlike ==
    ASSUME NEW r1, NEW r2, NEW q1, NEW q2, NEW s1, NEW s2, ~s1.joins, ~s2.joins,
           Alike(r1, q1), Alike(r2, q2)
    PROVE  PairVerdict(r1, r2, s1, s2) = PairVerdict(q1, q2, s1, s2)
<1>1. ASSUME NEW r, NEW q, Alike(r, q)
      PROVE  /\ IsRequest(r) <=> IsRequest(q)
             /\ IsResponse(r) <=> IsResponse(q)
             /\ r = None <=> q = None
             /\ Invalid(r) <=> Invalid(q)
             /\ IsResponse(q) => r = q
  BY <1>1 DEF Alike, None, IsRequest, IsResponse, Invalid
<1>2. RejectedByOneOnly(r1, r2) <=> RejectedByOneOnly(q1, q2)
  BY <1>1 DEF RejectedByOneOnly
<1>3. (r1 = None) # (r2 = None) <=> (q1 = None) # (q2 = None)
  BY <1>1
<1>4. IsRequest(r1) # IsRequest(r2) <=> IsRequest(q1) # IsRequest(q2)
  BY <1>1 DEF IsRequest
<1>5. Excused(r1, r2, s1, s2) <=> Excused(q1, q2, s1, s2)
  BY ExcusedAlike
<1>6. IsResponse(r1) /\ IsResponse(r2) /\ r1.code # r2.code
        <=> IsResponse(q1) /\ IsResponse(q2) /\ q1.code # q2.code
  BY <1>1
<1>7. IsRequest(r1) /\ IsRequest(r2) /\ ~SameRequest(r1, r2, s1, s2)
        <=> IsRequest(q1) /\ IsRequest(q2) /\ ~SameRequest(q1, q2, s1, s2)
  BY <1>1, SameRequestAlike
<1>8. Invalid(r1) \/ Invalid(r2) <=> Invalid(q1) \/ Invalid(q2)
  BY <1>1
<1> QED
  BY <1>2, <1>3, <1>4, <1>5, <1>6, <1>7, <1>8, Zenon DEF PairVerdict

(* Lists that are alike are given the same verdict. *)
LEMMA VerdictAlike ==
    ASSUME NEW p1, NEW p2, NEW q1, NEW q2, NEW s1, NEW s2, ~s1.joins, ~s2.joins,
           AlikeLists(p1, q1), AlikeLists(p2, q2),
           NEW S, p1 \in Seq(S), p2 \in Seq(S), q1 \in Seq(S), q2 \in Seq(S)
    PROVE  CategorizeDiscrepancy(p1, p2, s1, s2) = CategorizeDiscrepancy(q1, q2, s1, s2)
<1>1. ASSUME NEW p \in Seq(S), NEW q \in Seq(S), AlikeLists(p, q)
      PROVE  LET cp == Compared(p, s1, s2)
                 cq == Compared(q, s1, s2)
             IN  DOMAIN cp = DOMAIN cq /\ \A i : Alike(At(cp, i), At(cq, i))
  <2>1. p # <<>> <=> q # <<>>
    BY <1>1 DEF AlikeLists
  <2>2. CASE Compared(p, s1, s2) = p /\ Compared(q, s1, s2) = q
    BY <1>1, <2>2, AlikeReflexive DEF AlikeLists, At
  <2>3. CASE q # <<>> /\ Compared(p, s1, s2) = <<p[1]>> /\ Compared(q, s1, s2) = <<q[1]>>
    <3>1. 1 \in DOMAIN q
      BY <2>3
    <3>2. Alike(p[1], q[1])
      BY <1>1, <3>1, Zenon DEF AlikeLists
    <3> QED
      BY <2>3, <3>2, AlikeReflexive DEF At
  <2> QED
    BY <2>1, <2>2, <2>3 DEF Compared
<1> DEFINE cp1 == Compared(p1, s1, s2)
           cp2 == Compared(p2, s1, s2)
           cq1 == Compared(q1, s1, s2)
           cq2 == Compared(q2, s1, s2)
<1>2. DOMAIN cp1 = DOMAIN cq1 /\ \A i : Alike(At(cp1, i), At(cq1, i))
  BY <1>1
<1>3. DOMAIN cp2 = DOMAIN cq2 /\ \A i : Alike(At(cp2, i), At(cq2, i))
  BY <1>1
<1> HIDE DEF cp1, cp2, cq1, cq2
<1>4. \A i : PairVerdict(At(cp1, i), At(cp2, i), s1, s2) = PairVerdict(At(cq1, i), At(cq2, i), s1, s2)
  BY <1>2, <1>3, PairVerdictAlike
<1>5. Decisive(cp1, cp2, s1, s2) = Decisive(cq1, cq2, s1, s2)
  BY <1>2, <1>3, <1>4, Zenon DEF Decisive
<1>6. Decision(cp1, cp2, s1, s2) = Decision(cq1, cq2, s1, s2)
  BY <1>4, <1>5, Zenon DEF Decision
<1> QED
  BY <1>6 DEF CategorizeDiscrepancy, cp1, cp2, cq1, cq2

-----------------------------------------------------------------------------
(* What a verdict is and where it comes from. *)

LEMMA ComparedIsASequence ==
    ASSUME NEW S, NEW p \in Seq(S), NEW s1, NEW s2
    PROVE  /\ Compared(p, s1, s2) \in Seq(S)
           /\ \A i \in DOMAIN Compared(p, s1, s2) :
                  i \in DOMAIN p /\ Compared(p, s1, s2)[i] = p[i]
<1>1. CASE Compared(p, s1, s2) = p
  BY <1>1
<1>2. CASE p # <<>> /\ Compared(p, s1, s2) = <<p[1]>>
  <2>1. 1 \in DOMAIN p /\ p[1] \in S
    BY <1>2
  <2> QED
    BY <1>2, <2>1
<1> QED
  BY <1>1, <1>2 DEF Compared

(* A verdict other than OK is that of a pair that decides.                 *)
LEMMA VerdictOfAPair ==
    ASSUME NEW S, NEW p1 \in Seq(S), NEW p2 \in Seq(S), NEW s1, NEW s2,
           CategorizeDiscrepancy(p1, p2, s1, s2) # "OK"
    PROVE  LET cp1 == Compared(p1, s1, s2)
               cp2 == Compared(p2, s1, s2)
               i == Min(Decisive(cp1, cp2, s1, s2))
               v == PairVerdict(At(cp1, i), At(cp2, i), s1, s2)
           IN  /\ CategorizeDiscrepancy(p1, p2, s1, s2) = v
               /\ v # "next" /\ v # "stop"
<1> DEFINE cp1 == Compared(p1, s1, s2)
           cp2 == Compared(p2, s1, s2)
           d == Decisive(cp1, cp2, s1, s2)
           v == PairVerdict(At(cp1, Min(d)), At(cp2, Min(d)), s1, s2)
<1>1. cp1 \in Seq(S) /\ cp2 \in Seq(S)
  BY ComparedIsASequence
<1>2. DOMAIN cp1 \subseteq Nat /\ DOMAIN cp2 \subseteq Nat
  <2> HIDE DEF cp1, cp2
  <2> QED
    BY <1>1
<1>3. CategorizeDiscrepancy(p1, p2, s1, s2) = IF d = {} \/ v = "stop" THEN "OK" ELSE v
  BY Zenon DEF CategorizeDiscrepancy, Decision
<1>4. d # {} /\ v # "stop" /\ CategorizeDiscrepancy(p1, p2, s1, s2) = v
  <2> HIDE DEF d, v
  <2> QED
    BY <1>3
<1>5. d \subseteq Nat
  <2> HIDE DEF cp1, cp2
  <2> QED
    BY <1>2 DEF Decisive
<1>6. Min(d) \in d
  <2> HIDE DEF d
  <2>1. \E x \in d : \A y \in d : x <= y
    BY <1>4, <1>5, LeastElement
  <2> QED
    BY <2>1, Zenon DEF Min
<1>7. v # "next"
  BY <1>6, Zenon DEF Decisive
<1> QED
  BY <1>4, <1>7, Zenon

LEMMA VerdictType ==
    ASSUME NEW S, NEW p1 \in Seq(S), NEW p2 \in Seq(S), NEW s1, NEW s2
    PROVE  CategorizeDiscrepancy(p1, p2, s1, s2) \in ErrorTypes
<1>1. CASE CategorizeDiscrepancy(p1, p2, s1, s2) = "OK"
  BY <1>1 DEF ErrorTypes
<1>2. CASE CategorizeDiscrepancy(p1, p2, s1, s2) # "OK"
  <2>1. \A r1, r2 : PairVerdict(r1, r2, s1, s2) \in ErrorTypes \cup {"stop", "next"}
    BY DEF PairVerdict, ErrorTypes
  <2> HIDE DEF ErrorTypes
  <2>2. PICK v : /\ CategorizeDiscrepancy(p1, p2, s1, s2) = v
                 /\ v # "next" /\ v # "stop" /\ v \in ErrorTypes \cup {"stop", "next"}
    BY <1>2, <2>1, VerdictOfAPair
  <2> QED
    BY <2>2
<1> QED
  BY <1>1, <1>2

(* Equal answers, all of them valid, from servers with the same quirks.    *)
LEMMA VerdictReflexive ==
    ASSUME NEW S, NEW p \in Seq(S), NEW s, \A i \in DOMAIN p : ~Invalid(p[i])
    PROVE  CategorizeDiscrepancy(p, p, s, s) = "OK"
<1> DEFINE cp == Compared(p, s, s)
<1>1. \A i : ~Invalid(At(cp, i))
  <2> SUFFICES ASSUME NEW i PROVE ~Invalid(At(cp, i))
    OBVIOUS
  <2>1. CASE i \in DOMAIN cp
    <3>1. i \in DOMAIN p /\ cp[i] = p[i]
      BY <2>1, ComparedIsASequence
    <3> HIDE DEF cp
    <3> QED
      BY <2>1, <3>1, Zenon DEF At
  <2>2. CASE i \notin DOMAIN cp
    <3> HIDE DEF cp
    <3>1. At(cp, i) = None
      BY <2>2 DEF At
    <3> QED
      BY <3>1 DEF Invalid, None, IsRequest
  <2> QED
    BY <2>1, <2>2
<1>2. ASSUME NEW r, ~Invalid(r)
      PROVE  PairVerdict(r, r, s, s) = "next"
  <2>1. ~RejectedByOneOnly(r, r)
    BY DEF RejectedByOneOnly, None, IsResponse
  <2>2. SameRequest(r, r, s, s)
    BY Zenon DEF SameRequest
  <2> QED
    BY <1>2, <2>1, <2>2, Zenon DEF PairVerdict
<1>3. Decisive(cp, cp, s, s) = {}
  BY <1>1, <1>2, Zenon DEF Decisive
<1> QED
  BY <1>3, Zenon DEF CategorizeDiscrepancy, Decision

LEMMA InvalidVerdict ==
    ASSUME NEW S, NEW p1 \in Seq(S), NEW p2 \in Seq(S), NEW s1, NEW s2,
           CategorizeDiscrepancy(p1, p2, s1, s2) = "INVALID"
    PROVE  (\E i \in DOMAIN p1 : Invalid(p1[i])) \/ (\E i \in DOMAIN p2 : Invalid(p2[i]))
<1>1. PICK r1, r2, i :
          /\ PairVerdict(r1, r2, s1, s2) = "INVALID"
          /\ r1 = At(Compared(p1, s1, s2), i) /\ r2 = At(Compared(p2, s1, s2), i)
  BY VerdictOfAPair
<1>2. Invalid(r1) \/ Invalid(r2)
  BY <1>1 DEF PairVerdict
<1>3. ASSUME NEW p \in Seq(S), Invalid(At(Compared(p, s1, s2), i))
      PROVE  \E k \in DOMAIN p : Invalid(p[k])
  <2>1. i \in DOMAIN Compared(p, s1, s2)
    BY <1>3 DEF At, None, Invalid, IsRequest
  <2>2. i \in DOMAIN p /\ Compared(p, s1, s2)[i] = p[i]
    BY <2>1, ComparedIsASequence
  <2> QED
    BY <1>3, <2>1, <2>2 DEF At
<1> QED
  BY <1>1, <1>2, <1>3

(* Rejections of all of a payload, by whatever code or by saying nothing.  *)
LEMMA RejectionsShown ==
    ASSUME NEW S, NEW p1 \in Seq(S), NEW p2 \in Seq(S), NEW s1, NEW s2,
           Rejects(p1), Rejects(p2)
    PROVE  Shown(CategorizeDiscrepancy(p1, p2, s1, s2))
<1>1. CASE CategorizeDiscrepancy(p1, p2, s1, s2) = "OK"
  BY <1>1 DEF Shown
<1>2. CASE CategorizeDiscrepancy(p1, p2, s1, s2) # "OK"
  <2>1. PICK r1, r2, i :
            /\ CategorizeDiscrepancy(p1, p2, s1, s2) = PairVerdict(r1, r2, s1, s2)
            /\ PairVerdict(r1, r2, s1, s2) # "next" /\ PairVerdict(r1, r2, s1, s2) # "stop"
            /\ r1 = At(Compared(p1, s1, s2), i) /\ r2 = At(Compared(p2, s1, s2), i)
    BY <1>2, VerdictOfAPair
  <2>2. ASSUME NEW p \in Seq(S), Rejects(p), NEW r, r = At(Compared(p, s1, s2), i)
        PROVE  r = None \/ (IsResponse(r) /\ r.code # 200)
    <3>1. CASE i \in DOMAIN Compared(p, s1, s2)
      <4>1. i \in DOMAIN p /\ Compared(p, s1, s2)[i] = p[i]
        BY <3>1, ComparedIsASequence
      <4> QED
        BY <2>2, <3>1, <4>1 DEF At, Rejects
    <3>2. CASE i \notin DOMAIN Compared(p, s1, s2)
      BY <2>2, <3>2 DEF At
    <3> QED
      BY <3>1, <3>2
  <2>3. /\ r1 = None \/ (IsResponse(r1) /\ r1.code # 200)
        /\ r2 = None \/ (IsResponse(r2) /\ r2.code # 200)
    BY <2>1, <2>2
  <2>4. ~IsRequest(r1) /\ ~IsRequest(r2)
    BY <2>3 DEF IsRequest, IsResponse, None
  <2>5. PairVerdict(r1, r2, s1, s2) = "RESPONSE_DISCREPANCY"
    <3>1. ~Invalid(r1) /\ ~Invalid(r2) /\ IsRequest(r1) = IsRequest(r2)
      BY <2>4 DEF Invalid, IsRequest
    <3>2. ~RejectedByOneOnly(r1, r2)
      BY <2>1, <3>1, Zenon DEF PairVerdict
    <3>3. (r1 = None) = (r2 = None)
      BY <2>3, <3>2 DEF RejectedByOneOnly
    <3> QED
      BY <2>1, <2>4, <3>1, <3>2, <3>3, Zenon DEF PairVerdict
  <2> QED
    BY <2>1, <2>5 DEF Shown
<1> QED
  BY <1>1, <1>2

-----------------------------------------------------------------------------
(* The inductive invariant.                                                *)

Parsed == Requests \cup Responses

(* Comparisons have left every answer what it was, but for the order of    *)
(* its headers' values.                                                    *)
PtsInv ==
    /\ lineup \in Lineups
    /\ pts \in [Places -> Seq(Parsed)]
    /\ \A i \in Places : AlikeLists(pts[i], Said(i))

CellInv ==
    /\ cell \in (Nat \ {0}) \X (Nat \ {0}) /\ cell[1] <= cell[2]
    /\ cell[1] \in Places => cell[2] \in Places

GridInv ==
    /\ CellInv
    /\ grid \in [Places -> [Places -> ErrorTypes \cup {"None"}]]
    /\ \A i, j \in Places : j < i => grid[i][j] = "None"

(* The clusters hold the servers before the one to be placed, each once;   *)
(* the search is at a member of a cluster or past the last.                *)
SeatsInv ==
    /\ clusters \in Seq(Seq(Nat) \ {<<>>})
    /\ search \in [server : 1 .. Len(lineup) + 1, group : 1 .. Len(clusters) + 1,
                   member : Nat, verdict : {"OK", "INVALID"}]
    /\ search.group \in DOMAIN clusters => search.member \in DOMAIN Group
    /\ \A f \in DOMAIN clusters : \A m \in DOMAIN clusters[f] :
           clusters[f][m] \in 1 .. search.server - 1
    /\ \A n \in 1 .. search.server - 1 :
           \E f \in DOMAIN clusters : \E m \in DOMAIN clusters[f] : clusters[f][m] = n
    /\ \A f, e \in DOMAIN clusters : \A m \in DOMAIN clusters[f], k \in DOMAIN clusters[e] :
           clusters[f][m] = clusters[e][k] => f = e /\ m = k

(* The members passed have the verdict the search is for. *)
SearchInv ==
    NobodyJoins /\ search.group \in DOMAIN clusters =>
        \A m \in DOMAIN Group : m < search.member =>
            VerdictOnWhatWasSaid(search.server, Group[m]) = search.verdict

TwinsMustMeet ==
    NobodyJoins /\ \A i, j \in Places : AllValid(i) /\ Quirks(i).allows09 = Quirks(j).allows09

Disagrees(k, members) ==
    \E m \in DOMAIN members : VerdictOnWhatWasSaid(k, members[m]) # "OK"

(* A server is kept out of a cluster by a member it disagrees with.        *)
KeptOutInv ==
    TwinsMustMeet =>
        /\ \A f \in DOMAIN clusters : \A m \in DOMAIN clusters[f] : \A e \in 1 .. f - 1 :
               Disagrees(clusters[f][m], clusters[e])
        /\ \A e \in 1 .. search.group - 1 : Disagrees(search.server, clusters[e])
        /\ search.group \in DOMAIN clusters /\ search.verdict = "INVALID" =>
               Disagrees(search.server, Group)


-----------------------------------------------------------------------------
(* What comparisons leave of the answers. *)

LEMMA LineupShape ==
    ASSUME lineup \in Lineups
    PROVE  /\ Len(lineup) \in Nat /\ Places = 1 .. Len(lineup)
           /\ \A i \in Places : Said(i) \in Seq(Parsed)
<1>1. lineup \in Seq(Range(lineup)) /\ \A i \in DOMAIN lineup : lineup[i].pts \in Seq(Parsed)
  BY GridAssumption DEF GridAssumption, Parsed
<1> QED
  BY <1>1 DEF Places, Said

LEMMA InitPts == Init => PtsInv
<1> SUFFICES ASSUME Init PROVE PtsInv
  OBVIOUS
<1>1. lineup \in Lineups /\ pts = [i \in Places |-> Said(i)]
  BY DEF Init
<1>2. \A i \in Places : Said(i) \in Seq(Parsed)
  BY <1>1, LineupShape
<1> QED
  BY <1>1, <1>2, AlikeReflexive DEF PtsInv, AlikeLists

(* A comparison sorts the headers of requests, and of nothing else.        *)
LEMMA SortedAtAlike ==
    ASSUME NEW list \in Seq(Parsed), NEW read,
           \A p \in read : p \in DOMAIN list /\ IsRequest(list[p])
    PROVE  SortedAt(list, read) \in Seq(Parsed) /\ AlikeLists(SortedAt(list, read), list)
<1> DEFINE t == SortedAt(list, read)
<1>1. t = [p \in DOMAIN list |-> IF p \in read THEN SortedRequest(list[p]) ELSE list[p]]
  BY DEF SortedAt
<1>2. ASSUME NEW p \in DOMAIN list
      PROVE  t[p] \in Parsed /\ Alike(t[p], list[p])
  <2>1. list[p] \in Parsed
    OBVIOUS
  <2>2. CASE p \in read
    <3>1. list[p] \in Requests
      BY <2>1, <2>2 DEF Parsed, Requests, Responses, IsRequest
    <3>2. t[p] = SortedRequest(list[p])
      BY <1>1, <2>2
    <3> QED
      BY <3>1, <3>2, SortedRequestAlike DEF Parsed
  <2>3. CASE p \notin read
    BY <1>1, <2>1, <2>3, AlikeReflexive
  <2> QED
    BY <2>2, <2>3
<1>3. t \in [1 .. Len(list) -> Parsed] /\ DOMAIN t = DOMAIN list /\ Len(t) = Len(list)
  <2> HIDE DEF t
  <2>1. DOMAIN t = 1 .. Len(list)
    BY <1>1
  <2> QED
    BY <1>1, <1>2, <2>1
<1> HIDE DEF t
<1>4. t \in Seq(Parsed)
  BY <1>3
<1> QED
  BY <1>2, <1>3, <1>4 DEF AlikeLists, t

LEMMA AlikeListsTransitive ==
    ASSUME NEW p, NEW q, NEW s, AlikeLists(p, q), AlikeLists(q, s)
    PROVE  AlikeLists(p, s)
BY AlikeTransitive DEF AlikeLists

LEMMA ComparingKeepsPts ==
    ASSUME PtsInv, lineup' = lineup, NEW i \in Places, NEW j \in Places, Comparing(i, j)
    PROVE  PtsInv'
<1> DEFINE read == Normalized(pts[i], pts[j], Quirks(i), Quirks(j))
<1>1. pts[i] \in Seq(Parsed) /\ pts[j] \in Seq(Parsed)
  BY DEF PtsInv
<1>2. \A p \in read : /\ p \in DOMAIN pts[i] /\ IsRequest(pts[i][p])
                      /\ p \in DOMAIN pts[j] /\ IsRequest(pts[j][p])
  <2> DEFINE c1 == Compared(pts[i], Quirks(i), Quirks(j))
             c2 == Compared(pts[j], Quirks(i), Quirks(j))
  <2>1. \A p \in read : p \in DOMAIN c1 /\ p \in DOMAIN c2 /\ IsRequest(c1[p]) /\ IsRequest(c2[p])
    BY Zenon DEF Normalized
  <2>2. /\ \A p \in DOMAIN c1 : p \in DOMAIN pts[i] /\ c1[p] = pts[i][p]
        /\ \A p \in DOMAIN c2 : p \in DOMAIN pts[j] /\ c2[p] = pts[j][p]
    BY <1>1, ComparedIsASequence
  <2> HIDE DEF c1, c2, read
  <2> QED
    BY <2>1, <2>2, Zenon
<1>3. PICK sorted \in SUBSET {i, j} :
          pts' = [k \in Places |-> IF k \in sorted THEN SortedAt(pts[k], read) ELSE pts[k]]
  <2> DEFINE sd == {k \in {i, j} : \/ k = i /\ SortsInPlace(Quirks(i), Quirks(j))
                                   \/ k = j /\ SortsInPlace(Quirks(j), Quirks(i))}
  <2>1. pts' = [k \in Places |-> IF k \in sd THEN SortedAt(pts[k], read) ELSE pts[k]]
    BY Zenon DEF Comparing
  <2> QED
    BY <2>1, Zenon
<1> HIDE DEF read
<1>4. ASSUME NEW k \in Places
      PROVE  pts'[k] \in Seq(Parsed) /\ AlikeLists(pts'[k], Said(k))
  <2>1. pts[k] \in Seq(Parsed) /\ AlikeLists(pts[k], Said(k))
    BY DEF PtsInv
  <2>2. CASE k \in sorted
    <3>1. k = i \/ k = j
      BY <1>3, <2>2
    <3>2. \A p \in read : p \in DOMAIN pts[k] /\ IsRequest(pts[k][p])
      BY <1>2, <3>1
    <3>3. SortedAt(pts[k], read) \in Seq(Parsed) /\ AlikeLists(SortedAt(pts[k], read), pts[k])
      BY <2>1, <3>2, SortedAtAlike
    <3>4. pts'[k] = SortedAt(pts[k], read)
      BY <1>3, <2>2
    <3> QED
      BY <2>1, <3>3, <3>4, AlikeListsTransitive
  <2>3. CASE k \notin sorted
    BY <1>3, <2>1, <2>3
  <2> QED
    BY <2>2, <2>3
<1>5. DOMAIN pts' = Places /\ pts' = [k \in Places |-> pts'[k]]
  BY <1>3
<1>6. pts' \in [Places -> Seq(Parsed)]
  BY <1>4, <1>5
<1> QED
  BY <1>4, <1>6 DEF PtsInv, Places, Said

(* A verdict on the answers in memory is the verdict on what was said,     *)
(* when neither server joins duplicates.                                   *)
LEMMA VerdictNow ==
    ASSUME PtsInv, NEW i \in Places, NEW j \in Places, KeepApart(i, j)
    PROVE  Verdict(i, j) = VerdictOnWhatWasSaid(i, j)
<1>1. /\ pts[i] \in Seq(Parsed) /\ AlikeLists(pts[i], Said(i))
      /\ pts[j] \in Seq(Parsed) /\ AlikeLists(pts[j], Said(j))
  BY DEF PtsInv
<1>2. Said(i) \in Seq(Parsed) /\ Said(j) \in Seq(Parsed)
  BY LineupShape DEF PtsInv
<1>3. ~Quirks(i).joins /\ ~Quirks(j).joins
  BY DEF KeepApart
<1> QED
  BY <1>1, <1>2, <1>3, VerdictAlike DEF Verdict, VerdictOnWhatWasSaid

LEMMA RejectsAlike ==
    ASSUME NEW p, NEW q, AlikeLists(p, q), Rejects(q)
    PROVE  Rejects(p)
BY DEF AlikeLists, Alike, Rejects, IsResponse, IsRequest

(* What the lineup alone decides does not change with it unchanged. *)
LEMMA SameLineup ==
    ASSUME lineup' = lineup
    PROVE  /\ Places' = Places
           /\ \A i, j : VerdictOnWhatWasSaid(i, j)' = VerdictOnWhatWasSaid(i, j)
           /\ \A i : Said(i)' = Said(i) /\ AllValid(i)' = AllValid(i)
           /\ \A i, j : KeepApart(i, j)' = KeepApart(i, j)
           /\ NobodyJoins' = NobodyJoins /\ TwinsMustMeet' = TwinsMustMeet
BY Zenon DEF Places, VerdictOnWhatWasSaid, Said, Quirks, AllValid, KeepApart, NobodyJoins, TwinsMustMeet

-----------------------------------------------------------------------------
(* The steps of generate_grid. *)

(* Only generate_grid writes a cell: the verdict on two answers then in    *)
(* memory.                                                                 *)
LEMMA GridStepWrites ==
    ASSUME PtsInv, GridInv, GridStep
    PROVE  /\ PtsInv' /\ GridInv' /\ lineup' = lineup
           /\ \A i, j \in Places :
                  \/ grid'[i][j] = grid[i][j]
                  \/ grid'[i][j] = Verdict(i, j)
<1> DEFINE i == cell[1]
           j == cell[2]
           n == Len(lineup)
<1>1. /\ i \in Places /\ grid' = [grid EXCEPT ![i][j] = Verdict(i, j)]
      /\ Comparing(i, j) /\ lineup' = lineup
      /\ cell' = IF j < n THEN <<i, j + 1>> ELSE <<i + 1, i + 1>>
  BY DEF GridStep
<1>2. i \in Nat \ {0} /\ j \in Nat \ {0} /\ i <= j /\ j \in Places
  BY <1>1 DEF GridInv, CellInv
<1>3. n \in Nat /\ Places = 1 .. n
  BY LineupShape DEF PtsInv
<1> HIDE DEF i, j, n
<1>4. PtsInv'
  BY <1>1, <1>2, ComparingKeepsPts
<1>5. Places' = Places
  BY <1>1 DEF Places
<1>6. CellInv'
  <2>1. CASE j < n
    BY <1>1, <1>2, <1>3, <1>5, <2>1 DEF CellInv
  <2>2. CASE ~(j < n)
    BY <1>1, <1>2, <1>3, <1>5, <2>2 DEF CellInv
  <2> QED
    BY <2>1, <2>2
<1>7. Verdict(i, j) \in ErrorTypes
  <2>1. pts[i] \in Seq(Parsed) /\ pts[j] \in Seq(Parsed)
    BY <1>1, <1>2 DEF PtsInv
  <2> QED
    BY <2>1, VerdictType DEF Verdict
<1>8. grid \in [Places -> [Places -> ErrorTypes \cup {"None"}]]
  BY DEF GridInv
<1>9. grid' \in [Places -> [Places -> ErrorTypes \cup {"None"}]]
  <2> HIDE DEF ErrorTypes
  <2> QED
    BY <1>1, <1>2, <1>7, <1>8
<1>10. \A a, b \in Places : grid'[a][b] = IF a = i /\ b = j THEN Verdict(i, j) ELSE grid[a][b]
  BY <1>1, <1>2, <1>8
<1>11. \A a, b \in Places : b < a => grid'[a][b] = "None"
  <2>1. \A a, b \in Places : b < a => grid[a][b] = "None" /\ ~(a = i /\ b = j)
    BY <1>2, <1>3 DEF GridInv
  <2> QED
    BY <1>10, <2>1
<1>12. GridInv'
  BY <1>5, <1>6, <1>9, <1>11 DEF GridInv
<1> QED
  BY <1>1, <1>4, <1>10, <1>12

(* Where generate_clusters compares: the server to be placed and a member. *)
LEMMA ClusterComparison ==
    ASSUME PtsInv, SeatsInv, Searching, search.group \in DOMAIN clusters
    PROVE  search.server \in Places /\ Group[search.member] \in Places
<1>1. Len(lineup) \in Nat /\ Places = 1 .. Len(lineup)
  BY LineupShape DEF PtsInv
<1>2. search.server \in 1 .. Len(lineup)
  BY <1>1 DEF Searching
<1>3. Group[search.member] \in 1 .. search.server - 1
  BY DEF SeatsInv, Group
<1> QED
  BY <1>1, <1>2, <1>3

ClusterStep == NextMember \/ JoinGroup \/ TryInvalid \/ NextGroup \/ NewGroup

LEMMA ClusterStepKeepsPts ==
    ASSUME PtsInv, SeatsInv, ClusterStep
    PROVE  PtsInv' /\ lineup' = lineup /\ grid' = grid /\ cell' = cell
<1>1. CASE NewGroup
  BY <1>1 DEF NewGroup, PtsInv, Places, Said
<1>2. CASE NextMember \/ JoinGroup \/ TryInvalid \/ NextGroup
  <2>1. /\ Searching /\ search.group \in DOMAIN clusters
        /\ Comparing(search.server, Group[search.member])
        /\ lineup' = lineup /\ grid' = grid /\ cell' = cell
    BY <1>2 DEF NextMember, JoinGroup, TryInvalid, NextGroup
  <2> QED
    BY <2>1, ClusterComparison, ComparingKeepsPts
<1> QED
  BY <1>1, <1>2 DEF ClusterStep

LEMMA GridInvUnchanged ==
    ASSUME GridInv, lineup' = lineup, grid' = grid, cell' = cell
    PROVE  GridInv'
BY DEF GridInv, CellInv, Places

LEMMA InitGrid == Init => GridInv
<1> SUFFICES ASSUME Init PROVE GridInv
  OBVIOUS
<1>1. lineup \in Lineups /\ grid = [i \in Places |-> [j \in Places |-> "None"]] /\ cell = <<1, 1>>
  BY DEF Init
<1> QED
  BY <1>1 DEF GridInv, CellInv

-----------------------------------------------------------------------------
(* The steps of generate_clusters. *)

Clusters == Seq(Seq(Nat) \ {<<>>})

(* d is c with k placed at seat m of cluster g, a new last seat. *)
PlacedAt(c, d, g, m, k) ==
    /\ d \in Clusters /\ Len(d) \in {Len(c), Len(c) + 1}
    /\ g \in DOMAIN d /\ m \in DOMAIN d[g] /\ d[g][m] = k
    /\ DOMAIN d = DOMAIN c \cup {g}
    /\ \A f \in DOMAIN c : f # g => d[f] = c[f]
    /\ g \in DOMAIN c =>
          /\ DOMAIN d[g] = DOMAIN c[g] \cup {m}
          /\ \A l \in DOMAIN c[g] : d[g][l] = c[g][l] /\ l < m
    /\ g \notin DOMAIN c => DOMAIN d[g] = {m} /\ g = Len(c) + 1

LEMMA ClustersShape ==
    ASSUME NEW c \in Clusters
    PROVE  /\ Len(c) \in Nat /\ DOMAIN c = 1 .. Len(c)
           /\ \A f \in DOMAIN c : /\ c[f] \in Seq(Nat) /\ c[f] # <<>>
                                  /\ Len(c[f]) \in Nat \ {0} /\ DOMAIN c[f] = 1 .. Len(c[f])
<1>1. Len(c) \in Nat /\ DOMAIN c = 1 .. Len(c)
  BY DEF Clusters
<1>2. ASSUME NEW f \in DOMAIN c
      PROVE  /\ c[f] \in Seq(Nat) /\ c[f] # <<>>
             /\ Len(c[f]) \in Nat \ {0} /\ DOMAIN c[f] = 1 .. Len(c[f])
  <2>1. c[f] \in Seq(Nat) \ {<<>>}
    BY <1>2 DEF Clusters
  <2> QED
    BY <2>1
<1> QED
  BY <1>1, <1>2

LEMMA AppendFacts ==
    ASSUME NEW s \in Seq(Nat), NEW k \in Nat
    PROVE  /\ Append(s, k) \in Seq(Nat) \ {<<>>}
           /\ DOMAIN Append(s, k) = 1 .. Len(s) + 1
           /\ Append(s, k)[Len(s) + 1] = k
           /\ \A l \in 1 .. Len(s) : Append(s, k)[l] = s[l]
OBVIOUS

LEMMA ReplacedIn ==
    ASSUME NEW S, NEW c \in Seq(S), NEW g \in DOMAIN c, NEW x \in S
    PROVE  [c EXCEPT ![g] = x] \in Seq(S) /\ Len([c EXCEPT ![g] = x]) = Len(c)
OBVIOUS

LEMMA AppendPlaces ==
    ASSUME NEW c \in Clusters, NEW g \in DOMAIN c, NEW k \in Nat
    PROVE  PlacedAt(c, [c EXCEPT ![g] = Append(@, k)], g, Len(c[g]) + 1, k)
<1> DEFINE d == [c EXCEPT ![g] = Append(@, k)]
<1>1. /\ c[g] \in Seq(Nat) /\ Len(c[g]) \in Nat /\ DOMAIN c[g] = 1 .. Len(c[g])
      /\ Len(c) \in Nat /\ DOMAIN c = 1 .. Len(c)
  BY ClustersShape
<1>2. /\ Append(c[g], k) \in Seq(Nat) \ {<<>>}
      /\ DOMAIN Append(c[g], k) = 1 .. Len(c[g]) + 1
      /\ Append(c[g], k)[Len(c[g]) + 1] = k
      /\ \A l \in 1 .. Len(c[g]) : Append(c[g], k)[l] = c[g][l]
  BY <1>1, AppendFacts, Zenon
<1>3. d \in Clusters /\ Len(d) = Len(c)
  <2> DEFINE X == Seq(Nat) \ {<<>>}
             x == Append(c[g], k)
  <2>1. Clusters = Seq(X) /\ x \in X
    BY <1>2 DEF Clusters
  <2>2. d = [c EXCEPT ![g] = x]
    OBVIOUS
  <2> HIDE DEF d, X, x
  <2>3. c \in Seq(X) /\ g \in DOMAIN c
    BY <2>1
  <2>4. [c EXCEPT ![g] = x] \in Seq(X) /\ Len([c EXCEPT ![g] = x]) = Len(c)
    BY <2>1, <2>3, ReplacedIn
  <2> QED
    BY <2>1, <2>2, <2>4
<1>4. /\ DOMAIN d = DOMAIN c /\ d[g] = Append(c[g], k)
      /\ \A f \in DOMAIN c : f # g => d[f] = c[f]
  BY <1>1, Zenon
<1> HIDE DEF d
<1>5. /\ g \in DOMAIN d /\ Len(c[g]) + 1 \in DOMAIN d[g] /\ d[g][Len(c[g]) + 1] = k
      /\ DOMAIN d = DOMAIN c \cup {g}
      /\ DOMAIN d[g] = DOMAIN c[g] \cup {Len(c[g]) + 1}
  BY <1>1, <1>2, <1>4
<1>6. \A l \in DOMAIN c[g] : d[g][l] = c[g][l] /\ l < Len(c[g]) + 1
  BY <1>1, <1>2, <1>4
<1> QED
  BY <1>3, <1>4, <1>5, <1>6 DEF PlacedAt, d

LEMMA FoundingPlaces ==
    ASSUME NEW c \in Clusters, NEW k \in Nat
    PROVE  PlacedAt(c, Append(c, <<k>>), Len(c) + 1, 1, k)
<1> DEFINE d == Append(c, <<k>>)
<1>1. Len(c) \in Nat /\ DOMAIN c = 1 .. Len(c)
  BY ClustersShape
<1>2. <<k>> \in Seq(Nat) \ {<<>>}
  OBVIOUS
<1>3. d \in Clusters /\ Len(d) = Len(c) + 1
  BY <1>1, <1>2 DEF Clusters
<1>4. /\ DOMAIN d = 1 .. Len(c) + 1 /\ d[Len(c) + 1] = <<k>>
      /\ \A f \in DOMAIN c : d[f] = c[f]
  BY <1>1, <1>2 DEF Clusters
<1>5. DOMAIN <<k>> = {1} /\ <<k>>[1] = k
  OBVIOUS
<1> HIDE DEF d
<1> QED
  BY <1>1, <1>3, <1>4, <1>5 DEF PlacedAt, d

(* JoinGroup and NewGroup place the server the search is for.              *)
LEMMA Placing ==
    ASSUME PtsInv, SeatsInv, JoinGroup \/ NewGroup
    PROVE  /\ search.server \in Places
           /\ search' = SearchFor(search.server + 1) /\ lineup' = lineup
           /\ \E m \in Nat : PlacedAt(clusters, clusters', search.group, m, search.server)
           /\ JoinGroup => /\ search.group \in DOMAIN clusters /\ Hit
                           /\ search.member = Len(Group)
<1>1. clusters \in Clusters
  BY DEF SeatsInv, Clusters
<1>2. search.server \in Places /\ search.server \in Nat /\ search.group \in 1 .. Len(clusters) + 1
  BY DEF SeatsInv, JoinGroup, NewGroup, Searching
<1>3. Len(clusters) \in Nat /\ DOMAIN clusters = 1 .. Len(clusters)
  BY <1>1, ClustersShape
<1>4. CASE JoinGroup
  <2>1. /\ search.group \in DOMAIN clusters /\ Hit /\ search.member = Len(Group)
        /\ clusters' = [clusters EXCEPT ![search.group] = Append(@, search.server)]
        /\ search' = SearchFor(search.server + 1) /\ lineup' = lineup
    BY <1>4 DEF JoinGroup
  <2>2. PlacedAt(clusters, clusters', search.group, Len(clusters[search.group]) + 1, search.server)
    BY <1>1, <1>2, <2>1, AppendPlaces
  <2>3. Len(clusters[search.group]) + 1 \in Nat
    BY <1>1, <2>1, ClustersShape
  <2> QED
    BY <1>2, <2>1, <2>2, <2>3
<1>5. CASE NewGroup /\ ~JoinGroup
  <2>1. /\ search.group \notin DOMAIN clusters
        /\ clusters' = Append(clusters, <<search.server>>)
        /\ search' = SearchFor(search.server + 1) /\ lineup' = lineup
    BY <1>5 DEF NewGroup
  <2>2. search.group = Len(clusters) + 1
    BY <1>2, <1>3, <2>1
  <2>3. PlacedAt(clusters, clusters', search.group, 1, search.server)
    BY <1>1, <1>2, <2>1, <2>2, FoundingPlaces
  <2> QED
    BY <1>2, <1>5, <2>1, <2>3
<1> QED
  BY <1>4, <1>5

LEMMA SeatsKept ==
    ASSUME PtsInv, SeatsInv, ClusterStep
    PROVE  SeatsInv'
<1>1. clusters \in Clusters
  BY DEF SeatsInv, Clusters
<1>2. Len(lineup) \in Nat /\ Places = 1 .. Len(lineup)
  BY LineupShape DEF PtsInv
<1>3. /\ Len(clusters) \in Nat /\ DOMAIN clusters = 1 .. Len(clusters)
      /\ \A f \in DOMAIN clusters : Len(clusters[f]) \in Nat \ {0} /\ DOMAIN clusters[f] = 1 .. Len(clusters[f])
  BY <1>1, ClustersShape
<1>4. CASE NextMember \/ TryInvalid \/ NextGroup
  <2>1. clusters' = clusters /\ lineup' = lineup /\ search.group \in DOMAIN clusters
    BY <1>4 DEF NextMember, TryInvalid, NextGroup
  <2> DEFINE S == 1 .. Len(lineup) + 1
             D == 1 .. Len(clusters)
             G == 1 .. Len(clusters) + 1
             r == search'
  <2>3. /\ search \in [server : S, group : G, member : Nat, verdict : {"OK", "INVALID"}]
        /\ search.group \in D /\ search.group + 1 \in G
        /\ Len(clusters[search.group]) \in Nat /\ search.member \in 1 .. Len(clusters[search.group])
        /\ \A f \in D : 1 \in 1 .. Len(clusters[f])
    <3>1. search \in [server : S, group : G, member : Nat, verdict : {"OK", "INVALID"}]
      BY DEF SeatsInv
    <3>2. search.group \in D /\ search.group + 1 \in G
      BY <1>3, <2>1
    <3>3. search.member \in DOMAIN clusters[search.group]
      BY <2>1 DEF SeatsInv, Group
    <3>4. \A f \in D : Len(clusters[f]) \in Nat \ {0} /\ 1 \in 1 .. Len(clusters[f])
                       /\ DOMAIN clusters[f] = 1 .. Len(clusters[f])
      <4>1. \A n \in Nat \ {0} : 1 \in 1 .. n
        OBVIOUS
      <4> QED
        BY <1>3, <4>1, Zenon
    <3> HIDE DEF S, D, G
    <3> QED
      BY <3>1, <3>2, <3>3, <3>4
  <2>2. /\ r \in [server : S, group : G, member : Nat, verdict : {"OK", "INVALID"}]
        /\ r.server = search.server
        /\ r.group \in D => r.member \in 1 .. Len(clusters[r.group])
    <3>1. CASE NextMember
      <4>1. /\ r = [search EXCEPT !.member = search.member + 1]
            /\ search.member < Len(clusters[search.group])
        BY <3>1 DEF NextMember, Group
      <4>2. search.member + 1 \in 1 .. Len(clusters[search.group])
        BY <2>3, <4>1
      <4> HIDE DEF S, D, G, r
      <4> QED
        BY <2>3, <4>1, <4>2
    <3>2. CASE TryInvalid
      <4>1. r = [search EXCEPT !.member = 1, !.verdict = "INVALID"]
        BY <3>2 DEF TryInvalid
      <4> HIDE DEF S, D, G, r
      <4> QED
        BY <2>3, <4>1
    <3>3. CASE NextGroup
      <4>1. r = [search EXCEPT !.group = search.group + 1, !.member = 1, !.verdict = "OK"]
        BY <3>3 DEF NextGroup
      <4> HIDE DEF S, D, G, r
      <4> QED
        BY <2>3, <4>1
    <3> QED
      BY <1>4, <3>1, <3>2, <3>3
  <2>4. D = DOMAIN clusters /\ \A f \in D : 1 .. Len(clusters[f]) = DOMAIN clusters[f]
    BY <1>3
  <2>5. search'.group \in DOMAIN clusters => search'.member \in DOMAIN clusters[search'.group]
    BY <2>2, <2>4, Zenon
  <2> QED
    BY <2>1, <2>2, <2>5 DEF SeatsInv, Group
<1>5. CASE JoinGroup \/ NewGroup
  <2> DEFINE g == search.group
             k == search.server
  <2>1. /\ k \in Places /\ search' = SearchFor(k + 1) /\ lineup' = lineup
        /\ \E m \in Nat : PlacedAt(clusters, clusters', g, m, k)
    BY <1>5, Placing
  <2>2. PICK m \in Nat : PlacedAt(clusters, clusters', g, m, k)
    BY <2>1
  <2>3. clusters' \in Clusters
    BY <2>2 DEF PlacedAt
  <2>4. /\ Len(clusters') \in Nat /\ DOMAIN clusters' = 1 .. Len(clusters')
        /\ \A f \in DOMAIN clusters' :
              Len(clusters'[f]) \in Nat \ {0} /\ DOMAIN clusters'[f] = 1 .. Len(clusters'[f])
    BY <2>3, ClustersShape
  <2>5. k \in 1 .. Len(lineup) /\ search'.server = k + 1 /\ search'.server - 1 = k
    BY <1>2, <2>1 DEF SearchFor
  <2>6. /\ search' \in [server : 1 .. Len(lineup') + 1, group : 1 .. Len(clusters') + 1,
                        member : Nat, verdict : {"OK", "INVALID"}]
        /\ search'.group \in DOMAIN clusters' => search'.member \in DOMAIN clusters'[search'.group]
    BY <1>2, <2>1, <2>4, <2>5 DEF SearchFor
  <2>7. \A f \in DOMAIN clusters' : \A l \in DOMAIN clusters'[f] :
            \/ f = g /\ l = m /\ clusters'[f][l] = k
            \/ f \in DOMAIN clusters /\ l \in DOMAIN clusters[f] /\ clusters'[f][l] = clusters[f][l]
    BY <2>2 DEF PlacedAt
  <2>8. \A f \in DOMAIN clusters : \A l \in DOMAIN clusters[f] :
            f \in DOMAIN clusters' /\ l \in DOMAIN clusters'[f] /\ clusters'[f][l] = clusters[f][l]
    BY <2>2 DEF PlacedAt
  <2>9. g \in DOMAIN clusters' /\ m \in DOMAIN clusters'[g] /\ clusters'[g][m] = k
    BY <2>2 DEF PlacedAt
  <2>10. /\ \A f \in DOMAIN clusters : \A l \in DOMAIN clusters[f] : clusters[f][l] \in 1 .. k - 1
         /\ \A n \in 1 .. k - 1 :
                \E f \in DOMAIN clusters : \E l \in DOMAIN clusters[f] : clusters[f][l] = n
         /\ \A f, e \in DOMAIN clusters : \A a \in DOMAIN clusters[f], b \in DOMAIN clusters[e] :
                clusters[f][a] = clusters[e][b] => f = e /\ a = b
    BY DEF SeatsInv
  <2> HIDE DEF g, k
  <2>11. \A f \in DOMAIN clusters' : \A l \in DOMAIN clusters'[f] : clusters'[f][l] \in 1 .. k
    BY <2>5, <2>7, <2>10
  <2>12. \A n \in 1 .. k :
             \E f \in DOMAIN clusters' : \E l \in DOMAIN clusters'[f] : clusters'[f][l] = n
    <3> SUFFICES ASSUME NEW n \in 1 .. k
                 PROVE  \E f \in DOMAIN clusters' : \E l \in DOMAIN clusters'[f] : clusters'[f][l] = n
      OBVIOUS
    <3>1. CASE n = k
      BY <2>9, <3>1
    <3>2. CASE n # k
      <4>1. n \in 1 .. k - 1
        BY <2>5, <3>2
      <4>2. \E f \in DOMAIN clusters : \E l \in DOMAIN clusters[f] : clusters[f][l] = n
        BY <2>10, <4>1
      <4> QED
        BY <2>8, <4>2
    <3> QED
      BY <3>1, <3>2
  <2>13. \A f, e \in DOMAIN clusters' : \A a \in DOMAIN clusters'[f], b \in DOMAIN clusters'[e] :
             clusters'[f][a] = clusters'[e][b] => f = e /\ a = b
    <3>1. \A f \in DOMAIN clusters : \A l \in DOMAIN clusters[f] : clusters[f][l] # k
      BY <2>5, <2>10
    <3> QED
      BY <2>7, <2>10, <3>1
  <2> QED
    BY <2>3, <2>5, <2>6, <2>11, <2>12, <2>13 DEF SeatsInv, Clusters, Group
<1> QED
  BY <1>4, <1>5 DEF ClusterStep

(* A member is hit when the two servers' words have the verdict sought.    *)
LEMMA HitOnWhatWasSaid ==
    ASSUME PtsInv, SeatsInv, NobodyJoins, Searching, search.group \in DOMAIN clusters
    PROVE  Hit <=> VerdictOnWhatWasSaid(search.server, Group[search.member]) = search.verdict
<1>1. search.server \in Places /\ Group[search.member] \in Places
  BY ClusterComparison
<1>2. KeepApart(search.server, Group[search.member])
  BY <1>1 DEF KeepApart, NobodyJoins
<1> QED
  BY <1>1, <1>2, VerdictNow DEF Hit

(* A server that joins a cluster has one verdict with all of its members.  *)
LEMMA JoinsUnanimously ==
    ASSUME PtsInv, SeatsInv, SearchInv, NobodyJoins, JoinGroup
    PROVE  /\ search.group \in DOMAIN clusters
           /\ \A l \in DOMAIN Group :
                  VerdictOnWhatWasSaid(search.server, Group[l]) = search.verdict
<1>1. /\ Searching /\ search.group \in DOMAIN clusters /\ Hit
      /\ search.member = Len(Group)
  BY DEF JoinGroup
<1>2. DOMAIN Group = 1 .. Len(Group) /\ Len(Group) \in Nat
  BY <1>1, ClustersShape DEF SeatsInv, Clusters, Group
<1>3. VerdictOnWhatWasSaid(search.server, Group[search.member]) = search.verdict
  BY <1>1, HitOnWhatWasSaid
<1>4. \A l \in DOMAIN Group : l < search.member \/ l = search.member
  BY <1>1, <1>2
<1> QED
  BY <1>1, <1>3, <1>4 DEF SearchInv

LEMMA SearchKept ==
    ASSUME PtsInv, SeatsInv, SearchInv, ClusterStep
    PROVE  SearchInv'
<1>1. lineup' = lineup
  BY ClusterStepKeepsPts
<1>2. NobodyJoins' = NobodyJoins /\ \A i, j : VerdictOnWhatWasSaid(i, j)' = VerdictOnWhatWasSaid(i, j)
  BY <1>1, SameLineup
<1>3. \A f \in DOMAIN clusters : DOMAIN clusters[f] \subseteq Nat
  <2>1. \A f \in DOMAIN clusters : DOMAIN clusters[f] = 1 .. Len(clusters[f]) /\ Len(clusters[f]) \in Nat
    BY ClustersShape DEF SeatsInv, Clusters
  <2> QED
    BY <2>1
<1>4. CASE NextMember
  <2> SUFFICES ASSUME NobodyJoins, search'.group \in DOMAIN clusters',
                      NEW m \in DOMAIN clusters'[search'.group], m < search'.member
               PROVE  VerdictOnWhatWasSaid(search'.server, clusters'[search'.group][m]) = search'.verdict
    BY <1>2 DEF SearchInv, Group
  <2>1. /\ Searching /\ search.group \in DOMAIN clusters /\ Hit /\ clusters' = clusters
        /\ search' = [search EXCEPT !.member = search.member + 1]
    BY <1>4 DEF NextMember
  <2>2. /\ search'.server = search.server /\ search'.group = search.group
        /\ search'.verdict = search.verdict /\ search'.member = search.member + 1
    BY <2>1 DEF SeatsInv
  <2>3. VerdictOnWhatWasSaid(search.server, Group[search.member]) = search.verdict
    BY <2>1, HitOnWhatWasSaid
  <2>4. m \in DOMAIN Group /\ m \in Nat /\ search.member \in Nat
    BY <1>3, <2>1, <2>2 DEF Group, SeatsInv
  <2>5. m < search.member \/ m = search.member
    BY <2>2, <2>4
  <2>6. VerdictOnWhatWasSaid(search.server, Group[m]) = search.verdict
    BY <2>1, <2>3, <2>4, <2>5 DEF SearchInv
  <2> QED
    BY <2>1, <2>2, <2>6 DEF Group
<1>5. CASE TryInvalid \/ NextGroup \/ JoinGroup \/ NewGroup
  <2>1. search'.member = 1
    <3>1. CASE TryInvalid
      BY <3>1 DEF TryInvalid, SeatsInv
    <3>2. CASE NextGroup
      BY <3>2 DEF NextGroup, SeatsInv
    <3>3. CASE JoinGroup \/ NewGroup
      BY <3>3 DEF JoinGroup, NewGroup, SearchFor
    <3> QED
      BY <1>5, <3>1, <3>2, <3>3
  <2>2. SeatsInv'
    BY SeatsKept
  <2>3. search'.group \in DOMAIN clusters' => \A m \in DOMAIN clusters'[search'.group] : ~(m < 1)
    <3>1. clusters' \in Clusters
      BY <2>2 DEF SeatsInv, Clusters
    <3>2. \A f \in DOMAIN clusters' : DOMAIN clusters'[f] = 1 .. Len(clusters'[f]) /\ Len(clusters'[f]) \in Nat
      BY <3>1, ClustersShape
    <3> QED
      BY <3>2
  <2> QED
    BY <2>1, <2>3 DEF SearchInv, Group
<1> QED
  BY <1>4, <1>5 DEF ClusterStep

(* Two servers whose answers are all valid do not have the verdict INVALID. *)
LEMMA ValidVerdict ==
    ASSUME PtsInv, NEW i \in Places, NEW j \in Places, AllValid(i), AllValid(j)
    PROVE  VerdictOnWhatWasSaid(i, j) # "INVALID"
<1>1. Said(i) \in Seq(Parsed) /\ Said(j) \in Seq(Parsed)
  BY LineupShape DEF PtsInv
<1> QED
  BY <1>1, InvalidVerdict DEF VerdictOnWhatWasSaid, AllValid

LEMMA MembersArePlaces ==
    ASSUME PtsInv, SeatsInv
    PROVE  \A f \in DOMAIN clusters : \A m \in DOMAIN clusters[f] : clusters[f][m] \in Places
<1>1. Len(lineup) \in Nat /\ Places = 1 .. Len(lineup)
  BY LineupShape DEF PtsInv
<1>2. search.server \in 1 .. Len(lineup) + 1
  BY DEF SeatsInv
<1>3. \A n \in 1 .. search.server - 1 : n \in Places
  BY <1>1, <1>2
<1> QED
  BY <1>3 DEF SeatsInv

LEMMA AgreementKept ==
    ASSUME PtsInv, SeatsInv, SearchInv, ClusterAgrees, ClusterStep
    PROVE  ClusterAgrees'
<1>1. lineup' = lineup
  BY ClusterStepKeepsPts
<1>2. /\ NobodyJoins' = NobodyJoins
      /\ \A i, j : VerdictOnWhatWasSaid(i, j)' = VerdictOnWhatWasSaid(i, j)
      /\ \A i : AllValid(i)' = AllValid(i)
  BY <1>1, SameLineup
<1>3. CASE NextMember \/ TryInvalid \/ NextGroup
  <2>1. clusters' = clusters
    BY <1>3 DEF NextMember, TryInvalid, NextGroup
  <2> QED
    BY <1>2, <2>1 DEF ClusterAgrees
<1>4. CASE JoinGroup \/ NewGroup
  <2> SUFFICES ASSUME NobodyJoins, NEW f \in DOMAIN clusters',
                      NEW m \in DOMAIN clusters'[f], NEW l \in DOMAIN clusters'[f], m < l,
                      AllValid(clusters'[f][m]), AllValid(clusters'[f][l])
               PROVE  VerdictOnWhatWasSaid(clusters'[f][l], clusters'[f][m]) = "OK"
    BY <1>2 DEF ClusterAgrees
  <2> DEFINE g == search.group
             k == search.server
  <2>1. k \in Places /\ \E n \in Nat : PlacedAt(clusters, clusters', g, n, k)
    BY <1>4, Placing
  <2>2. PICK n \in Nat : PlacedAt(clusters, clusters', g, n, k)
    BY <2>1
  <2>3. clusters \in Clusters /\ clusters' \in Clusters
    BY <2>2 DEF PlacedAt, SeatsInv, Clusters
  <2>4. m \in Nat /\ l \in Nat
    <3>1. DOMAIN clusters'[f] = 1 .. Len(clusters'[f]) /\ Len(clusters'[f]) \in Nat
      BY <2>3, ClustersShape
    <3> QED
      BY <3>1
  <2>5. CASE f # g
    <3>1. f \in DOMAIN clusters /\ clusters'[f] = clusters[f]
      BY <2>2, <2>5 DEF PlacedAt
    <3> QED
      BY <3>1 DEF ClusterAgrees
  <2>6. CASE f = g /\ g \notin DOMAIN clusters
    <3>1. m = n /\ l = n
      BY <2>2, <2>6 DEF PlacedAt
    <3> QED
      BY <2>4, <3>1
  <2>7. CASE f = g /\ g \in DOMAIN clusters
    <3>1. /\ DOMAIN clusters'[g] = DOMAIN clusters[g] \cup {n} /\ clusters'[g][n] = k
          /\ \A a \in DOMAIN clusters[g] : clusters'[g][a] = clusters[g][a] /\ a < n
      BY <2>2, <2>7 DEF PlacedAt
    <3>2. m \in DOMAIN clusters[g]
      BY <2>4, <2>7, <3>1
    <3>3. CASE l \in DOMAIN clusters[g]
      BY <2>7, <3>1, <3>2, <3>3 DEF ClusterAgrees
    <3>4. CASE l = n
      <4>1. JoinGroup
        BY <1>4, <2>7 DEF NewGroup
      <4>2. VerdictOnWhatWasSaid(k, clusters[g][m]) = search.verdict
        BY <3>2, <4>1, JoinsUnanimously DEF Group
      <4>3. clusters[g][m] \in Places
        BY <2>7, <3>2, MembersArePlaces
      <4>4. AllValid(k) /\ AllValid(clusters[g][m])
        BY <2>7, <3>1, <3>2, <3>4
      <4>5. search.verdict # "INVALID"
        BY <2>1, <4>2, <4>3, <4>4, ValidVerdict
      <4>6. search.verdict = "OK"
        BY <4>5 DEF SeatsInv
      <4> QED
        BY <2>7, <3>1, <3>2, <3>4, <4>2, <4>6
    <3> QED
      BY <2>7, <3>1, <3>3, <3>4
  <2> QED
    BY <2>5, <2>6, <2>7
<1> QED
  BY <1>3, <1>4 DEF ClusterStep

(* Clusters only grow: a member that disagrees stays.                      *)
LEMMA DisagreementStays ==
    ASSUME NEW g, NEW n, NEW k, PlacedAt(clusters, clusters', g, n, k)
    PROVE  \A s : \A e \in DOMAIN clusters :
               Disagrees(s, clusters[e]) => Disagrees(s, clusters'[e])
<1> SUFFICES ASSUME NEW s, NEW e \in DOMAIN clusters, Disagrees(s, clusters[e])
             PROVE  Disagrees(s, clusters'[e])
  OBVIOUS
<1>1. PICK m \in DOMAIN clusters[e] : VerdictOnWhatWasSaid(s, clusters[e][m]) # "OK"
  BY DEF Disagrees
<1>2. m \in DOMAIN clusters'[e] /\ clusters'[e][m] = clusters[e][m]
  BY <1>1 DEF PlacedAt
<1> QED
  BY <1>1, <1>2, Zenon DEF Disagrees

LEMMA KeptOutKept ==
    ASSUME PtsInv, SeatsInv, SearchInv, KeptOutInv, ClusterStep
    PROVE  KeptOutInv'
<1>1. lineup' = lineup
  BY ClusterStepKeepsPts
<1>2. /\ TwinsMustMeet' = TwinsMustMeet
      /\ \A i, j : VerdictOnWhatWasSaid(i, j)' = VerdictOnWhatWasSaid(i, j)
  BY <1>1, SameLineup
<1>5. \A s, c : Disagrees(s, c)' = Disagrees(s, c)
  BY <1>2, Zenon DEF Disagrees
<1> SUFFICES ASSUME TwinsMustMeet
             PROVE  /\ \A f \in DOMAIN clusters' : \A m \in DOMAIN clusters'[f] : \A e \in 1 .. f - 1 :
                           Disagrees(clusters'[f][m], clusters'[e])
                    /\ \A e \in 1 .. search'.group - 1 : Disagrees(search'.server, clusters'[e])
                    /\ search'.group \in DOMAIN clusters' /\ search'.verdict = "INVALID" =>
                           Disagrees(search'.server, clusters'[search'.group])
  BY <1>2, <1>5 DEF KeptOutInv, Group
<1>3. NobodyJoins /\ \A i \in Places : AllValid(i)
  BY DEF TwinsMustMeet
<1>4. /\ \A f \in DOMAIN clusters : \A m \in DOMAIN clusters[f] : \A e \in 1 .. f - 1 :
             Disagrees(clusters[f][m], clusters[e])
      /\ \A e \in 1 .. search.group - 1 : Disagrees(search.server, clusters[e])
      /\ search.group \in DOMAIN clusters /\ search.verdict = "INVALID" =>
             Disagrees(search.server, Group)
  BY DEF KeptOutInv
<1>6. Len(clusters) \in Nat /\ DOMAIN clusters = 1 .. Len(clusters)
  BY ClustersShape DEF SeatsInv, Clusters
<1>7. search.group \in 1 .. Len(clusters) + 1
  BY DEF SeatsInv
<1>8. CASE NextMember \/ TryInvalid \/ NextGroup
  <2>1. /\ clusters' = clusters /\ search.group \in DOMAIN clusters /\ Searching
        /\ ~NextMember => ~Hit
    BY <1>8 DEF NextMember, TryInvalid, NextGroup
  <2>2. search.verdict = "OK" /\ ~Hit => Disagrees(search.server, Group)
    <3>1. SUFFICES ASSUME search.verdict = "OK", ~Hit
                   PROVE  Disagrees(search.server, Group)
      OBVIOUS
    <3>2. search.member \in DOMAIN Group
      BY <2>1 DEF SeatsInv
    <3>3. VerdictOnWhatWasSaid(search.server, Group[search.member]) # "OK"
      BY <1>3, <2>1, <3>1, HitOnWhatWasSaid
    <3> QED
      BY <3>2, <3>3 DEF Disagrees, Group
  <2>3. /\ \A e \in 1 .. search'.group - 1 : Disagrees(search'.server, clusters[e])
        /\ search'.verdict = "INVALID" => Disagrees(search'.server, clusters[search'.group])
    <3>1. CASE NextMember
      <4>1. /\ search'.server = search.server /\ search'.group = search.group
            /\ search'.verdict = search.verdict
        BY <3>1 DEF NextMember, SeatsInv
      <4> QED
        BY <1>4, <2>1, <4>1 DEF Group
    <3>2. CASE TryInvalid
      <4>1. search'.server = search.server /\ search'.group = search.group /\ search.verdict = "OK" /\ ~Hit
        BY <3>2 DEF TryInvalid, SeatsInv
      <4> QED
        BY <1>4, <2>2, <4>1 DEF Group
    <3>3. CASE NextGroup
      <4>1. /\ search'.server = search.server /\ search'.group = search.group + 1
            /\ search'.verdict = "OK" /\ search.verdict = "INVALID"
        BY <3>3 DEF NextGroup, SeatsInv
      <4>2. \A e \in 1 .. search'.group - 1 : e \in 1 .. search.group - 1 \/ e = search.group
        BY <1>6, <1>7, <4>1
      <4>3. Disagrees(search.server, Group)
        BY <1>4, <2>1, <4>1 DEF Group
      <4> QED
        BY <1>4, <4>1, <4>2, <4>3 DEF Group
    <3> QED
      BY <1>8, <3>1, <3>2, <3>3
  <2> QED
    BY <1>4, <2>1, <2>3
<1>9. CASE JoinGroup \/ NewGroup
  <2> DEFINE g == search.group
             k == search.server
  <2>1. /\ k \in Places /\ search' = SearchFor(k + 1)
        /\ \E n \in Nat : PlacedAt(clusters, clusters', g, n, k)
    BY <1>9, Placing
  <2>2. PICK n \in Nat : PlacedAt(clusters, clusters', g, n, k)
    BY <2>1
  <2>3. \A s : \A e \in DOMAIN clusters :
            Disagrees(s, clusters[e]) => Disagrees(s, clusters'[e])
    BY <2>2, DisagreementStays
  <2>4. \A f \in DOMAIN clusters' : \A m \in DOMAIN clusters'[f] :
            \/ f = g /\ clusters'[f][m] = k
            \/ f \in DOMAIN clusters /\ m \in DOMAIN clusters[f] /\ clusters'[f][m] = clusters[f][m]
    BY <2>2 DEF PlacedAt
  <2>5. \A f \in DOMAIN clusters \cup {g} : \A e \in 1 .. f - 1 : e \in DOMAIN clusters
    BY <1>6, <1>7
  <2>6. ASSUME NEW f \in DOMAIN clusters', NEW m \in DOMAIN clusters'[f], NEW e \in 1 .. f - 1
        PROVE  Disagrees(clusters'[f][m], clusters'[e])
    <3>1. Disagrees(clusters'[f][m], clusters[e]) /\ e \in DOMAIN clusters
      BY <1>4, <2>2, <2>4, <2>5 DEF PlacedAt
    <3> QED
      BY <2>3, <3>1
  <2>7. search'.group = 1 /\ search'.verdict = "OK"
    BY <2>1 DEF SearchFor
  <2> QED
    BY <2>6, <2>7
<1> QED
  BY <1>8, <1>9 DEF ClusterStep

-----------------------------------------------------------------------------
(* The theorems. *)

LEMMA InitClusters == Init => SeatsInv /\ SearchInv /\ ClusterAgrees /\ KeptOutInv
<1> SUFFICES ASSUME Init PROVE SeatsInv /\ SearchInv /\ ClusterAgrees /\ KeptOutInv
  OBVIOUS
<1>1. lineup \in Lineups /\ clusters = <<>> /\ search = SearchFor(1)
  BY DEF Init
<1>2. Len(lineup) \in Nat
  BY <1>1, LineupShape
<1>3. DOMAIN clusters = {} /\ Len(clusters) = 0 /\ clusters \in Seq(Seq(Nat) \ {<<>>})
  BY <1>1
<1>4. search = [server |-> 1, group |-> 1, member |-> 1, verdict |-> "OK"]
  BY <1>1 DEF SearchFor
<1>5. SeatsInv
  BY <1>2, <1>3, <1>4 DEF SeatsInv
<1> QED
  BY <1>3, <1>4, <1>5 DEF SearchInv, ClusterAgrees, KeptOutInv

AllInv ==
    PtsInv /\ GridInv /\ SeatsInv /\ SearchInv /\ ClusterAgrees /\ KeptOutInv
    /\ GridJudgesWhatWasSaid /\ RejectionsShownAsAgreement

LEMMA InitAll == Init => AllInv
<1> SUFFICES ASSUME Init PROVE AllInv
  OBVIOUS
<1>1. \A i, j \in Places : grid[i][j] = "None"
  BY DEF Init
<1> QED
  BY <1>1, InitPts, InitGrid, InitClusters
     DEF AllInv, GridJudgesWhatWasSaid, RejectionsShownAsAgreement

LEMMA StepKeepsAll == AllInv /\ [Next]_vars => AllInv'
<1> SUFFICES ASSUME AllInv, [Next]_vars PROVE AllInv'
  OBVIOUS
<1>0. /\ PtsInv /\ GridInv /\ SeatsInv /\ SearchInv /\ ClusterAgrees /\ KeptOutInv
      /\ GridJudgesWhatWasSaid /\ RejectionsShownAsAgreement
  BY DEF AllInv
<1>1. CASE GridStep
  <2>1. /\ PtsInv' /\ GridInv' /\ lineup' = lineup
        /\ \A i, j \in Places : \/ grid'[i][j] = grid[i][j]
                                \/ grid'[i][j] = Verdict(i, j)
    BY <1>0, <1>1, GridStepWrites
  <2>2. clusters' = clusters /\ search' = search
    BY <1>1 DEF GridStep
  <2>3. /\ Places' = Places /\ NobodyJoins' = NobodyJoins /\ TwinsMustMeet' = TwinsMustMeet
        /\ \A i, j : KeepApart(i, j)' = KeepApart(i, j)
        /\ \A i, j : VerdictOnWhatWasSaid(i, j)' = VerdictOnWhatWasSaid(i, j)
        /\ \A i : Said(i)' = Said(i) /\ AllValid(i)' = AllValid(i)
    BY <2>1, SameLineup
  <2>4. SeatsInv'
    BY <1>0, <2>1, <2>2 DEF SeatsInv, Group
  <2>5. SearchInv' /\ ClusterAgrees' /\ KeptOutInv'
    <3>1. \A s, c : Disagrees(s, c)' = Disagrees(s, c)
      BY <2>3, Zenon DEF Disagrees
    <3>2. SearchInv'
      BY <1>0, <2>2, <2>3 DEF SearchInv, Group
    <3>3. ClusterAgrees'
      BY <1>0, <2>2, <2>3 DEF ClusterAgrees
    <3>4. KeptOutInv'
      BY <1>0, <2>2, <2>3, <3>1 DEF KeptOutInv, Group
    <3> QED
      BY <3>2, <3>3, <3>4
  <2>6. GridJudgesWhatWasSaid'
    <3> SUFFICES ASSUME NEW i \in Places, NEW j \in Places, KeepApart(i, j)
                 PROVE  grid'[i][j] \in {"None", VerdictOnWhatWasSaid(i, j)}
      BY <2>3 DEF GridJudgesWhatWasSaid
    <3>1. grid[i][j] \in {"None", VerdictOnWhatWasSaid(i, j)}
      BY <1>0 DEF GridJudgesWhatWasSaid
    <3>2. Verdict(i, j) = VerdictOnWhatWasSaid(i, j)
      BY <1>0, VerdictNow
    <3> QED
      BY <2>1, <3>1, <3>2
  <2>7. RejectionsShownAsAgreement'
    <3> SUFFICES ASSUME NEW i \in Places, NEW j \in Places,
                        Rejects(Said(i)), Rejects(Said(j)), grid'[i][j] # "None"
                 PROVE  Shown(grid'[i][j])
      BY <2>3 DEF RejectionsShownAsAgreement
    <3>1. CASE grid'[i][j] = grid[i][j]
      BY <1>0, <3>1 DEF RejectionsShownAsAgreement
    <3>2. CASE grid'[i][j] = Verdict(i, j)
      <4>1. /\ pts[i] \in Seq(Parsed) /\ AlikeLists(pts[i], Said(i))
            /\ pts[j] \in Seq(Parsed) /\ AlikeLists(pts[j], Said(j))
        BY <1>0 DEF PtsInv
      <4>2. Rejects(pts[i]) /\ Rejects(pts[j])
        BY <4>1, RejectsAlike
      <4>3. Shown(Verdict(i, j))
        BY <4>1, <4>2, RejectionsShown DEF Verdict
      <4> QED
        BY <3>2, <4>3
    <3> QED
      BY <2>1, <3>1, <3>2
  <2> QED
    BY <2>1, <2>4, <2>5, <2>6, <2>7 DEF AllInv
<1>2. CASE ClusterStep
  <2>1. PtsInv' /\ lineup' = lineup /\ grid' = grid /\ cell' = cell
    BY <1>0, <1>2, ClusterStepKeepsPts
  <2>2. GridInv'
    BY <1>0, <2>1, GridInvUnchanged
  <2>3. SeatsInv' /\ SearchInv' /\ ClusterAgrees' /\ KeptOutInv'
    BY <1>0, <1>2, SeatsKept, SearchKept, AgreementKept, KeptOutKept
  <2>4. /\ Places' = Places /\ \A i, j : KeepApart(i, j)' = KeepApart(i, j)
        /\ \A i, j : VerdictOnWhatWasSaid(i, j)' = VerdictOnWhatWasSaid(i, j)
        /\ \A i : Said(i)' = Said(i)
    BY <2>1, SameLineup
  <2>5. GridJudgesWhatWasSaid'
    BY <1>0, <2>1, <2>4 DEF GridJudgesWhatWasSaid
  <2>6. RejectionsShownAsAgreement'
    BY <1>0, <2>1, <2>4 DEF RejectionsShownAsAgreement
  <2> QED
    BY <2>1, <2>2, <2>3, <2>5, <2>6 DEF AllInv
<1>3. CASE UNCHANGED vars
  <2>1. /\ lineup' = lineup /\ pts' = pts /\ grid' = grid /\ cell' = cell
        /\ clusters' = clusters /\ search' = search
    BY <1>3 DEF vars
  <2>2. /\ Places' = Places /\ NobodyJoins' = NobodyJoins /\ TwinsMustMeet' = TwinsMustMeet
        /\ \A i, j : KeepApart(i, j)' = KeepApart(i, j)
        /\ \A i, j : VerdictOnWhatWasSaid(i, j)' = VerdictOnWhatWasSaid(i, j)
        /\ \A i : Said(i)' = Said(i) /\ AllValid(i)' = AllValid(i)
    BY <2>1, SameLineup
  <2>3. PtsInv'
    BY <1>0, <2>1, <2>2 DEF PtsInv
  <2>4. GridInv'
    BY <1>0, <2>1, GridInvUnchanged
  <2>5. SeatsInv'
    BY <1>0, <2>1 DEF SeatsInv, Group
  <2>6. SearchInv' /\ ClusterAgrees'
    BY <1>0, <2>1, <2>2 DEF SearchInv, ClusterAgrees, Group
  <2>7. KeptOutInv'
    <3>1. \A s, c : Disagrees(s, c)' = Disagrees(s, c)
      BY <2>2, Zenon DEF Disagrees
    <3> QED
      BY <1>0, <2>1, <2>2, <3>1 DEF KeptOutInv, Group
  <2>8. GridJudgesWhatWasSaid' /\ RejectionsShownAsAgreement'
    BY <1>0, <2>1, <2>2 DEF GridJudgesWhatWasSaid, RejectionsShownAsAgreement
  <2> QED
    BY <2>3, <2>4, <2>5, <2>6, <2>7, <2>8 DEF AllInv
<1> QED
  BY <1>1, <1>2, <1>3 DEF Next, ClusterStep

THEOREM GridInvariance == Spec => []AllInv
BY InitAll, StepKeepsAll, PTL DEF Spec

(* The verdicts on and above the diagonal, the servers placed each once.   *)
THEOREM GridTypes == Spec => []GridTypeOK
<1>1. AllInv => GridTypeOK
  <2> SUFFICES ASSUME AllInv PROVE GridTypeOK
    OBVIOUS
  <2>1. GridInv /\ SeatsInv /\ PtsInv
    BY DEF AllInv
  <2>2. \A i, j \in Places : grid[i][j] \in IF i <= j THEN ErrorTypes \cup {"None"} ELSE {"None"}
    <3>1. Len(lineup) \in Nat /\ Places = 1 .. Len(lineup)
      BY <2>1, LineupShape DEF PtsInv
    <3>2. \A i, j \in Places : i <= j \/ j < i
      BY <3>1
    <3> HIDE DEF ErrorTypes
    <3> QED
      BY <2>1, <3>2 DEF GridInv
  <2>3. \A g \in DOMAIN clusters : clusters[g] # <<>>
    BY <2>1, ClustersShape DEF SeatsInv, Clusters
  <2>4. UNION {ToSet(clusters[g]) : g \in DOMAIN clusters} = 1 .. search.server - 1
    <3> DEFINE placed == UNION {ToSet(clusters[g]) : g \in DOMAIN clusters}
    <3>1. \A n : n \in placed <=>
              \E g \in DOMAIN clusters : \E m \in DOMAIN clusters[g] : clusters[g][m] = n
      BY DEF ToSet
    <3> HIDE DEF placed
    <3>4. \A g \in DOMAIN clusters : \A m \in DOMAIN clusters[g] :
              clusters[g][m] \in 1 .. search.server - 1
      BY <2>1 DEF SeatsInv
    <3>5. \A n \in 1 .. search.server - 1 :
              \E g \in DOMAIN clusters : \E m \in DOMAIN clusters[g] : clusters[g][m] = n
      BY <2>1 DEF SeatsInv
    <3>2. placed = 1 .. search.server - 1
      <4> DEFINE before == 1 .. search.server - 1
      <4>1. \A n : n \in placed => n \in before
        BY <3>1, <3>4, Zenon
      <4>2. \A n : n \in before => n \in placed
        BY <3>1, <3>5, Zenon
      <4>3. placed = before
        <5> HIDE DEF before
        <5> QED
          BY <4>1, <4>2
      <4> QED
        BY <4>3
    <3> QED
      BY <3>2 DEF placed
  <2>5. \A p, q \in Seats : Seated(p) = Seated(q) => p = q
    <3>1. ASSUME NEW p \in Seats
          PROVE  \E g \in DOMAIN clusters : \E m \in DOMAIN clusters[g] :
                     p = <<g, m>> /\ Seated(p) = clusters[g][m]
      <4>1. \E g \in DOMAIN clusters : p \in {<<g, m>> : m \in DOMAIN clusters[g]}
        BY Zenon DEF Seats
      <4>2. \E g \in DOMAIN clusters : \E m \in DOMAIN clusters[g] : p = <<g, m>>
        BY <4>1, Zenon
      <4> QED
        BY <4>2 DEF Seated
    <3> SUFFICES ASSUME NEW p \in Seats, NEW q \in Seats, Seated(p) = Seated(q)
                 PROVE  p = q
      OBVIOUS
    <3>2. PICK f \in DOMAIN clusters : \E m \in DOMAIN clusters[f] :
              p = <<f, m>> /\ Seated(p) = clusters[f][m]
      BY <3>1
    <3>3. PICK m \in DOMAIN clusters[f] : p = <<f, m>> /\ Seated(p) = clusters[f][m]
      BY <3>2
    <3>4. PICK e \in DOMAIN clusters : \E k \in DOMAIN clusters[e] :
              q = <<e, k>> /\ Seated(q) = clusters[e][k]
      BY <3>1
    <3>5. PICK k \in DOMAIN clusters[e] : q = <<e, k>> /\ Seated(q) = clusters[e][k]
      BY <3>4
    <3>6. clusters[f][m] = clusters[e][k]
      BY <3>3, <3>5
    <3>7. f = e /\ m = k
      BY <2>1, <3>6 DEF SeatsInv
    <3> QED
      BY <3>3, <3>5, <3>7
  <2> QED
    BY <2>2, <2>3, <2>4, <2>5 DEF GridTypeOK
<1> QED
  BY <1>1, GridInvariance, PTL

(* No comparison has a say in the verdict of a later one on two servers    *)
(* that do not join duplicate headers.                                     *)
THEOREM GridJudges == Spec => []GridJudgesWhatWasSaid
<1>1. AllInv => GridJudgesWhatWasSaid
  BY DEF AllInv
<1> QED
  BY <1>1, GridInvariance, PTL

(* The triangle left out would mirror the one computed, even compared over *)
(* the answers as sorted in place: what is in memory now has the verdict   *)
(* of what was said, and so has a cell, and that verdict is symmetric.     *)
THEOREM GridsAreSymmetric == Spec => []SymmetricGrid
<1>1. AllInv => SymmetricGrid
  <2> SUFFICES ASSUME AllInv, NEW i \in Places, NEW j \in Places, grid[i][j] # "None",
                      KeepApart(i, j), Quirks(i).allows09 = Quirks(j).allows09
               PROVE  Verdict(j, i) = grid[i][j]
    BY DEF SymmetricGrid
  <2>1. PtsInv /\ GridJudgesWhatWasSaid
    BY DEF AllInv
  <2>2. grid[i][j] = VerdictOnWhatWasSaid(i, j)
    BY <2>1 DEF GridJudgesWhatWasSaid
  <2>3. KeepApart(j, i)
    BY DEF KeepApart
  <2>4. Verdict(j, i) = VerdictOnWhatWasSaid(j, i)
    BY <2>1, <2>3, VerdictNow
  <2>5. SymmetricVerdict(Said(i), Said(j), Quirks(i), Quirks(j))
    BY VerdictsAreSymmetric
  <2>6. VerdictOnWhatWasSaid(i, j) = VerdictOnWhatWasSaid(j, i)
    BY <2>5, Zenon DEF SymmetricVerdict, VerdictOnWhatWasSaid
  <2> QED
    BY <2>2, <2>4, <2>6
<1> QED
  BY <1>1, GridInvariance, PTL

(* Rejecting servers are shown as agreeing, whatever else is compared.     *)
THEOREM GridShowsRejections == Spec => []RejectionsShownAsAgreement
<1>1. AllInv => RejectionsShownAsAgreement
  BY DEF AllInv
<1> QED
  BY <1>1, GridInvariance, PTL

(* The valid servers of a cluster agree pairwise. *)
THEOREM ClustersAgree == Spec => []ClusterAgrees
<1>1. AllInv => ClusterAgrees
  BY DEF AllInv
<1> QED
  BY <1>1, GridInvariance, PTL

(* Members i and j of one cluster agree, i being a twin of k: so do k and  *)
(* j.  Needs that verdicts are symmetric and that a server agrees with     *)
(* its twin.                                                               *)
LEMMA TwinAgrees ==
    ASSUME AllInv, TwinsMustMeet, NEW g \in DOMAIN clusters,
           NEW m \in DOMAIN clusters[g], NEW l \in DOMAIN clusters[g],
           NEW k \in Places, lineup[k] = lineup[clusters[g][m]]
    PROVE  VerdictOnWhatWasSaid(k, clusters[g][l]) = "OK"
<1> DEFINE i == clusters[g][m]
           j == clusters[g][l]
<1>1. PtsInv /\ SeatsInv /\ ClusterAgrees /\ NobodyJoins
  BY DEF AllInv, TwinsMustMeet
<1>2. i \in Places /\ j \in Places
  BY <1>1, MembersArePlaces
<1>3. AllValid(i) /\ AllValid(j)
  BY <1>2 DEF TwinsMustMeet
<1>4. /\ VerdictOnWhatWasSaid(k, j) = VerdictOnWhatWasSaid(i, j)
      /\ j = i => VerdictOnWhatWasSaid(k, j) = VerdictOnWhatWasSaid(i, i)
  BY Zenon DEF VerdictOnWhatWasSaid, Said, Quirks
<1>5. CASE l = m
  <2>1. Said(i) \in Seq(Parsed) /\ \A p \in DOMAIN Said(i) : ~Invalid(Said(i)[p])
    BY <1>1, <1>2, <1>3, LineupShape DEF PtsInv, AllValid
  <2>2. VerdictOnWhatWasSaid(i, i) = "OK"
    BY <2>1, VerdictReflexive DEF VerdictOnWhatWasSaid
  <2> QED
    BY <1>4, <1>5, <2>2
<1>6. m \in Nat /\ l \in Nat
  <2>1. DOMAIN clusters[g] = 1 .. Len(clusters[g]) /\ Len(clusters[g]) \in Nat
    BY <1>1, ClustersShape DEF SeatsInv, Clusters
  <2> QED
    BY <2>1
<1>7. CASE l < m
  <2>1. VerdictOnWhatWasSaid(i, j) = "OK"
    BY <1>1, <1>3, <1>7 DEF ClusterAgrees
  <2> QED
    BY <1>4, <2>1
<1>8. CASE m < l
  <2>1. VerdictOnWhatWasSaid(j, i) = "OK"
    BY <1>1, <1>3, <1>8 DEF ClusterAgrees
  <2>2. Quirks(i).allows09 = Quirks(j).allows09
    BY <1>2 DEF TwinsMustMeet
  <2>3. SymmetricVerdict(Said(i), Said(j), Quirks(i), Quirks(j))
    BY VerdictsAreSymmetric
  <2>4. VerdictOnWhatWasSaid(i, j) = VerdictOnWhatWasSaid(j, i)
    BY <2>2, <2>3, Zenon DEF SymmetricVerdict, VerdictOnWhatWasSaid
  <2> QED
    BY <1>4, <2>1, <2>4
<1> QED
  BY <1>5, <1>6, <1>7, <1>8

(* Servers with the same quirks and the same answer share a cluster.       *)
THEOREM TwinsMeet == Spec => []TwinsShareACluster
<1>1. AllInv => TwinsShareACluster
  <2> SUFFICES ASSUME AllInv, TwinsMustMeet, Finished, command = "cluster",
                      NEW i \in Places, NEW j \in Places, lineup[i] = lineup[j]
               PROVE  \E g \in DOMAIN clusters : {i, j} \subseteq ToSet(clusters[g])
    BY DEF TwinsShareACluster, TwinsMustMeet
  <2>1. PtsInv /\ SeatsInv /\ KeptOutInv
    BY DEF AllInv
  <2>2. Len(lineup) \in Nat /\ Places = 1 .. Len(lineup)
    BY <2>1, LineupShape DEF PtsInv
  <2>3. search.server \in 1 .. Len(lineup) + 1 /\ search.server \notin Places
    BY <2>1 DEF SeatsInv, Finished
  <2>4. \A n \in Places : n \in 1 .. search.server - 1
    BY <2>2, <2>3
  <2>5. \A n \in Places : \E g \in DOMAIN clusters : \E m \in DOMAIN clusters[g] : clusters[g][m] = n
    BY <2>1, <2>4 DEF SeatsInv
  <2>6. PICK g \in DOMAIN clusters : \E m \in DOMAIN clusters[g] : clusters[g][m] = i
    BY <2>5
  <2>7. PICK m \in DOMAIN clusters[g] : clusters[g][m] = i
    BY <2>6
  <2>8. PICK f \in DOMAIN clusters : \E l \in DOMAIN clusters[f] : clusters[f][l] = j
    BY <2>5
  <2>9. PICK l \in DOMAIN clusters[f] : clusters[f][l] = j
    BY <2>8
  <2>10. g \in Nat \ {0} /\ f \in Nat \ {0}
    <3>1. Len(clusters) \in Nat /\ DOMAIN clusters = 1 .. Len(clusters)
      BY <2>1, ClustersShape DEF SeatsInv, Clusters
    <3> QED
      BY <3>1
  <2>11. ~(g < f)
    <3> SUFFICES ASSUME g < f PROVE FALSE
      OBVIOUS
    <3>1. g \in 1 .. f - 1
      BY <2>10
    <3>2. Disagrees(j, clusters[g])
      BY <2>1, <2>9, <3>1 DEF KeptOutInv
    <3>3. PICK k \in DOMAIN clusters[g] : VerdictOnWhatWasSaid(j, clusters[g][k]) # "OK"
      BY <3>2 DEF Disagrees
    <3> QED
      BY <2>7, <3>3, TwinAgrees
  <2>12. ~(f < g)
    <3> SUFFICES ASSUME f < g PROVE FALSE
      OBVIOUS
    <3>1. f \in 1 .. g - 1
      BY <2>10
    <3>2. Disagrees(i, clusters[f])
      BY <2>1, <2>7, <3>1 DEF KeptOutInv
    <3>3. PICK k \in DOMAIN clusters[f] : VerdictOnWhatWasSaid(i, clusters[f][k]) # "OK"
      BY <3>2 DEF Disagrees
    <3> QED
      BY <2>9, <3>3, TwinAgrees
  <2>13. f = g
    BY <2>10, <2>11, <2>12
  <2>14. i \in ToSet(clusters[g]) /\ j \in ToSet(clusters[g])
    BY <2>7, <2>9, <2>13 DEF ToSet
  <2> QED
    BY <2>14
<1> QED
  BY <1>1, GridInvariance, PTL
=============================================================================
