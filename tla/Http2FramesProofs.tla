------------------------- MODULE Http2FramesProofs --------------------------
(***************************************************************************)
(* Frames written and read again, for any frames and wherever the octets   *)
(* are cut off.  From the bottom: flags and words; a generic frame and     *)
(* what the parser finds at the front of the octets; each type of frame    *)
(* from typed to generic and back, and from generic to typed; the machine, *)
(* whose parser is always between two of the frames that were built.       *)
(***************************************************************************)
EXTENDS Http2Frames, InductionLemmas

-----------------------------------------------------------------------------
(* Flags and words.                                                        *)
LEMMA FlagsAre ==
    ASSUME NEW flags \in SUBSET (0..7)
    PROVE  FlagsOctet(flags) \in Octet /\ FlagsOf(FlagsOctet(flags)) = flags
<1> DEFINE b(i) == IF i \in flags THEN 1 ELSE 0
           o == FlagsOctet(flags)
<1>1. o = 128 * b(7) + 64 * b(6) + 32 * b(5) + 16 * b(4) + 8 * b(3) + 4 * b(2) + 2 * b(1) + b(0)
  BY DEF FlagsOctet
<1>2. \A i \in 0..7 : b(i) \in {0, 1} /\ (b(i) = 1 <=> i \in flags)
  OBVIOUS
<1>3. /\ b(0) \in {0, 1} /\ b(1) \in {0, 1} /\ b(2) \in {0, 1} /\ b(3) \in {0, 1}
      /\ b(4) \in {0, 1} /\ b(5) \in {0, 1} /\ b(6) \in {0, 1} /\ b(7) \in {0, 1}
  OBVIOUS
<1> DEFINE b0 == b(0)
           b1 == b(1)
           b2 == b(2)
           b3 == b(3)
           b4 == b(4)
           b5 == b(5)
           b6 == b(6)
           b7 == b(7)
<1>4. o = 128 * b7 + 64 * b6 + 32 * b5 + 16 * b4 + 8 * b3 + 4 * b2 + 2 * b1 + b0
  BY <1>1
<1>5. /\ b0 \in {0, 1} /\ b1 \in {0, 1} /\ b2 \in {0, 1} /\ b3 \in {0, 1}
      /\ b4 \in {0, 1} /\ b5 \in {0, 1} /\ b6 \in {0, 1} /\ b7 \in {0, 1}
  BY <1>3
<1> HIDE DEF o, b0, b1, b2, b3, b4, b5, b6, b7
<1>6. o \in 0..255
  BY <1>4, <1>5
<1>7. (o \div 1) % 2 = b0 /\ (o \div 2) % 2 = b1
  BY <1>4, <1>5
<1>8. (o \div 4) % 2 = b2 /\ (o \div 8) % 2 = b3
  BY <1>4, <1>5
<1>9. (o \div 16) % 2 = b4 /\ (o \div 32) % 2 = b5
  BY <1>4, <1>5
<1>10. (o \div 64) % 2 = b6 /\ (o \div 128) % 2 = b7
  BY <1>4, <1>5
<1> DEFINE bit(i) == (o \div 2^i) % 2
<1>11. /\ 2^0 = 1 /\ 2^1 = 2 /\ 2^2 = 4 /\ 2^3 = 8
       /\ 2^4 = 16 /\ 2^5 = 32 /\ 2^6 = 64 /\ 2^7 = 128
  OBVIOUS
<1>12. bit(0) = b(0) /\ bit(1) = b(1) /\ bit(2) = b(2) /\ bit(3) = b(3)
  BY <1>7, <1>8, <1>11 DEF b0, b1, b2, b3
<1>13. bit(4) = b(4) /\ bit(5) = b(5) /\ bit(6) = b(6) /\ bit(7) = b(7)
  BY <1>9, <1>10, <1>11 DEF b4, b5, b6, b7
<1>14. FlagsOf(o) = {i \in 0..7 : bit(i) = 1}
  BY DEF FlagsOf
<1> HIDE DEF bit
<1>15. ASSUME NEW i \in 0..7
       PROVE  bit(i) = b(i)
  <2>1. i = 0 \/ i = 1 \/ i = 2 \/ i = 3 \/ i = 4 \/ i = 5 \/ i = 6 \/ i = 7
    OBVIOUS
  <2> HIDE DEF b
  <2> QED
    BY <1>12, <1>13, <2>1
<1>16. FlagsOf(o) = flags
  <2> HIDE DEF b
  <2> QED
    BY <1>2, <1>14, <1>15
<1> QED
  BY <1>6, <1>16 DEF o, Octet

LEMMA OctetIs ==
    ASSUME NEW o \in Octet
    PROVE  o \in Nat /\ o <= 255
BY DEF Octet

LEMMA WordIs ==
    ASSUME NEW w
    PROVE  /\ w \in Word <=> w \in Seq(Octet) /\ Len(w) = 4
           /\ w \in StreamId <=> w \in Seq(Octet) /\ Len(w) = 4 /\ w[1] < 128
BY DEF Word, StreamId, OctetsOf

LEMMA Changed ==
    ASSUME NEW S, NEW w \in Seq(S), NEW i \in 1..Len(w), NEW e \in S
    PROVE  /\ [w EXCEPT ![i] = e] \in Seq(S) /\ Len([w EXCEPT ![i] = e]) = Len(w)
           /\ \A j \in 1..Len(w) : [w EXCEPT ![i] = e][j] = IF j = i THEN e ELSE w[j]
BY ExceptSeq

(* The top bit comes and goes, and leaves the rest of the word.            *)
LEMMA TopOf ==
    ASSUME NEW w \in StreamId, NEW b \in BOOLEAN
    PROVE  /\ WithTop(b, w) \in Word
           /\ Top(WithTop(b, w)) = b /\ Low(WithTop(b, w)) = w
           /\ Low(w) = w
<1> DEFINE x == w[1]
           y == x + 128
           u == [w EXCEPT ![1] = y]
<1>1. w \in Seq(Octet) /\ Len(w) = 4 /\ x < 128 /\ x = w[1] /\ w \in Word
  BY WordIs
<1>2. x \in Octet
  <2> HIDE DEF x
  <2> QED
    BY <1>1
<1>3. u = [w EXCEPT ![1] = y] /\ y = x + 128
  OBVIOUS
<1> HIDE DEF x, y, u
<1>4. x \in Nat /\ x <= 255
  BY <1>2, OctetIs
<1>5. y \in Octet /\ y % 128 = x /\ x % 128 = x /\ y >= 128
  <2>1. x < 128 /\ y = x + 128
    BY <1>1, <1>3
  <2>2. y \in 0..255 /\ y >= 128
    BY <1>4, <2>1
  <2>3. y % 128 = x /\ x % 128 = x
    BY <1>4, <2>1
  <2> QED
    BY <2>2, <2>3 DEF Octet
<1>6. u \in Seq(Octet) /\ Len(u) = 4 /\ u[1] = y /\ u \in Word
  <2>1. u \in Seq(Octet) /\ Len(u) = 4 /\ u[1] = y
    BY <1>1, <1>3, <1>5
  <2> QED
    BY <2>1, WordIs
<1>7. [u EXCEPT ![1] = x] = w /\ [w EXCEPT ![1] = x] = w
  <2>1. \A i \in 1..Len(w) : w[i] \in Octet
    BY <1>1, ElementOfSeq
  <2> DEFINE v == [u EXCEPT ![1] = x]
             z == [w EXCEPT ![1] = x]
  <2>2. /\ v \in Seq(Octet) /\ Len(v) = 4 /\ z \in Seq(Octet) /\ Len(z) = 4
        /\ \A i \in 1..4 : v[i] = IF i = 1 THEN x ELSE u[i]
        /\ \A i \in 1..4 : z[i] = IF i = 1 THEN x ELSE w[i]
    <3>1. 1 \in 1..Len(w) /\ 1 \in 1..Len(u) /\ w \in Seq(Octet) /\ u \in Seq(Octet)
      BY <1>1, <1>6
    <3>2. /\ v \in Seq(Octet) /\ Len(v) = Len(u)
          /\ \A i \in 1..Len(u) : v[i] = IF i = 1 THEN x ELSE u[i]
      BY <1>2, <3>1, Changed
    <3>3. /\ z \in Seq(Octet) /\ Len(z) = Len(w)
          /\ \A i \in 1..Len(w) : z[i] = IF i = 1 THEN x ELSE w[i]
      BY <1>2, <3>1, Changed
    <3> HIDE DEF v, z
    <3> QED
      BY <1>1, <1>6, <3>2, <3>3
  <2>3. \A i \in 1..4 : i # 1 => u[i] = w[i]
    BY <1>1, <1>3, <1>5
  <2> HIDE DEF v, z
  <2>4. v = w
    <3>1. \A i \in 1..Len(v) : v[i] = w[i]
      BY <1>1, <2>2, <2>3
    <3>2. v \in Seq(Octet) /\ w \in Seq(Octet) /\ Len(v) = Len(w)
      BY <1>1, <2>2
    <3> QED
      BY <3>1, <3>2, SeqEqual
  <2>5. z = w
    <3>1. \A i \in 1..Len(z) : z[i] = w[i]
      BY <1>1, <2>2
    <3>2. z \in Seq(Octet) /\ w \in Seq(Octet) /\ Len(z) = Len(w)
      BY <1>1, <2>2
    <3> QED
      BY <3>1, <3>2, SeqEqual
  <2> QED
    BY <2>4, <2>5 DEF v, z
<1>8. Low(w) = w
  <2>1. Low(w) = [w EXCEPT ![1] = w[1] % 128]
    BY DEF Low
  <2> QED
    BY <1>1, <1>5, <1>7, <2>1
<1>9. Low(u) = w
  <2>1. Low(u) = [u EXCEPT ![1] = u[1] % 128]
    BY DEF Low
  <2> QED
    BY <1>5, <1>6, <1>7, <2>1
<1> HIDE DEF x
<1>10. CASE b
  <2>1. WithTop(b, w) = u
    BY <1>1, <1>3, <1>10 DEF WithTop
  <2>2. Top(u)
    BY <1>5, <1>6 DEF Top
  <2> QED
    BY <1>6, <1>8, <1>9, <1>10, <2>1, <2>2, Zenon
<1>11. CASE ~b
  <2>1. WithTop(b, w) = w
    BY <1>11 DEF WithTop
  <2>2. Top(w) = FALSE /\ b = FALSE
    BY <1>1, <1>4, <1>11 DEF Top
  <2> QED
    BY <1>1, <1>8, <2>1, <2>2
<1> QED
  BY <1>10, <1>11, Zenon

(* Any word without its top bit is a stream identifier.                    *)
LEMMA LowIs ==
    ASSUME NEW w \in Seq(Octet), Len(w) = 4
    PROVE  Low(w) \in StreamId /\ Top(w) \in BOOLEAN
<1> DEFINE x == w[1]
           y == x % 128
           u == [w EXCEPT ![1] = y]
<1>1. x \in Octet
  OBVIOUS
<1>2. Low(w) = u
  BY DEF Low
<1> HIDE DEF x
<1>3. y \in Octet /\ y < 128
  <2>1. x \in Nat /\ x <= 255
    BY <1>1, OctetIs
  <2> QED
    BY <2>1 DEF Octet
<1> HIDE DEF y
<1>4. u \in Seq(Octet) /\ Len(u) = 4 /\ u[1] = y
  <2>1. 1 \in 1..Len(w)
    OBVIOUS
  <2>2. u \in Seq(Octet) /\ Len(u) = Len(w) /\ u[1] = y
    BY <1>3, <2>1, Changed
  <2> QED
    BY <2>2
<1> HIDE DEF u
<1>5. u \in StreamId
  BY <1>3, <1>4, WordIs
<1> QED
  BY <1>2, <1>5 DEF Top

-----------------------------------------------------------------------------
(* A generic frame written, and read at the front of some octets.          *)
LEMMA GenericIs ==
    ASSUME NEW g \in GenericFrame
    PROVE  /\ g.typ \in Octet /\ g.flags \in SUBSET (0..7) /\ g.reserved \in BOOLEAN
           /\ g.stream_id \in StreamId /\ g.payload \in Seq(Octet) /\ Len(g.payload) < 2^24
           /\ Len(g.payload) \in Nat
           /\ g = Generic(g.typ, g.flags, g.reserved, g.stream_id, g.payload)
<1>1. g.payload \in Payload
  BY DEF GenericFrame
<1>2. g.payload \in Seq(Octet) /\ Len(g.payload) < 2^24
  BY <1>1 DEF Payload
<1> QED
  BY <1>2 DEF GenericFrame, Generic

LEMMA BytesAre ==
    ASSUME NEW g \in GenericFrame
    PROVE  LET w == ToBytes(g)
               n == Len(g.payload)
           IN  /\ w \in Seq(Octet) /\ Len(w) = 9 + n
               /\ PayloadLength(w) = n
               /\ w[4] = g.typ /\ w[5] = FlagsOctet(g.flags)
               /\ \A i \in 1..4 : w[5 + i] = WithTop(g.reserved, g.stream_id)[i]
               /\ \A i \in 1..n : w[9 + i] = g.payload[i]
<1> DEFINE n == Len(g.payload)
           p == g.payload
           h == <<n \div 65536, (n \div 256) % 256, n % 256, g.typ, FlagsOctet(g.flags)>>
           s == WithTop(g.reserved, g.stream_id)
           w == (h \o s) \o p
<1>1. p \in Seq(Octet) /\ n \in Nat /\ n < 2^24 /\ g.typ \in Octet /\ Len(p) = n
  BY GenericIs
<1>2. FlagsOctet(g.flags) \in Octet
  BY GenericIs, FlagsAre
<1>3. s \in Seq(Octet) /\ Len(s) = 4
  BY GenericIs, TopOf, WordIs
<1> DEFINE h1 == n \div 65536
           h2 == (n \div 256) % 256
           h3 == n % 256
           h5 == FlagsOctet(g.flags)
<1>4. h1 \in Octet /\ h2 \in Octet /\ h3 \in Octet /\ h1 * 65536 + h2 * 256 + h3 = n
  <2> HIDE DEF n
  <2>1. n < 65536 * 256 /\ n \in Nat
    BY <1>1, SMT
  <2>2. h1 \in 0..255
    BY <2>1, SMT
  <2>3. h2 \in 0..255 /\ h3 \in 0..255
    BY <2>1, SMT
  <2>4. h1 * 65536 + h2 * 256 + h3 = n
    BY <2>1, SMT
  <2> QED
    BY <2>2, <2>3, <2>4, SMT DEF Octet
<1>5. h = <<h1, h2, h3, g.typ, h5>>
  OBVIOUS
<1>6. ToBytes(g) = w
  BY DEF ToBytes
<1> HIDE DEF p, s, h1, h2, h3, h5, h, n, w
<1>7. /\ h \in Seq(Octet) /\ Len(h) = 5
      /\ h[1] = h1 /\ h[2] = h2 /\ h[3] = h3 /\ h[4] = g.typ /\ h[5] = h5
  BY <1>1, <1>2, <1>4, <1>5 DEF h5
<1>8. /\ h \o s \in Seq(Octet) /\ Len(h \o s) = 9
      /\ \A i \in 1..5 : (h \o s)[i] = h[i]
      /\ \A i \in 1..4 : (h \o s)[5 + i] = s[i]
  <2> DEFINE t == h \o s
  <2>1. /\ t \in Seq(Octet) /\ Len(t) = Len(h) + Len(s)
        /\ \A i \in 1..Len(h) : t[i] = h[i]
        /\ \A i \in 1..Len(s) : t[Len(h) + i] = s[i]
    <3>1. h \in Seq(Octet) /\ s \in Seq(Octet)
      BY <1>3, <1>7
    <3> QED
      BY <3>1, JoinedIs
  <2> HIDE DEF t
  <2>2. t \in Seq(Octet) /\ Len(t) = 9 /\ (\A i \in 1..5 : t[i] = h[i]) /\ \A i \in 1..4 : t[5 + i] = s[i]
    BY <1>3, <1>7, <2>1
  <2> QED
    BY <2>2 DEF t
<1> DEFINE hs == h \o s
<1> HIDE DEF hs
<1>9. /\ w \in Seq(Octet) /\ Len(w) = 9 + n
      /\ \A i \in 1..9 : w[i] = hs[i]
      /\ \A i \in 1..n : w[9 + i] = p[i]
  <2>1. hs \in Seq(Octet) /\ Len(hs) = 9 /\ w = hs \o p
    BY <1>8 DEF hs, w
  <2> DEFINE q == hs \o p
  <2>2. /\ q \in Seq(Octet) /\ Len(q) = Len(hs) + Len(p)
        /\ \A i \in 1..Len(hs) : q[i] = hs[i]
        /\ \A i \in 1..Len(p) : q[Len(hs) + i] = p[i]
    <3>1. hs \in Seq(Octet) /\ p \in Seq(Octet)
      BY <1>1, <2>1 DEF p
    <3> QED
      BY <3>1, JoinedIs
  <2>3. w = q
    BY <2>1
  <2>4. Len(p) = n
    BY DEF n, p
  <2> HIDE DEF q
  <2> QED
    BY <1>1, <2>1, <2>2, <2>3, <2>4
<1>10. \A i \in 1..5 : w[i] = h[i]
  <2>1. \A i \in 1..5 : i \in 1..9
    OBVIOUS
  <2> QED
    BY <1>8, <1>9, <2>1 DEF hs
<1>11. \A i \in 1..4 : w[5 + i] = s[i]
  <2>1. \A i \in 1..4 : 5 + i \in 1..9
    OBVIOUS
  <2> QED
    BY <1>8, <1>9, <2>1 DEF hs
<1>12. w[1] = h1 /\ w[2] = h2 /\ w[3] = h3 /\ w[4] = g.typ /\ w[5] = h5
  BY <1>7, <1>10
<1>13. PayloadLength(w) = n
  BY <1>4, <1>12, SMT DEF PayloadLength
<1> QED
  BY <1>6, <1>9, <1>11, <1>12, <1>13 DEF n, p, s, h5

(* H2GenericFrame.parse undoes to_bytes (http2.py:277-303): a frame that   *)
(* is there is read back, whatever follows it, and a part of one is none.  *)
THEOREM GenericComesBack ==
    ASSUME NEW g \in GenericFrame, NEW r \in Seq(Octet), Len(ToBytes(g)) <= Len(r),
           \A i \in 1..Len(ToBytes(g)) : r[i] = ToBytes(g)[i]
    PROVE  FrameIsThere(r) /\ Parsed(r) = g
<1> DEFINE n == Len(g.payload)
           w == ToBytes(g)
           s == WithTop(g.reserved, g.stream_id)
<1>1. /\ w \in Seq(Octet) /\ Len(w) = 9 + n /\ PayloadLength(w) = n
      /\ w[4] = g.typ /\ w[5] = FlagsOctet(g.flags)
      /\ \A i \in 1..4 : w[5 + i] = s[i]
      /\ \A i \in 1..n : w[9 + i] = g.payload[i]
  BY BytesAre
<1>2. g.payload \in Seq(Octet) /\ n \in Nat /\ Len(g.payload) = n
  BY GenericIs
<1>3. s \in Seq(Octet) /\ Len(s) = 4
  BY GenericIs, TopOf, WordIs
<1>4. Len(w) <= Len(r) /\ \A i \in 1..Len(w) : r[i] = w[i]
  OBVIOUS
<1> HIDE DEF w, n, s
<1>5. /\ r[1] = w[1] /\ r[2] = w[2] /\ r[3] = w[3] /\ r[4] = w[4] /\ r[5] = w[5]
      /\ \A i \in 1..4 : r[5 + i] = w[5 + i]
      /\ \A i \in 1..n : r[9 + i] = w[9 + i]
  BY <1>1, <1>2, <1>4
<1>6. PayloadLength(r) = n
  BY <1>1, <1>5, SMT DEF PayloadLength
<1>7. Len(r) \in Nat /\ Len(r) >= 9 + n
  BY <1>1, <1>2, <1>4
<1>8. FrameIsThere(r)
  BY <1>2, <1>6, <1>7 DEF FrameIsThere
<1>9. SubSeq(r, 6, 9) = s
  <2> DEFINE u == SubSeq(r, 5 + 1, 9)
  <2>1. u \in Seq(Octet) /\ Len(u) = 4 /\ \A i \in 1..4 : u[i] = r[5 + i]
    <3>1. u \in Seq(Octet) /\ Len(u) = 9 - 5 /\ \A i \in 1..(9 - 5) : u[i] = r[5 + i]
      BY <1>2, <1>7, PieceIs
    <3> HIDE DEF u
    <3> QED
      BY <3>1
  <2>2. u = SubSeq(r, 6, 9)
    OBVIOUS
  <2> HIDE DEF u
  <2>3. \A i \in 1..Len(u) : u[i] = s[i]
    BY <1>1, <1>5, <2>1
  <2> QED
    BY <1>3, <2>1, <2>2, <2>3, SeqEqual
<1>10. Islice(r, 10, 9 + n) = g.payload
  <2> DEFINE to == 9 + n
             u == SubSeq(r, 9 + 1, to)
  <2>1. to \in Nat /\ 9 <= to /\ to <= Len(r) /\ to - 9 = n
    BY <1>2, <1>7
  <2>2. Islice(r, 10, to) = u
    BY <2>1 DEF Islice
  <2> HIDE DEF to
  <2>3. u \in Seq(Octet) /\ Len(u) = to - 9 /\ \A i \in 1..(to - 9) : u[i] = r[9 + i]
    BY <2>1, PieceIs
  <2> HIDE DEF u
  <2>4. \A i \in 1..n : u[i] = r[9 + i] /\ r[9 + i] = w[9 + i] /\ w[9 + i] = g.payload[i]
    BY <1>1, <1>5, <2>1, <2>3
  <2>5. u = g.payload
    <3>1. Len(u) = n /\ \A i \in 1..Len(u) : u[i] = g.payload[i]
      BY <2>1, <2>3, <2>4
    <3> QED
      BY <1>2, <2>3, <3>1, SeqEqual
  <2> QED
    BY <2>2, <2>5 DEF to
<1>11. FlagsOf(r[5]) = g.flags
  BY <1>1, <1>5, GenericIs, FlagsAre
<1>12. Top(s) = g.reserved /\ Low(s) = g.stream_id
  BY GenericIs, TopOf DEF s
<1>13. Parsed(r) = Generic(g.typ, g.flags, g.reserved, g.stream_id, g.payload)
  BY <1>1, <1>5, <1>6, <1>9, <1>10, <1>11, <1>12 DEF Parsed
<1> QED
  BY <1>8, <1>13, GenericIs

LEMMA TornFrameRefused ==
    ASSUME NEW g \in GenericFrame, NEW r \in Seq(Octet), Len(r) < Len(ToBytes(g)),
           \A i \in 1..Len(r) : r[i] = ToBytes(g)[i]
    PROVE  ~FrameIsThere(r)
<1> SUFFICES ASSUME Len(r) >= 9, Len(r) >= 9 + PayloadLength(r) PROVE FALSE
  BY DEF FrameIsThere
<1> DEFINE w == ToBytes(g)
           n == Len(g.payload)
<1>1. Len(w) = 9 + n /\ PayloadLength(w) = n
  BY BytesAre
<1>2. n \in Nat
  BY GenericIs
<1>3. Len(r) < Len(w) /\ \A i \in 1..Len(r) : r[i] = w[i]
  OBVIOUS
<1> HIDE DEF w, n
<1>4. r[1] = w[1] /\ r[2] = w[2] /\ r[3] = w[3]
  BY <1>3
<1>5. PayloadLength(r) = n
  BY <1>1, <1>4, SMT DEF PayloadLength
<1> QED
  BY <1>1, <1>2, <1>3, <1>5

-----------------------------------------------------------------------------
(* Which of the ten functions stands for a type.                           *)
LEMMA TypedIs ==
    ASSUME NEW g
    PROVE  /\ g.typ = DATA => Typed(g) = DataFrame(g)
           /\ g.typ = HEADERS => Typed(g) = HeadersFrame(g)
           /\ g.typ = PRIORITY => Typed(g) = PriorityFrame(g)
           /\ g.typ = RST_STREAM => Typed(g) = RstStreamFrame(g)
           /\ g.typ = SETTINGS => Typed(g) = SettingsFrame(g)
           /\ g.typ = PUSH_PROMISE => Typed(g) = PushPromiseFrame(g)
           /\ g.typ = PING => Typed(g) = PingFrame(g)
           /\ g.typ = GOAWAY => Typed(g) = GoAwayFrame(g)
           /\ g.typ = WINDOW_UPDATE => Typed(g) = WindowUpdateFrame(g)
           /\ g.typ = CONTINUATION => Typed(g) = ContinuationFrame(g)
BY DEF Typed, DATA, HEADERS, PRIORITY, RST_STREAM, SETTINGS, PUSH_PROMISE, PING, GOAWAY,
       WINDOW_UPDATE, CONTINUATION

LEMMA ToGenericIs ==
    ASSUME NEW t
    PROVE  /\ t.typ = DATA => TypedToGeneric(t) = DataToGeneric(t)
           /\ t.typ = HEADERS => TypedToGeneric(t) = HeadersToGeneric(t)
           /\ t.typ = PRIORITY => TypedToGeneric(t) = PriorityToGeneric(t)
           /\ t.typ = RST_STREAM => TypedToGeneric(t) = RstStreamToGeneric(t)
           /\ t.typ = SETTINGS => TypedToGeneric(t) = SettingsToGeneric(t)
           /\ t.typ = PUSH_PROMISE => TypedToGeneric(t) = PushPromiseToGeneric(t)
           /\ t.typ = PING => TypedToGeneric(t) = PingToGeneric(t)
           /\ t.typ = GOAWAY => TypedToGeneric(t) = GoAwayToGeneric(t)
           /\ t.typ = WINDOW_UPDATE => TypedToGeneric(t) = WindowUpdateToGeneric(t)
           /\ t.typ = CONTINUATION => TypedToGeneric(t) = ContinuationToGeneric(t)
BY DEF TypedToGeneric, DATA, HEADERS, PRIORITY, RST_STREAM, SETTINGS, PUSH_PROMISE, PING, GOAWAY,
       WINDOW_UPDATE, CONTINUATION

LEMMA GenericMade ==
    ASSUME NEW typ \in Octet, NEW flags \in SUBSET (0..7), NEW reserved \in BOOLEAN,
           NEW id \in StreamId, NEW payload \in Payload
    PROVE  Generic(typ, flags, reserved, id, payload) \in GenericFrame
BY DEF Generic, GenericFrame

(* t, written and read, is u.                                              *)
Returns(t, u) ==
    LET g == TypedToGeneric(t)
    IN  g \in GenericFrame /\ IsValid(g) /\ ~Overpadded(g) /\ Typed(g) = u

(* The types that are read back at once.                                   *)
LEMMA NoWordIs == NoWord \in StreamId
<1>1. 0 \in Octet
  BY DEF Octet
<1>2. NoWord \in Seq(Octet) /\ Len(NoWord) = 4 /\ NoWord[1] < 128
  BY <1>1 DEF NoWord
<1> QED
  BY <1>2, WordIs

(* What stands in the middle of some octets is found there.                *)
LEMMA CutOut ==
    ASSUME NEW S, NEW q \in Seq(S), NEW o \in Seq(S), NEW m \in Nat,
           m + Len(o) <= Len(q), \A i \in 1..Len(o) : q[m + i] = o[i]
    PROVE  SubSeq(q, m + 1, m + Len(o)) = o
<1> DEFINE n == m + Len(o)
           u == SubSeq(q, m + 1, n)
<1>1. n \in Nat /\ m <= n /\ n <= Len(q) /\ n - m = Len(o)
  OBVIOUS
<1> HIDE DEF n
<1>2. u \in Seq(S) /\ Len(u) = n - m /\ \A i \in 1..(n - m) : u[i] = q[m + i]
  BY <1>1, PieceIs
<1> HIDE DEF u
<1>3. Len(u) = Len(o) /\ \A i \in 1..Len(u) : u[i] = o[i]
  BY <1>1, <1>2
<1>4. u = o
  BY <1>2, <1>3, SeqEqual
<1> QED
  BY <1>4 DEF u, n

LEMMA PresentIs ==
    ASSUME NEW S, NEW o
    PROVE  /\ o \in Present(S) => o \in Seq(S) /\ Len(o) = 1 /\ o[1] \in S /\ o = <<o[1]>>
           /\ o \in Optional(S) => o = <<>> \/ o \in Present(S)
           /\ <<>> \in Optional(S) /\ Present(S) \subseteq Optional(S)
           /\ <<>> \notin Present(S)
           /\ o \in S => <<o>> \in Present(S)
<1>1. ASSUME o \in Present(S)
      PROVE  o \in Seq(S) /\ Len(o) = 1 /\ o[1] \in S /\ o = <<o[1]>>
  <2>1. o \in Seq(S) /\ Len(o) = 1
    BY <1>1 DEF Present
  <2>2. o[1] \in S
    <3>1. 1 \in 1..Len(o)
      BY <2>1
    <3> QED
      BY <2>1, <3>1, ElementOfSeq
  <2> DEFINE x == o[1]
             u == <<x>>
  <2>3. u \in Seq(S) /\ Len(u) = 1 /\ u[1] = x
    BY <2>2
  <2>4. \A i \in 1..Len(o) : o[i] = u[i]
    BY <2>1, <2>3
  <2> HIDE DEF u
  <2>5. o = u
    BY <2>1, <2>3, <2>4, SeqEqual
  <2> QED
    BY <2>1, <2>2, <2>5 DEF u
<1>2. ASSUME o \in Optional(S)
      PROVE  o = <<>> \/ o \in Present(S)
  <2>1. o \in Seq(S) /\ Len(o) <= 1
    BY <1>2 DEF Optional
  <2> DEFINE n == Len(o)
  <2>2. n \in Nat /\ n <= 1
    BY <2>1
  <2> HIDE DEF n
  <2>3. n = 0 \/ n = 1
    BY <2>2
  <2> QED
    BY <2>1, <2>3 DEF Present, n
<1>3. <<>> \in Seq(S) /\ Len(<<>>) = 0
  OBVIOUS
<1>4. <<>> \in Optional(S) /\ <<>> \notin Present(S)
  BY <1>3 DEF Optional, Present
<1>5. ASSUME NEW x \in Present(S)
      PROVE  x \in Optional(S)
  <2>1. x \in Seq(S) /\ Len(x) = 1
    BY DEF Present
  <2>2. Len(x) <= 1
    BY <2>1
  <2> QED
    BY <2>1, <2>2 DEF Optional
<1>6. o \in S => <<o>> \in Present(S)
  BY DEF Present
<1> QED
  BY <1>1, <1>2, <1>4, <1>5, <1>6

(* The five octets of a priority.                                          *)
LEMMA PriorityWritten ==
    ASSUME NEW e \in Present(BOOLEAN), NEW d \in Present(StreamId), NEW w \in Present(Octet)
    PROVE  LET o == WithTop(e[1], d[1]) \o w
           IN  /\ o \in Seq(Octet) /\ Len(o) = 5
               /\ PriorityOf(o) = [exclusive |-> e, stream_dependency |-> d, weight |-> w]
<1> DEFINE s == WithTop(e[1], d[1])
           o == s \o w
<1>1. /\ e[1] \in BOOLEAN /\ e = <<e[1]>> /\ d[1] \in StreamId /\ d = <<d[1]>>
      /\ w \in Seq(Octet) /\ Len(w) = 1 /\ w[1] \in Octet /\ w = <<w[1]>>
  BY PresentIs
<1>2. /\ s \in Word /\ Top(s) = e[1] /\ Low(s) = d[1]
  BY <1>1, TopOf
<1>3. s \in Seq(Octet) /\ Len(s) = 4
  BY <1>2, WordIs
<1> HIDE DEF s
<1>4. /\ o \in Seq(Octet) /\ Len(o) = 5 /\ o[5] = w[1]
      /\ \A i \in 1..4 : o[i] = s[i]
  <2>1. /\ o \in Seq(Octet) /\ Len(o) = Len(s) + Len(w)
        /\ \A i \in 1..Len(s) : o[i] = s[i]
        /\ \A i \in 1..Len(w) : o[Len(s) + i] = w[i]
    <3>1. s \in Seq(Octet) /\ w \in Seq(Octet)
      BY <1>1, <1>3
    <3> QED
      BY <3>1, JoinedIs
  <2> HIDE DEF o
  <2> QED
    BY <1>1, <1>3, <2>1
<1> HIDE DEF o
<1>5. SubSeq(o, 1, 4) = s
  <2>1. 0 + Len(s) <= Len(o) /\ \A i \in 1..Len(s) : o[0 + i] = s[i]
    BY <1>3, <1>4
  <2>2. SubSeq(o, 0 + 1, 0 + Len(s)) = s
    BY <1>3, <1>4, <2>1, CutOut
  <2> QED
    BY <1>3, <2>2
<1>6. Top(o) = e[1]
  BY <1>2, <1>4 DEF Top
<1> QED
  BY <1>1, <1>2, <1>4, <1>5, <1>6 DEF PriorityOf, o, s

LEMMA PriorityRead ==
    ASSUME NEW o \in Seq(Octet), Len(o) = 5
    PROVE  /\ PriorityOf(o).exclusive \in Present(BOOLEAN)
           /\ PriorityOf(o).stream_dependency \in Present(StreamId)
           /\ PriorityOf(o).weight \in Present(Octet)
<1> DEFINE s == SubSeq(o, 0 + 1, 4)
<1>1. s \in Seq(Octet) /\ Len(s) = 4
  <2>1. 0 \in Nat /\ 4 \in Nat /\ 0 <= 4 /\ 4 <= Len(o)
    OBVIOUS
  <2>2. Len(s) = 4 - 0 /\ s \in Seq(Octet)
    BY <2>1, PieceIs
  <2> HIDE DEF s
  <2> QED
    BY <2>2
<1>2. s = SubSeq(o, 1, 4)
  OBVIOUS
<1> HIDE DEF s
<1>3. Low(s) \in StreamId
  BY <1>1, LowIs
<1>4. Top(o) \in BOOLEAN /\ o[5] \in Octet
  BY DEF Top
<1> QED
  BY <1>2, <1>3, <1>4, PresentIs DEF PriorityOf

LEMMA PriorityReturns ==
    ASSUME NEW t \in PriorityFields, Constructible(t), TypedToGeneric(t).payload \in Payload
    PROVE  Returns(t, t)
<1> USE DEF PriorityFields
<1> DEFINE flags == {}
           octets == WithTop(t.exclusive[1], t.stream_dependency[1]) \o t.weight
           g == Generic(PRIORITY, flags, FALSE, t.stream_id, octets)
<1>1. TypedToGeneric(t) = g
  BY ToGenericIs DEF PriorityToGeneric, PriorityOctets
<1>2. flags \in SUBSET (0..7)
  BY DEF FlagIf, EndHeaders, EndStreamOrAck
<1> HIDE DEF flags
<1>3. /\ g.typ = PRIORITY /\ g.flags = flags /\ g.reserved = FALSE
      /\ g.stream_id = t.stream_id /\ g.payload = octets
  BY DEF Generic
<1>4. g \in GenericFrame
  <2>1. PRIORITY \in Octet
    BY DEF PRIORITY, Octet
  <2>2. octets \in Payload
    BY <1>1, <1>3
  <2>3. t.stream_id \in StreamId
    BY DEF PriorityFields
  <2> HIDE DEF octets
  <2> QED
    BY <1>2, <2>1, <2>2, <2>3, GenericMade
<1> HIDE DEF g
<1>5. /\ Len(octets) = 5
      /\ PriorityOf(octets) = [exclusive |-> t.exclusive, stream_dependency |-> t.stream_dependency,
                               weight |-> t.weight]
  <2>1. t.exclusive \in Present(BOOLEAN) /\ t.stream_dependency \in Present(StreamId) /\ t.weight \in Present(Octet)
    OBVIOUS
  <2> QED
    BY <2>1, PriorityWritten
<1> HIDE DEF octets
<1>6. Typed(g) = t
  <2>1. Typed(g) = PriorityFrame(g)
    BY <1>3, TypedIs
  <2> QED
    BY <1>3, <1>5, <2>1 DEF PriorityFrame
<1>7. ~Overpadded(g) /\ SizeFits(g) /\ g.typ \in DATA..CONTINUATION
  BY <1>3, <1>5 DEF Overpadded, HasPadding, SizeFits, Paddable, DATA, HEADERS, PRIORITY, RST_STREAM,
              SETTINGS, PUSH_PROMISE, PING, GOAWAY, WINDOW_UPDATE, CONTINUATION
<1>8. g.typ \in OnConnection => g.stream_id = NoWord
  BY <1>3 DEF OnConnection, SETTINGS, PING, GOAWAY, PRIORITY
<1> QED
  BY <1>1, <1>4, <1>6, <1>7, <1>8 DEF Returns, IsValid

LEMMA RstStreamReturns ==
    ASSUME NEW t \in RstStreamFields, Constructible(t), TypedToGeneric(t).payload \in Payload
    PROVE  Returns(t, t)
<1> USE DEF RstStreamFields
<1> DEFINE flags == {}
           octets == t.error_code
           g == Generic(RST_STREAM, flags, FALSE, t.stream_id, octets)
<1>1. TypedToGeneric(t) = g
  BY ToGenericIs DEF RstStreamToGeneric
<1>2. flags \in SUBSET (0..7)
  BY DEF FlagIf, EndHeaders, EndStreamOrAck
<1> HIDE DEF flags
<1>3. /\ g.typ = RST_STREAM /\ g.flags = flags /\ g.reserved = FALSE
      /\ g.stream_id = t.stream_id /\ g.payload = octets
  BY DEF Generic
<1>4. g \in GenericFrame
  <2>1. RST_STREAM \in Octet
    BY DEF RST_STREAM, Octet
  <2>2. octets \in Payload
    BY <1>1, <1>3
  <2>3. t.stream_id \in StreamId
    BY DEF RstStreamFields
  <2> HIDE DEF octets
  <2> QED
    BY <1>2, <2>1, <2>2, <2>3, GenericMade
<1> HIDE DEF g
<1>5. Len(octets) = 4
  BY WordIs
<1>6. Typed(g) = t
  <2>1. Typed(g) = RstStreamFrame(g)
    BY <1>3, TypedIs
  <2> QED
    BY <1>3, <2>1 DEF RstStreamFrame
<1>7. ~Overpadded(g) /\ SizeFits(g) /\ g.typ \in DATA..CONTINUATION
  BY <1>3, <1>5 DEF Overpadded, HasPadding, SizeFits, Paddable, DATA, HEADERS, PRIORITY, RST_STREAM,
              SETTINGS, PUSH_PROMISE, PING, GOAWAY, WINDOW_UPDATE, CONTINUATION
<1>8. g.typ \in OnConnection => g.stream_id = NoWord
  BY <1>3 DEF OnConnection, SETTINGS, PING, GOAWAY, RST_STREAM
<1> QED
  BY <1>1, <1>4, <1>6, <1>7, <1>8 DEF Returns, IsValid

LEMMA WindowUpdateReturns ==
    ASSUME NEW t \in WindowUpdateFields, Constructible(t), TypedToGeneric(t).payload \in Payload
    PROVE  Returns(t, t)
<1> USE DEF WindowUpdateFields
<1> DEFINE flags == {}
           octets == t.window_size_increment
           g == Generic(WINDOW_UPDATE, flags, FALSE, t.stream_id, octets)
<1>1. TypedToGeneric(t) = g
  BY ToGenericIs DEF WindowUpdateToGeneric
<1>2. flags \in SUBSET (0..7)
  BY DEF FlagIf, EndHeaders, EndStreamOrAck
<1> HIDE DEF flags
<1>3. /\ g.typ = WINDOW_UPDATE /\ g.flags = flags /\ g.reserved = FALSE
      /\ g.stream_id = t.stream_id /\ g.payload = octets
  BY DEF Generic
<1>4. g \in GenericFrame
  <2>1. WINDOW_UPDATE \in Octet
    BY DEF WINDOW_UPDATE, Octet
  <2>2. octets \in Payload
    BY <1>1, <1>3
  <2>3. t.stream_id \in StreamId
    BY DEF WindowUpdateFields
  <2> HIDE DEF octets
  <2> QED
    BY <1>2, <2>1, <2>2, <2>3, GenericMade
<1> HIDE DEF g
<1>5. Len(octets) = 4 /\ Low(octets) = t.window_size_increment
  <2>1. octets \in StreamId
    OBVIOUS
  <2> HIDE DEF octets
  <2>2. Len(octets) = 4 /\ Low(octets) = octets
    BY <2>1, WordIs, TopOf
  <2> QED
    BY <2>2 DEF octets
<1> HIDE DEF octets
<1>6. Typed(g) = t
  <2>1. Typed(g) = WindowUpdateFrame(g)
    BY <1>3, TypedIs
  <2> QED
    BY <1>3, <1>5, <2>1 DEF WindowUpdateFrame
<1>7. ~Overpadded(g) /\ SizeFits(g) /\ g.typ \in DATA..CONTINUATION
  BY <1>3, <1>5 DEF Overpadded, HasPadding, SizeFits, Paddable, DATA, HEADERS, PRIORITY, RST_STREAM,
              SETTINGS, PUSH_PROMISE, PING, GOAWAY, WINDOW_UPDATE, CONTINUATION
<1>8. g.typ \in OnConnection => g.stream_id = NoWord
  BY <1>3 DEF OnConnection, SETTINGS, PING, GOAWAY, WINDOW_UPDATE
<1> QED
  BY <1>1, <1>4, <1>6, <1>7, <1>8 DEF Returns, IsValid

LEMMA PingReturns ==
    ASSUME NEW t \in PingFields, Constructible(t), TypedToGeneric(t).payload \in Payload
    PROVE  Returns(t, t)
<1> USE DEF PingFields
<1> DEFINE flags == FlagIf(EndStreamOrAck, t.ack)
           octets == t.opaque_data
           g == Generic(PING, flags, FALSE, NoWord, octets)
<1>1. TypedToGeneric(t) = g
  BY ToGenericIs DEF PingToGeneric
<1>2. flags \in SUBSET (0..7) /\ (EndStreamOrAck \in flags <=> t.ack)
  BY DEF FlagIf, EndHeaders, EndStreamOrAck
<1> HIDE DEF flags
<1>3. /\ g.typ = PING /\ g.flags = flags /\ g.reserved = FALSE
      /\ g.stream_id = NoWord /\ g.payload = octets
  BY DEF Generic
<1>4. g \in GenericFrame
  <2>1. PING \in Octet
    BY DEF PING, Octet
  <2>2. octets \in Payload
    BY <1>1, <1>3
  <2>3. NoWord \in StreamId
    BY NoWordIs
  <2> HIDE DEF octets
  <2> QED
    BY <1>2, <2>1, <2>2, <2>3, GenericMade
<1> HIDE DEF g
<1>6. Typed(g) = t
  <2>1. Typed(g) = PingFrame(g)
    BY <1>3, TypedIs
  <2> QED
    BY <1>2, <1>3, <2>1 DEF PingFrame
<1>7. ~Overpadded(g) /\ SizeFits(g) /\ g.typ \in DATA..CONTINUATION
  BY <1>3 DEF Overpadded, HasPadding, SizeFits, Paddable, DATA, HEADERS, PRIORITY, RST_STREAM,
              SETTINGS, PUSH_PROMISE, PING, GOAWAY, WINDOW_UPDATE, CONTINUATION
<1>8. g.typ \in OnConnection => g.stream_id = NoWord
  BY <1>3 DEF OnConnection, SETTINGS, PING, GOAWAY, PING
<1> QED
  BY <1>1, <1>4, <1>6, <1>7, <1>8 DEF Returns, IsValid

LEMMA GoAwayReturns ==
    ASSUME NEW t \in GoAwayFields, Constructible(t), TypedToGeneric(t).payload \in Payload
    PROVE  Returns(t, t)
<1> USE DEF GoAwayFields
<1> DEFINE flags == {}
           octets == t.last_stream_id \o t.error_code \o t.additional_debug_data
           g == Generic(GOAWAY, flags, FALSE, NoWord, octets)
<1>1. TypedToGeneric(t) = g
  BY ToGenericIs DEF GoAwayToGeneric
<1>2. flags \in SUBSET (0..7)
  BY DEF FlagIf, EndHeaders, EndStreamOrAck
<1> HIDE DEF flags
<1>3. /\ g.typ = GOAWAY /\ g.flags = flags /\ g.reserved = FALSE
      /\ g.stream_id = NoWord /\ g.payload = octets
  BY DEF Generic
<1>4. g \in GenericFrame
  <2>1. GOAWAY \in Octet
    BY DEF GOAWAY, Octet
  <2>2. octets \in Payload
    BY <1>1, <1>3
  <2>3. NoWord \in StreamId
    BY NoWordIs
  <2> HIDE DEF octets
  <2> QED
    BY <1>2, <2>1, <2>2, <2>3, GenericMade
<1> HIDE DEF g
<1> DEFINE a == t.last_stream_id
           b == t.error_code
           c == t.additional_debug_data
<1>5. /\ Len(octets) >= 8 /\ Low(SubSeq(octets, 1, 4)) = a
      /\ SubSeq(octets, 5, 8) = b /\ SubSeq(octets, 9, Len(octets)) = c
  <2>1. /\ a \in Seq(Octet) /\ Len(a) = 4 /\ b \in Seq(Octet) /\ Len(b) = 4 /\ c \in Seq(Octet)
        /\ a \in StreamId
    BY WordIs
  <2>2. octets = (a \o b) \o c
    OBVIOUS
  <2> HIDE DEF octets, a, b, c
  <2> DEFINE ab == a \o b
  <2>3. /\ ab \in Seq(Octet) /\ Len(ab) = Len(a) + Len(b)
        /\ \A i \in 1..Len(a) : ab[i] = a[i]
        /\ \A i \in 1..Len(b) : ab[Len(a) + i] = b[i]
    <3>1. a \in Seq(Octet) /\ b \in Seq(Octet)
      BY <2>1
    <3> QED
      BY <3>1, JoinedIs
  <2> HIDE DEF ab
  <2>4. /\ ab \in Seq(Octet) /\ Len(ab) = 8 /\ octets = ab \o c
        /\ \A i \in 1..4 : ab[i] = a[i] /\ ab[4 + i] = b[i]
    BY <2>1, <2>2, <2>3 DEF ab
  <2> DEFINE q == ab \o c
  <2>5. /\ q \in Seq(Octet) /\ Len(q) = Len(ab) + Len(c) /\ Len(c) \in Nat
        /\ \A i \in 1..Len(ab) : q[i] = ab[i]
        /\ \A i \in 1..Len(c) : q[Len(ab) + i] = c[i]
    <3>1. ab \in Seq(Octet) /\ c \in Seq(Octet)
      BY <2>1, <2>4
    <3> QED
      BY <3>1, JoinedIs
  <2>6. octets = q
    BY <2>4
  <2> HIDE DEF q
  <2>7. /\ octets \in Seq(Octet) /\ Len(octets) = 8 + Len(c)
        /\ \A i \in 1..8 : octets[i] = ab[i]
        /\ \A i \in 1..Len(c) : octets[8 + i] = c[i]
    BY <2>4, <2>5, <2>6
  <2>8. \A i \in 1..4 : octets[0 + i] = a[i] /\ octets[4 + i] = b[i]
    <3>1. \A i \in 1..4 : i \in 1..8 /\ 4 + i \in 1..8 /\ 0 + i = i
      OBVIOUS
    <3> QED
      BY <2>4, <2>7, <3>1
  <2>9. SubSeq(octets, 0 + 1, 0 + Len(a)) = a
    BY <2>1, <2>5, <2>7, <2>8, CutOut
  <2>10. SubSeq(octets, 4 + 1, 4 + Len(b)) = b
    BY <2>1, <2>5, <2>7, <2>8, CutOut
  <2>11. SubSeq(octets, 8 + 1, 8 + Len(c)) = c
    BY <2>1, <2>5, <2>7, CutOut
  <2>12. SubSeq(octets, 1, 4) = a /\ SubSeq(octets, 5, 8) = b /\ SubSeq(octets, 9, Len(octets)) = c
    BY <2>1, <2>7, <2>9, <2>10, <2>11
  <2>13. Low(a) = a
    BY <2>1, TopOf
  <2> QED
    <3>1. Len(octets) >= 8
      BY <2>5, <2>7
    <3> QED
      BY <2>12, <2>13, <3>1 DEF a, b, c
<1> HIDE DEF octets
<1>6. Typed(g) = t
  <2>1. Typed(g) = GoAwayFrame(g)
    BY <1>3, TypedIs
  <2> QED
    BY <1>3, <1>5, <2>1 DEF GoAwayFrame
<1>7. ~Overpadded(g) /\ SizeFits(g) /\ g.typ \in DATA..CONTINUATION
  BY <1>3, <1>5 DEF Overpadded, HasPadding, SizeFits, Paddable, DATA, HEADERS, PRIORITY, RST_STREAM,
              SETTINGS, PUSH_PROMISE, PING, GOAWAY, WINDOW_UPDATE, CONTINUATION
<1>8. g.typ \in OnConnection => g.stream_id = NoWord
  BY <1>3 DEF OnConnection, SETTINGS, PING, GOAWAY, GOAWAY
<1> QED
  BY <1>1, <1>4, <1>6, <1>7, <1>8 DEF Returns, IsValid

LEMMA ContinuationReturns ==
    ASSUME NEW t \in ContinuationFields, Constructible(t), TypedToGeneric(t).payload \in Payload
    PROVE  Returns(t, t)
<1> USE DEF ContinuationFields
<1> DEFINE flags == FlagIf(EndHeaders, t.end_headers)
           g == Generic(CONTINUATION, flags, FALSE, t.stream_id, t.field_block_fragment)
<1>1. TypedToGeneric(t) = g
  BY ToGenericIs DEF ContinuationToGeneric
<1>2. flags \in SUBSET (0..7) /\ (EndHeaders \in flags <=> t.end_headers)
  BY DEF FlagIf, EndHeaders
<1> HIDE DEF flags
<1>3. /\ g.typ = CONTINUATION /\ g.flags = flags /\ g.reserved = FALSE
      /\ g.stream_id = t.stream_id /\ g.payload = t.field_block_fragment
  BY DEF Generic
<1>4. g \in GenericFrame
  <2>1. CONTINUATION \in Octet
    BY DEF CONTINUATION, Octet
  <2>2. t.field_block_fragment \in Payload
    BY <1>1, <1>3
  <2> QED
    BY <1>2, <2>1, <2>2, GenericMade
<1> HIDE DEF g
<1>5. Typed(g) = t
  <2>1. Typed(g) = ContinuationFrame(g)
    BY <1>3, TypedIs
  <2> QED
    BY <1>2, <1>3, <2>1 DEF ContinuationFrame
<1>6. ~Overpadded(g) /\ SizeFits(g) /\ g.typ \in DATA..CONTINUATION /\ g.typ \notin OnConnection
  BY <1>3 DEF Overpadded, HasPadding, SizeFits, Paddable, OnConnection, DATA, HEADERS, PRIORITY, RST_STREAM,
              SETTINGS, PUSH_PROMISE, PING, GOAWAY, WINDOW_UPDATE, CONTINUATION
<1> QED
  BY <1>1, <1>4, <1>5, <1>6 DEF Returns, IsValid
(* Settings, six octets each.                                              *)
LEMMA SixesAre ==
    ASSUME NEW s \in Seq(OctetsOf(6))
    PROVE  LET o == FlattenSeq(s)
           IN  /\ o \in Seq(Octet) /\ Len(o) = 6 * Len(s) /\ Len(o) % 6 = 0
               /\ [i \in 1..(Len(o) \div 6) |-> SubSeq(o, 6*i - 5, 6*i)] = s
<1> DEFINE m == Len(s)
           o == FlattenSeq(s)
           L(k) == Len(Flat(s, k))
           T == {k \in Nat : k <= m => L(k) = 6 * k}
<1>1. m \in Nat /\ \A i \in 1..m : s[i] \in Seq(Octet) /\ Len(s[i]) = 6
  <2>1. \A i \in 1..m : s[i] \in OctetsOf(6)
    BY ElementOfSeq
  <2> QED
    BY <2>1 DEF OctetsOf
<1>2. Pieces(s, m, Octet) /\ \A i \in 1..m : Len(s[i]) > 0
  <2> HIDE DEF m
  <2>1. Pieces(s, m, Octet)
    BY <1>1 DEF Pieces
  <2>2. ASSUME NEW i \in 1..m
        PROVE  Len(s[i]) > 0
    <3>1. Len(s[i]) = 6
      BY <1>1
    <3> QED
      BY <3>1
  <2> QED
    BY <2>1, <2>2
<1>3. o = Flat(s, m)
  <2>1. s = [i \in 1..m |-> s[i]]
    OBVIOUS
  <2> QED
    BY <2>1 DEF Flat
<1>4. /\ Flat(s, 0) = <<>>
      /\ \A k \in Nat : k < m => Flat(s, k + 1) = Flat(s, k) \o s[k + 1]
      /\ \A k \in 0..m : Flat(s, k) \in Seq(Octet)
  BY <1>2, FlatIs
<1> HIDE DEF m, o
<1>5. 0 \in T
  BY <1>4
<1>6. ASSUME NEW k \in Nat, k + 1 <= m
      PROVE  /\ L(k + 1) = L(k) + 6 /\ L(k) \in Nat
             /\ \A i \in 1..6 : Flat(s, k + 1)[L(k) + i] = s[k + 1][i]
  <2> DEFINE a == Flat(s, k)
             b == s[k + 1]
             t == a \o b
  <2>1. k < m /\ k \in 0..m /\ k + 1 \in 1..m
    BY <1>1, <1>6
  <2>2. a \in Seq(Octet) /\ b \in Seq(Octet) /\ Len(b) = 6 /\ Flat(s, k + 1) = t
    BY <1>1, <1>4, <2>1
  <2>3. L(k) = Len(a) /\ L(k + 1) = Len(t)
    BY <2>2
  <2> HIDE DEF a, b
  <2>4. /\ Len(t) = Len(a) + Len(b) /\ Len(a) \in Nat
        /\ \A i \in 1..Len(b) : t[Len(a) + i] = b[i]
    <3>1. a \in Seq(Octet) /\ b \in Seq(Octet)
      BY <2>2
    <3> QED
      BY <3>1, JoinedIs
  <2> HIDE DEF t, L
  <2> QED
    BY <2>2, <2>3, <2>4 DEF b
<1>7. ASSUME NEW k \in Nat, k \in T
      PROVE  k + 1 \in T
  <2> SUFFICES ASSUME k + 1 <= m PROVE L(k + 1) = 6 * (k + 1)
    OBVIOUS
  <2>1. k <= m
    BY <1>1
  <2>2. L(k) = 6 * k
    BY <1>7, <2>1
  <2>3. L(k + 1) = L(k) + 6
    BY <1>6
  <2> HIDE DEF L
  <2> QED
    BY <2>2, <2>3
<1>8. \A k \in 0..m : L(k) = 6 * k
  <2>1. Nat \subseteq T
    <3> HIDE DEF T
    <3> QED
      BY <1>5, <1>7, SetInduction
  <2> QED
    BY <1>1, <2>1
<1>9. o \in Seq(Octet) /\ Len(o) = 6 * m
  <2>1. m \in 0..m
    BY <1>1
  <2> QED
    BY <1>3, <1>4, <1>8, <2>1
<1>10. Len(o) % 6 = 0 /\ Len(o) \div 6 = m
  BY <1>1, <1>9
<1>11. ASSUME NEW i \in 1..m
       PROVE  SubSeq(o, 6*i - 5, 6*i) = s[i]
  <2> DEFINE k == i - 1
             from == 6 * k
             b == s[i]
  <2>1. k \in Nat /\ k + 1 = i /\ k + 1 <= m /\ k \in 0..m /\ i \in 0..m /\ m \in 0..m /\ i <= m
    BY <1>1
  <2> HIDE DEF k
  <2>2. /\ L(i) = from + 6 /\ from \in Nat /\ L(k) = from
        /\ \A j \in 1..6 : Flat(s, i)[from + j] = b[j]
    BY <1>6, <1>8, <2>1
  <2>3. L(i) <= L(m) /\ \A j \in 1..L(i) : Flat(s, m)[j] = Flat(s, i)[j]
    BY <1>2, <2>1, FlatGrows
  <2>4. b \in Seq(Octet) /\ Len(b) = 6
    BY <1>1
  <2>5. 6*i - 5 = from + 1 /\ 6*i = from + 6
    BY <2>1
  <2>6. from + 6 <= Len(o)
    BY <1>3, <2>2, <2>3
  <2> HIDE DEF from, b, L
  <2>7. ASSUME NEW j \in 1..6
        PROVE  o[from + j] = b[j]
    <3>1. from + j \in 1..L(i)
      BY <2>2
    <3> QED
      BY <1>3, <2>2, <2>3, <3>1
  <2>8. SubSeq(o, from + 1, from + Len(b)) = b
    BY <1>9, <2>2, <2>4, <2>6, <2>7, CutOut
  <2> QED
    BY <2>4, <2>5, <2>8 DEF b
<1>12. [i \in 1..m |-> SubSeq(o, 6*i - 5, 6*i)] = s
  <2>1. s = [i \in 1..m |-> s[i]]
    BY DEF m
  <2> QED
    BY <1>11, <2>1
<1> QED
  BY <1>9, <1>10, <1>12 DEF m, o

LEMMA SettingsReturns ==
    ASSUME NEW t \in SettingsFields, Constructible(t), TypedToGeneric(t).payload \in Payload
    PROVE  Returns(t, t)
<1> USE DEF SettingsFields
<1> DEFINE flags == FlagIf(EndStreamOrAck, t.ack)
           octets == FlattenSeq(t.settings)
           g == Generic(SETTINGS, flags, FALSE, NoWord, octets)
<1>1. TypedToGeneric(t) = g
  BY ToGenericIs DEF SettingsToGeneric
<1>2. flags \in SUBSET (0..7) /\ (EndStreamOrAck \in flags <=> t.ack)
  BY DEF FlagIf, EndHeaders, EndStreamOrAck
<1> HIDE DEF flags
<1>3. /\ g.typ = SETTINGS /\ g.flags = flags /\ g.reserved = FALSE
      /\ g.stream_id = NoWord /\ g.payload = octets
  BY DEF Generic
<1>4. g \in GenericFrame
  <2>1. SETTINGS \in Octet
    BY DEF SETTINGS, Octet
  <2>2. octets \in Payload
    BY <1>1, <1>3
  <2>3. NoWord \in StreamId
    BY NoWordIs
  <2> HIDE DEF octets
  <2> QED
    BY <1>2, <2>1, <2>2, <2>3, GenericMade
<1> HIDE DEF g
<1>5. /\ Len(octets) % 6 = 0
      /\ [i \in 1..(Len(octets) \div 6) |-> SubSeq(octets, 6*i - 5, 6*i)] = t.settings
  BY SixesAre
<1> HIDE DEF octets
<1>6. Typed(g) = t
  <2>1. Typed(g) = SettingsFrame(g)
    BY <1>3, TypedIs
  <2> QED
    BY <1>2, <1>3, <1>5, <2>1 DEF SettingsFrame
<1>7. ~Overpadded(g) /\ SizeFits(g) /\ g.typ \in DATA..CONTINUATION
  BY <1>3, <1>5 DEF Overpadded, HasPadding, SizeFits, Paddable, DATA, HEADERS, PRIORITY, RST_STREAM,
              SETTINGS, PUSH_PROMISE, PING, GOAWAY, WINDOW_UPDATE, CONTINUATION
<1>8. g.typ \in OnConnection => g.stream_id = NoWord
  BY <1>3 DEF OnConnection, SETTINGS, PING, GOAWAY, SETTINGS
<1> QED
  BY <1>1, <1>4, <1>6, <1>7, <1>8 DEF Returns, IsValid

-----------------------------------------------------------------------------
(* The types with padding.                                                 *)
LEMMA ZerosAre ==
    ASSUME NEW n \in Nat
    PROVE  Zeros(n) \in Seq(Octet) /\ Len(Zeros(n)) = n
<1>1. 0 \in Octet
  BY DEF Octet
<1> QED
  BY <1>1 DEF Zeros

(* A pad length p, what is ahead of the fragment, the fragment and zeros.  *)
Padding(q, p, a, f) ==
    LET pad == PadOctets(p)
        k == Len(p) + Len(a)
    IN  /\ q \in Seq(Octet) /\ pad \in Nat /\ Len(p) \in Nat /\ Len(a) \in Nat /\ Len(f) \in Nat
        /\ Len(q) = k + Len(f) + pad
        /\ p = <<>> => Len(p) = 0 /\ pad = 0
        /\ p # <<>> => Len(p) = 1 /\ <<q[1]>> = p
        /\ SubSeq(q, Len(p) + 1, k) = a
        /\ SubSeq(q, k + 1, Len(q) - pad) = f

LEMMA PaddedWritten ==
    ASSUME NEW p \in Optional(Octet), NEW a \in Seq(Octet), NEW f \in Seq(Octet)
    PROVE  Padding(p \o (a \o f) \o Zeros(PadOctets(p)), p, a, f)
<1> DEFINE pad == PadOctets(p)
           z == Zeros(pad)
           b == a \o f
           c == p \o b
           q == c \o z
           k == Len(p) + Len(a)
<1>1. /\ p \in Seq(Octet) /\ pad \in Nat
      /\ p = <<>> => Len(p) = 0 /\ pad = 0
      /\ p # <<>> => Len(p) = 1 /\ p[1] \in Octet /\ <<p[1]>> = p
  <2>1. CASE p = <<>>
    <3>1. <<>> \in Seq(Octet) /\ Len(<<>>) = 0
      OBVIOUS
    <3> QED
      BY <2>1, <3>1 DEF PadOctets
  <2>2. CASE p # <<>>
    <3>1. p \in Seq(Octet) /\ Len(p) = 1 /\ p[1] \in Octet /\ p = <<p[1]>>
      BY <2>2, PresentIs
    <3>2. pad = p[1] /\ p[1] \in Nat
      BY <2>2, <3>1, OctetIs DEF PadOctets
    <3> QED
      BY <2>2, <3>1, <3>2
  <2> QED
    BY <2>1, <2>2
<1> HIDE DEF pad
<1>2. z \in Seq(Octet) /\ Len(z) = pad
  BY <1>1, ZerosAre
<1> HIDE DEF z
<1>3. /\ b \in Seq(Octet) /\ Len(b) = Len(a) + Len(f) /\ Len(a) \in Nat /\ Len(f) \in Nat
      /\ \A i \in 1..Len(a) : b[i] = a[i]
      /\ \A i \in 1..Len(f) : b[Len(a) + i] = f[i]
  BY JoinedIs
<1> HIDE DEF b
<1>4. /\ c \in Seq(Octet) /\ Len(c) = Len(p) + Len(b) /\ Len(p) \in Nat /\ Len(b) \in Nat
      /\ \A i \in 1..Len(p) : c[i] = p[i]
      /\ \A i \in 1..Len(b) : c[Len(p) + i] = b[i]
  <2>1. p \in Seq(Octet) /\ b \in Seq(Octet)
    BY <1>1, <1>3
  <2> QED
    BY <2>1, JoinedIs
<1> HIDE DEF c
<1>5. /\ q \in Seq(Octet) /\ Len(q) = Len(c) + Len(z)
      /\ \A i \in 1..Len(c) : q[i] = c[i]
  <2>1. c \in Seq(Octet) /\ z \in Seq(Octet)
    BY <1>2, <1>4
  <2> QED
    BY <2>1, JoinedIs
<1> HIDE DEF q
<1>6. Len(q) = k + Len(f) + pad
  BY <1>2, <1>3, <1>4, <1>5
<1>7. ASSUME p # <<>>
      PROVE  Len(p) = 1 /\ <<q[1]>> = p
  <2>1. Len(p) = 1 /\ <<p[1]>> = p
    BY <1>1, <1>7
  <2>2. 1 \in 1..Len(p) /\ 1 \in 1..Len(c)
    BY <1>3, <1>4, <2>1
  <2>3. q[1] = p[1]
    BY <1>4, <1>5, <2>2
  <2> QED
    BY <2>1, <2>3
<1>8. ASSUME NEW i \in 1..Len(b)
      PROVE  q[Len(p) + i] = b[i]
  <2>1. Len(p) + i \in 1..Len(c)
    BY <1>4
  <2> QED
    BY <1>4, <1>5, <2>1
<1>9. SubSeq(q, Len(p) + 1, k) = a
  <2>1. \A i \in 1..Len(a) : q[Len(p) + i] = a[i]
    <3>1. \A i \in 1..Len(a) : i \in 1..Len(b)
      BY <1>3
    <3> QED
      BY <1>3, <1>8, <3>1
  <2>2. Len(p) + Len(a) <= Len(q)
    BY <1>1, <1>3, <1>4, <1>6
  <2> QED
    BY <1>4, <1>5, <2>1, <2>2, CutOut
<1>10. SubSeq(q, k + 1, Len(q) - pad) = f
  <2>1. ASSUME NEW i \in 1..Len(f)
        PROVE  q[k + i] = f[i]
    <3> DEFINE j == Len(a) + i
    <3>1. j \in 1..Len(b) /\ Len(p) + j = k + i
      BY <1>3, <1>4
    <3> HIDE DEF j
    <3>2. q[Len(p) + j] = b[j]
      BY <1>8, <3>1
    <3>3. b[j] = f[i]
      BY <1>3 DEF j
    <3> QED
      BY <3>1, <3>2, <3>3
  <2>2. k \in Nat /\ k + Len(f) <= Len(q) /\ Len(q) - pad = k + Len(f)
    BY <1>1, <1>3, <1>4, <1>6
  <2> HIDE DEF k
  <2>3. SubSeq(q, k + 1, k + Len(f)) = f
    BY <1>5, <2>1, <2>2, CutOut
  <2> QED
    BY <2>2, <2>3
<1>11. p \o (a \o f) \o Zeros(PadOctets(p)) = q
  BY DEF q, c, b, z, pad
<1> HIDE DEF k
<1>12. /\ q \in Seq(Octet) /\ pad \in Nat /\ Len(p) \in Nat /\ Len(a) \in Nat /\ Len(f) \in Nat
       /\ p = <<>> => Len(p) = 0 /\ pad = 0
  BY <1>1, <1>3, <1>4, <1>5
<1> QED
  BY <1>6, <1>7, <1>9, <1>10, <1>11, <1>12 DEF pad, k, Padding

(* What a padded frame holds, and where it is found again.                 *)
Holds(g, p, a, f) ==
    /\ g.payload \in Seq(Octet) /\ Len(p) \in Nat
    /\ PadLength(g) = p /\ Ahead(g) = Len(p) + Len(a)
    /\ SubSeq(g.payload, Len(p) + 1, Ahead(g)) = a /\ Fragment(g) = f
    /\ SizeFits(g) /\ ~Overpadded(g)
    /\ g.typ \in DATA..CONTINUATION /\ g.typ \notin OnConnection

LEMMA PaddedGeneric ==
    ASSUME NEW typ \in Paddable, NEW flags, NEW id,
           NEW p \in Optional(Octet), NEW a \in Seq(Octet), NEW f \in Seq(Octet),
           Padded \in flags <=> p # <<>>,
           Len(a) = (IF typ = HEADERS /\ Priority \in flags THEN 5 ELSE 0)
                        + (IF typ = PUSH_PROMISE THEN 4 ELSE 0)
    PROVE  Holds(Generic(typ, flags, FALSE, id, p \o (a \o f) \o Zeros(PadOctets(p))), p, a, f)
<1> DEFINE pad == PadOctets(p)
           q == p \o (a \o f) \o Zeros(pad)
           l == Len(p)
           m == Len(a)
           k == l + m
           n == Len(q)
           e == Len(f)
           g == Generic(typ, flags, FALSE, id, q)
<1>1. p \in Optional(Octet) /\ a \in Seq(Octet) /\ f \in Seq(Octet)
  OBVIOUS
<1>2. /\ q \in Seq(Octet) /\ pad \in Nat /\ l \in Nat /\ m \in Nat /\ e \in Nat
      /\ n = k + e + pad
      /\ p = <<>> => l = 0 /\ pad = 0
      /\ p # <<>> => l = 1 /\ <<q[1]>> = p
      /\ SubSeq(q, l + 1, k) = a
      /\ SubSeq(q, k + 1, n - pad) = f
  <2>1. Padding(p \o (a \o f) \o Zeros(PadOctets(p)), p, a, f)
    BY <1>1, PaddedWritten
  <2> QED
    BY <2>1 DEF Padding
<1>3. m = (IF typ = HEADERS /\ Priority \in flags THEN 5 ELSE 0)
              + (IF typ = PUSH_PROMISE THEN 4 ELSE 0)
  OBVIOUS
<1>4. g.typ = typ /\ g.flags = flags /\ g.payload = q /\ Len(g.payload) = n
  BY DEF Generic
<1>5. /\ SizeFits(g) <=> Len(g.payload) >= Ahead(g)
      /\ typ \in DATA..CONTINUATION /\ typ \notin OnConnection
  <2>1. typ = DATA \/ typ = HEADERS \/ typ = PUSH_PROMISE
    BY DEF Paddable
  <2> HIDE DEF g, n
  <2> QED
    BY <1>4, <2>1 DEF Paddable, OnConnection, SizeFits, DATA, HEADERS, PRIORITY, RST_STREAM,
              SETTINGS, PUSH_PROMISE, PING, GOAWAY, WINDOW_UPDATE, CONTINUATION
<1> HIDE DEF g, pad, q, n, l, m, e
<1>6. HasPadding(g) <=> p # <<>>
  BY <1>4 DEF HasPadding, Paddable
<1>7. PadLength(g) = p
  BY <1>2, <1>4, <1>6 DEF PadLength
<1>8. Ahead(g) = k
  <2>1. l = IF HasPadding(g) THEN 1 ELSE 0
    BY <1>2, <1>6
  <2> DEFINE x == IF HasPadding(g) THEN 1 ELSE 0
             y == IF typ = HEADERS /\ Priority \in flags THEN 5 ELSE 0
             z == IF typ = PUSH_PROMISE THEN 4 ELSE 0
  <2>2. Ahead(g) = x + y + z
    BY <1>4 DEF Ahead, HasPriority
  <2>3. x \in Nat /\ y \in Nat /\ z \in Nat /\ m = y + z /\ l = x
    BY <1>3, <2>1
  <2> HIDE DEF x, y, z
  <2> QED
    BY <2>2, <2>3
<1>9. Fragment(g) = f
  BY <1>2, <1>4, <1>7, <1>8 DEF Fragment, pad
<1>10. n >= k /\ ~(k + pad > n) /\ k \in Nat
  BY <1>2
<1>11. SizeFits(g) /\ ~Overpadded(g)
  <2>1. Ahead(g) + PadOctets(PadLength(g)) = k + pad
    BY <1>7, <1>8 DEF pad
  <2> HIDE DEF k
  <2> QED
    BY <1>4, <1>5, <1>8, <1>10, <2>1 DEF Overpadded
<1>12. SubSeq(q, l + 1, Ahead(g)) = a
  BY <1>2, <1>8
<1> QED
  <2>1. Holds(g, p, a, f)
    BY <1>2, <1>4, <1>5, <1>7, <1>8, <1>9, <1>11, <1>12 DEF Holds, l, m
  <2> QED
    BY <2>1 DEF g, q, pad

LEMMA DataReturns ==
    ASSUME NEW t \in DataFields, Constructible(t), TypedToGeneric(t).payload \in Payload
    PROVE  Returns(t, t)
<1> USE DEF DataFields
<1> DEFINE p == t.pad_length
           a == <<>>
           f == t.data
           q == p \o (a \o f) \o Zeros(PadOctets(p))
           flags == PaddedIf(t) \cup FlagIf(EndStreamOrAck, t.end_stream)
           g == Generic(DATA, flags, FALSE, t.stream_id, q)
<1>1. TypedToGeneric(t) = g
  <2>1. t.typ = DATA
    OBVIOUS
  <2>2. TypedToGeneric(t) = DataToGeneric(t)
    BY <2>1, ToGenericIs
  <2>3. a \o f = f
    OBVIOUS
  <2> QED
    BY <2>2, <2>3 DEF DataToGeneric, InPadding
<1>2. /\ flags \in SUBSET (0..7) /\ (Padded \in flags <=> p # <<>>)
      /\ (EndStreamOrAck \in flags <=> t.end_stream)
  BY DEF FlagIf, PaddedIf, WholePriority, EndHeaders, EndStreamOrAck, Padded, Priority
<1> HIDE DEF flags
<1>3. p \in Optional(Octet) /\ f \in Seq(Octet)
  OBVIOUS
<1>4. a \in Seq(Octet) /\ Len(a) = 0
  OBVIOUS
<1> HIDE DEF p, a, f
<1>5. Holds(g, p, a, f)
  <2>1. /\ DATA \in Paddable /\ (Padded \in flags <=> p # <<>>)
        /\ p \in Optional(Octet) /\ a \in Seq(Octet) /\ f \in Seq(Octet)
    BY <1>2, <1>3, <1>4 DEF Paddable
  <2>2. Len(a) = (IF DATA = HEADERS /\ Priority \in flags THEN 5 ELSE 0)
                     + (IF DATA = PUSH_PROMISE THEN 4 ELSE 0)
    BY <1>2, <1>4 DEF DATA, HEADERS, PUSH_PROMISE
  <2> QED
    BY <2>1, <2>2, PaddedGeneric
<1>6. /\ g.typ = DATA /\ g.flags = flags /\ g.stream_id = t.stream_id /\ g.payload = q
  BY DEF Generic
<1>7. g \in GenericFrame
  <2>1. DATA \in Octet
    BY DEF DATA, Octet
  <2>2. q \in Payload
    BY <1>1, <1>6
  <2>3. t.stream_id \in StreamId
    OBVIOUS
  <2> HIDE DEF q
  <2> QED
    BY <1>2, <2>1, <2>2, <2>3, GenericMade
<1> HIDE DEF g, q
<1>8. Typed(g) = t
  <2>1. Typed(g) = DataFrame(g)
    BY <1>6, TypedIs
  <2> QED
    BY <1>2, <1>5, <1>6, <2>1 DEF DataFrame, Holds, p, f
<1> QED
  BY <1>1, <1>5, <1>6, <1>7, <1>8 DEF Returns, IsValid, Holds

LEMMA PushPromiseReturns ==
    ASSUME NEW t \in PushPromiseFields, Constructible(t), TypedToGeneric(t).payload \in Payload
    PROVE  Returns(t, t)
<1> USE DEF PushPromiseFields
<1> DEFINE p == t.pad_length
           a == t.promised_stream_id
           f == t.field_block_fragment
           q == p \o (a \o f) \o Zeros(PadOctets(p))
           flags == PaddedIf(t) \cup FlagIf(EndHeaders, t.end_headers)
           g == Generic(PUSH_PROMISE, flags, FALSE, t.stream_id, q)
<1>1. TypedToGeneric(t) = g
  <2>1. t.typ = PUSH_PROMISE
    OBVIOUS
  <2>2. TypedToGeneric(t) = PushPromiseToGeneric(t)
    BY <2>1, ToGenericIs
  <2> QED
    BY <2>2 DEF PushPromiseToGeneric, InPadding
<1>2. /\ flags \in SUBSET (0..7) /\ (Padded \in flags <=> p # <<>>)
      /\ (EndHeaders \in flags <=> t.end_headers)
  BY DEF FlagIf, PaddedIf, WholePriority, EndHeaders, EndStreamOrAck, Padded, Priority
<1> HIDE DEF flags
<1>3. p \in Optional(Octet) /\ f \in Seq(Octet)
  OBVIOUS
<1>4. a \in Seq(Octet) /\ Len(a) = 4 /\ Low(a) = a
  <2>1. a \in StreamId
    OBVIOUS
  <2> HIDE DEF a
  <2> QED
    BY <2>1, WordIs, TopOf
<1> HIDE DEF p, a, f
<1>5. Holds(g, p, a, f)
  <2>1. /\ PUSH_PROMISE \in Paddable /\ (Padded \in flags <=> p # <<>>)
        /\ p \in Optional(Octet) /\ a \in Seq(Octet) /\ f \in Seq(Octet)
    BY <1>2, <1>3, <1>4 DEF Paddable
  <2>2. Len(a) = (IF PUSH_PROMISE = HEADERS /\ Priority \in flags THEN 5 ELSE 0)
                     + (IF PUSH_PROMISE = PUSH_PROMISE THEN 4 ELSE 0)
    BY <1>2, <1>4 DEF DATA, HEADERS, PUSH_PROMISE
  <2> QED
    BY <2>1, <2>2, PaddedGeneric
<1>6. /\ g.typ = PUSH_PROMISE /\ g.flags = flags /\ g.stream_id = t.stream_id /\ g.payload = q
  BY DEF Generic
<1>7. g \in GenericFrame
  <2>1. PUSH_PROMISE \in Octet
    BY DEF PUSH_PROMISE, Octet
  <2>2. q \in Payload
    BY <1>1, <1>6
  <2>3. t.stream_id \in StreamId
    OBVIOUS
  <2> HIDE DEF q
  <2> QED
    BY <1>2, <2>1, <2>2, <2>3, GenericMade
<1> HIDE DEF g, q
<1>8. Typed(g) = t
  <2>1. Typed(g) = PushPromiseFrame(g)
    BY <1>6, TypedIs
  <2>2. Ahead(g) - 3 = Len(p) + 1
    <3> DEFINE m == Len(a)
               l == Len(p)
    <3>1. Ahead(g) = l + m /\ m = 4 /\ l \in Nat
      BY <1>4, <1>5 DEF Holds
    <3> HIDE DEF m, l
    <3>2. Ahead(g) - 3 = l + 1
      BY <3>1
    <3> QED
      BY <3>2 DEF l
  <2>3. Low(SubSeq(g.payload, Ahead(g) - 3, Ahead(g))) = a
    BY <1>4, <1>5, <1>6, <2>2 DEF Holds
  <2> QED
    BY <1>2, <1>5, <1>6, <2>1, <2>3 DEF PushPromiseFrame, Holds, p, f, a
<1> QED
  BY <1>1, <1>5, <1>6, <1>7, <1>8 DEF Returns, IsValid, Holds

(* HEADERS without its priority, as it comes back if that was not whole.   *)
Unprioritized(t) ==
    [t EXCEPT !.exclusive = <<>>, !.stream_dependency = <<>>, !.weight = <<>>]

AsRead(t) == IF WholePriority(t) THEN t ELSE Unprioritized(t)

LEMMA AsReadIs ==
    ASSUME NEW t \in HeadersFields, Constructible(t)
    PROVE  /\ AsRead(t) \in HeadersFields /\ Constructible(AsRead(t))
           /\ AsRead(t) = [typ |-> HEADERS, stream_id |-> t.stream_id, end_stream |-> t.end_stream,
                           end_headers |-> t.end_headers, pad_length |-> t.pad_length,
                           exclusive |-> IF WholePriority(t) THEN t.exclusive ELSE <<>>,
                           stream_dependency |->
                                IF WholePriority(t) THEN t.stream_dependency ELSE <<>>,
                           weight |-> IF WholePriority(t) THEN t.weight ELSE <<>>,
                           field_block_fragment |-> t.field_block_fragment]
<1>1. CASE WholePriority(t)
  BY <1>1 DEF AsRead, HeadersFields
<1>2. CASE ~WholePriority(t)
  <2> DEFINE u == Unprioritized(t)
             v == [typ |-> HEADERS, stream_id |-> t.stream_id, end_stream |-> t.end_stream,
                   end_headers |-> t.end_headers, pad_length |-> t.pad_length,
                   exclusive |-> <<>>, stream_dependency |-> <<>>, weight |-> <<>>,
                   field_block_fragment |-> t.field_block_fragment]
  <2>1. AsRead(t) = u
    BY <1>2 DEF AsRead
  <2>2. u = v
    <3> DEFINE w == [typ |-> HEADERS, stream_id |-> t.stream_id, end_stream |-> t.end_stream,
                     end_headers |-> t.end_headers, pad_length |-> t.pad_length,
                     exclusive |-> t.exclusive, stream_dependency |-> t.stream_dependency,
                     weight |-> t.weight, field_block_fragment |-> t.field_block_fragment]
    <3>1. t = w
      BY DEF HeadersFields
    <3> DEFINE x == [w EXCEPT !.exclusive = <<>>]
               y == [x EXCEPT !.stream_dependency = <<>>]
    <3>2. [w EXCEPT !.exclusive = <<>>, !.stream_dependency = <<>>, !.weight = <<>>] = v
      <4>1. x = [w EXCEPT !.exclusive = <<>>] /\ y = [x EXCEPT !.stream_dependency = <<>>]
        OBVIOUS
      <4>2. x = [typ |-> HEADERS, stream_id |-> t.stream_id, end_stream |-> t.end_stream,
                 end_headers |-> t.end_headers, pad_length |-> t.pad_length,
                 exclusive |-> <<>>, stream_dependency |-> t.stream_dependency,
                 weight |-> t.weight, field_block_fragment |-> t.field_block_fragment]
        OBVIOUS
      <4>3. [w EXCEPT !.exclusive = <<>>, !.stream_dependency = <<>>, !.weight = <<>>]
                = [y EXCEPT !.weight = <<>>]
        OBVIOUS
      <4> HIDE DEF x
      <4>4. y = [typ |-> HEADERS, stream_id |-> t.stream_id, end_stream |-> t.end_stream,
                 end_headers |-> t.end_headers, pad_length |-> t.pad_length,
                 exclusive |-> <<>>, stream_dependency |-> <<>>,
                 weight |-> t.weight, field_block_fragment |-> t.field_block_fragment]
        BY <4>2
      <4> HIDE DEF y
      <4>5. [y EXCEPT !.weight = <<>>] = v
        BY <4>4
      <4> HIDE DEF w
      <4> QED
        BY <4>3, <4>5
    <3> HIDE DEF w, v
    <3> QED
      BY <3>1, <3>2 DEF Unprioritized
  <2>3. u \in HeadersFields
    <3>1. <<>> \in Optional(BOOLEAN) /\ <<>> \in Optional(StreamId) /\ <<>> \in Optional(Octet)
      BY PresentIs
    <3>2. /\ t.stream_id \in StreamId /\ t.end_stream \in BOOLEAN /\ t.end_headers \in BOOLEAN
          /\ t.pad_length \in Optional(Octet) /\ t.field_block_fragment \in Seq(Octet)
      BY DEF HeadersFields
    <3> QED
      BY <2>2, <3>1, <3>2 DEF HeadersFields
  <2> HIDE DEF u
  <2>4. Constructible(u)
    <3>1. u.typ = HEADERS /\ u.stream_id = t.stream_id /\ u.exclusive = <<>> /\ u.weight = <<>>
      BY <2>2
    <3>2. t.stream_id # NoWord
      BY DEF Constructible, HeadersFields, OnStream
    <3> HIDE DEF v
    <3> QED
      BY <3>1, <3>2 DEF Constructible, PriorityRefused, DATA, HEADERS, PRIORITY,
                RST_STREAM, SETTINGS, PUSH_PROMISE, PING, GOAWAY, WINDOW_UPDATE, CONTINUATION
  <2> QED
    BY <1>2, <2>1, <2>2, <2>3, <2>4
<1> QED
  BY <1>1, <1>2

LEMMA HeadersReturns ==
    ASSUME NEW t \in HeadersFields, Constructible(t), TypedToGeneric(t).payload \in Payload
    PROVE  Returns(t, AsRead(t))
<1> USE DEF HeadersFields
<1> DEFINE p == t.pad_length
           a == IF WholePriority(t) THEN PriorityOctets(t) ELSE <<>>
           f == t.field_block_fragment
           q == p \o (a \o f) \o Zeros(PadOctets(p))
           flags == PaddedIf(t) \cup FlagIf(EndStreamOrAck, t.end_stream)
                        \cup FlagIf(EndHeaders, t.end_headers)
                        \cup FlagIf(Priority, WholePriority(t))
           g == Generic(HEADERS, flags, FALSE, t.stream_id, q)
<1>1. TypedToGeneric(t) = g
  <2>1. t.typ = HEADERS
    OBVIOUS
  <2>2. TypedToGeneric(t) = HeadersToGeneric(t)
    BY <2>1, ToGenericIs
  <2> QED
    BY <2>2 DEF HeadersToGeneric, HeadersPayload, InPadding
<1>2. /\ flags \in SUBSET (0..7) /\ (Padded \in flags <=> p # <<>>)
      /\ (EndStreamOrAck \in flags <=> t.end_stream) /\ (EndHeaders \in flags <=> t.end_headers)
      /\ (Priority \in flags <=> WholePriority(t))
  BY DEF FlagIf, PaddedIf, WholePriority, EndHeaders, EndStreamOrAck, Padded, Priority
<1> HIDE DEF flags
<1>3. p \in Optional(Octet) /\ f \in Seq(Octet)
  OBVIOUS
<1>4. /\ a \in Seq(Octet)
      /\ WholePriority(t) =>
            /\ Len(a) = 5
            /\ PriorityOf(a) = [exclusive |-> t.exclusive, stream_dependency |-> t.stream_dependency,
                                weight |-> t.weight]
      /\ ~WholePriority(t) => Len(a) = 0
  <2>1. CASE WholePriority(t)
    <3>1. /\ t.exclusive \in Present(BOOLEAN) /\ t.stream_dependency \in Present(StreamId)
          /\ t.weight \in Present(Octet)
      BY <2>1, PresentIs DEF WholePriority
    <3>2. a = WithTop(t.exclusive[1], t.stream_dependency[1]) \o t.weight
      BY <2>1 DEF PriorityOctets
    <3> HIDE DEF a
    <3> QED
      BY <2>1, <3>1, <3>2, PriorityWritten
  <2>2. CASE ~WholePriority(t)
    BY <2>2
  <2> QED
    BY <2>1, <2>2
<1> HIDE DEF p, a, f
<1>5. Holds(g, p, a, f)
  <2>1. /\ HEADERS \in Paddable /\ (Padded \in flags <=> p # <<>>)
        /\ p \in Optional(Octet) /\ a \in Seq(Octet) /\ f \in Seq(Octet)
    BY <1>2, <1>3, <1>4 DEF Paddable
  <2>2. Len(a) = (IF HEADERS = HEADERS /\ Priority \in flags THEN 5 ELSE 0)
                     + (IF HEADERS = PUSH_PROMISE THEN 4 ELSE 0)
    BY <1>2, <1>4 DEF DATA, HEADERS, PUSH_PROMISE
  <2> QED
    BY <2>1, <2>2, PaddedGeneric
<1>6. /\ g.typ = HEADERS /\ g.flags = flags /\ g.stream_id = t.stream_id /\ g.payload = q
  BY DEF Generic
<1>7. g \in GenericFrame
  <2>1. HEADERS \in Octet
    BY DEF HEADERS, Octet
  <2>2. q \in Payload
    BY <1>1, <1>6
  <2>3. t.stream_id \in StreamId
    OBVIOUS
  <2> HIDE DEF q
  <2> QED
    BY <1>2, <2>1, <2>2, <2>3, GenericMade
<1> HIDE DEF g, q
<1>8. Typed(g) = AsRead(t)
  <2>1. Typed(g) = HeadersFrame(g)
    BY <1>6, TypedIs
  <2>2. HasPriority(g) <=> WholePriority(t)
    BY <1>2, <1>6 DEF HasPriority
  <2> DEFINE r == PriorityIn(g)
  <2>3. /\ r.exclusive = IF WholePriority(t) THEN t.exclusive ELSE <<>>
        /\ r.stream_dependency = IF WholePriority(t) THEN t.stream_dependency ELSE <<>>
        /\ r.weight = IF WholePriority(t) THEN t.weight ELSE <<>>
    <3>1. CASE WholePriority(t)
      <4>1. Ahead(g) - 4 = Len(p) + 1
        <5> DEFINE m == Len(a)
                   l == Len(p)
        <5>1. Ahead(g) = l + m /\ m = 5 /\ l \in Nat
          BY <1>4, <1>5, <3>1 DEF Holds
        <5> HIDE DEF m, l
        <5>2. Ahead(g) - 4 = l + 1
          BY <5>1
        <5> QED
          BY <5>2 DEF l
      <4>2. SubSeq(g.payload, Ahead(g) - 4, Ahead(g)) = a
        BY <1>5, <1>6, <4>1 DEF Holds
      <4>3. r = PriorityOf(a)
        BY <2>2, <3>1, <4>2 DEF PriorityIn
      <4> HIDE DEF r
      <4> QED
        BY <1>4, <3>1, <4>3
    <3>2. CASE ~WholePriority(t)
      BY <2>2, <3>2 DEF PriorityIn, NoPriority
    <3> QED
      BY <3>1, <3>2
  <2> HIDE DEF r
  <2>4. Typed(g) = [typ |-> HEADERS, stream_id |-> g.stream_id, end_stream |-> EndStreamOrAck \in g.flags,
                    end_headers |-> EndHeaders \in g.flags, pad_length |-> PadLength(g),
                    exclusive |-> r.exclusive, stream_dependency |-> r.stream_dependency,
                    weight |-> r.weight, field_block_fragment |-> Fragment(g)]
    BY <2>1 DEF HeadersFrame, r
  <2>5. /\ g.stream_id = t.stream_id /\ (EndStreamOrAck \in g.flags) = t.end_stream
        /\ (EndHeaders \in g.flags) = t.end_headers /\ PadLength(g) = t.pad_length
        /\ Fragment(g) = t.field_block_fragment
    BY <1>2, <1>5, <1>6 DEF Holds, p, f
  <2> QED
    BY <2>3, <2>4, <2>5, AsReadIs
<1>9. Constructible(AsRead(t))
  BY AsReadIs
<1> QED
  BY <1>1, <1>5, <1>6, <1>7, <1>8, <1>9 DEF Returns, IsValid, Holds

LEMMA FieldsAre ==
    ASSUME NEW t \in TypedFrame
    PROVE  /\ t.typ \in DATA..CONTINUATION
           /\ t.typ = DATA <=> t \in DataFields
           /\ t.typ = HEADERS <=> t \in HeadersFields
           /\ t.typ = PRIORITY <=> t \in PriorityFields
           /\ t.typ = RST_STREAM <=> t \in RstStreamFields
           /\ t.typ = SETTINGS <=> t \in SettingsFields
           /\ t.typ = PUSH_PROMISE <=> t \in PushPromiseFields
           /\ t.typ = PING <=> t \in PingFields
           /\ t.typ = GOAWAY <=> t \in GoAwayFields
           /\ t.typ = WINDOW_UPDATE <=> t \in WindowUpdateFields
           /\ t.typ = CONTINUATION <=> t \in ContinuationFields
<1> USE DEF TypedFrame, DATA, HEADERS, PRIORITY, RST_STREAM, SETTINGS, PUSH_PROMISE, PING, GOAWAY, WINDOW_UPDATE, CONTINUATION
<1>1. t.typ \in DATA..CONTINUATION
  BY DEF DataFields, HeadersFields, PriorityFields, RstStreamFields, SettingsFields, PushPromiseFields, PingFields, GoAwayFields, WindowUpdateFields, ContinuationFields
<1>2. t.typ = DATA <=> t \in DataFields
  BY DEF DataFields, HeadersFields, PriorityFields, RstStreamFields, SettingsFields, PushPromiseFields, PingFields, GoAwayFields, WindowUpdateFields, ContinuationFields
<1>3. t.typ = HEADERS <=> t \in HeadersFields
  BY DEF DataFields, HeadersFields, PriorityFields, RstStreamFields, SettingsFields, PushPromiseFields, PingFields, GoAwayFields, WindowUpdateFields, ContinuationFields
<1>4. t.typ = PRIORITY <=> t \in PriorityFields
  BY DEF DataFields, HeadersFields, PriorityFields, RstStreamFields, SettingsFields, PushPromiseFields, PingFields, GoAwayFields, WindowUpdateFields, ContinuationFields
<1>5. t.typ = RST_STREAM <=> t \in RstStreamFields
  BY DEF DataFields, HeadersFields, PriorityFields, RstStreamFields, SettingsFields, PushPromiseFields, PingFields, GoAwayFields, WindowUpdateFields, ContinuationFields
<1>6. t.typ = SETTINGS <=> t \in SettingsFields
  BY DEF DataFields, HeadersFields, PriorityFields, RstStreamFields, SettingsFields, PushPromiseFields, PingFields, GoAwayFields, WindowUpdateFields, ContinuationFields
<1>7. t.typ = PUSH_PROMISE <=> t \in PushPromiseFields
  BY DEF DataFields, HeadersFields, PriorityFields, RstStreamFields, SettingsFields, PushPromiseFields, PingFields, GoAwayFields, WindowUpdateFields, ContinuationFields
<1>8. t.typ = PING <=> t \in PingFields
  BY DEF DataFields, HeadersFields, PriorityFields, RstStreamFields, SettingsFields, PushPromiseFields, PingFields, GoAwayFields, WindowUpdateFields, ContinuationFields
<1>9. t.typ = GOAWAY <=> t \in GoAwayFields
  BY DEF DataFields, HeadersFields, PriorityFields, RstStreamFields, SettingsFields, PushPromiseFields, PingFields, GoAwayFields, WindowUpdateFields, ContinuationFields
<1>10. t.typ = WINDOW_UPDATE <=> t \in WindowUpdateFields
  BY DEF DataFields, HeadersFields, PriorityFields, RstStreamFields, SettingsFields, PushPromiseFields, PingFields, GoAwayFields, WindowUpdateFields, ContinuationFields
<1>11. t.typ = CONTINUATION <=> t \in ContinuationFields
  BY DEF DataFields, HeadersFields, PriorityFields, RstStreamFields, SettingsFields, PushPromiseFields, PingFields, GoAwayFields, WindowUpdateFields, ContinuationFields
<1> QED
  BY <1>1, <1>2, <1>3, <1>4, <1>5, <1>6, <1>7, <1>8, <1>9, <1>10, <1>11

(* from_h2frame undoes to_generic, for each type (http2.py:354-783): what  *)
(* is written as a typed frame is read as that frame, HEADERS without the  *)
(* priority if it was not whole.                                           *)
ReadAs(t) == IF t.typ = HEADERS THEN AsRead(t) ELSE t

THEOREM TypedComesBack ==
    ASSUME NEW t \in TypedFrame, Constructible(t), TypedToGeneric(t).payload \in Payload
    PROVE  Returns(t, ReadAs(t))
<1>1. t.typ = HEADERS => Returns(t, AsRead(t))
  BY FieldsAre, HeadersReturns
<1>2. t.typ # HEADERS => Returns(t, t)
  <2>1. \/ t.typ = DATA \/ t.typ = HEADERS \/ t.typ = PRIORITY \/ t.typ = RST_STREAM
        \/ t.typ = SETTINGS \/ t.typ = PUSH_PROMISE \/ t.typ = PING \/ t.typ = GOAWAY
        \/ t.typ = WINDOW_UPDATE \/ t.typ = CONTINUATION
    BY FieldsAre DEF DATA, HEADERS, PRIORITY, RST_STREAM, SETTINGS, PUSH_PROMISE, PING, GOAWAY, WINDOW_UPDATE, CONTINUATION
  <2> QED
    BY <2>1, FieldsAre, DataReturns, PriorityReturns, RstStreamReturns, SettingsReturns, PushPromiseReturns, PingReturns, GoAwayReturns, WindowUpdateReturns, ContinuationReturns
<1> QED
  BY <1>1, <1>2 DEF ReadAs

-----------------------------------------------------------------------------
(* From generic to typed: g, read, is a typed frame that is written in as  *)
(* many octets and has no priority, or a whole one.                        *)
Stands(g) ==
    LET t == Typed(g)
        q == TypedToGeneric(t).payload
    IN  /\ t \in TypedFrame /\ ReadAs(t) = t
        /\ q \in Seq(Octet) /\ Len(q) = Len(g.payload)

LEMMA PriorityStands ==
    ASSUME NEW g \in GenericFrame, g.typ = PRIORITY, IsValid(g)
    PROVE  Stands(g)
<1> DEFINE o == g.payload
           t == PriorityFrame(g)
<1>1. o \in Seq(Octet) /\ g.stream_id \in StreamId
  BY GenericIs
<1>2. Typed(g) = t
  BY TypedIs
<1>3. SizeFits(g) /\ Constructible(t)
  BY <1>2 DEF IsValid
<1>4. Len(o) = 5
  BY <1>3 DEF SizeFits, DATA, HEADERS, PRIORITY, RST_STREAM,
              SETTINGS, PUSH_PROMISE, PING, GOAWAY, WINDOW_UPDATE, CONTINUATION
<1>5. t \in PriorityFields
  BY <1>1, <1>4, PriorityRead DEF PriorityFrame, PriorityFields
<1>6. t.typ = PRIORITY /\ t \in TypedFrame
  BY <1>5 DEF TypedFrame, PriorityFrame
<1>7. TypedToGeneric(t) = PriorityToGeneric(t)
  BY <1>6, ToGenericIs
<1>8. TypedToGeneric(t).payload \in Seq(Octet) /\ Len(TypedToGeneric(t).payload) = Len(o)
  <2>1. /\ t.exclusive \in Present(BOOLEAN) /\ t.stream_dependency \in Present(StreamId)
        /\ t.weight \in Present(Octet)
    BY <1>5 DEF PriorityFields
  <2> HIDE DEF t
  <2>2. TypedToGeneric(t).payload = WithTop(t.exclusive[1], t.stream_dependency[1]) \o t.weight
    <3> DEFINE x == WithTop(t.exclusive[1], t.stream_dependency[1]) \o t.weight
    <3>1. PriorityToGeneric(t) = Generic(PRIORITY, {}, FALSE, t.stream_id, x)
      BY DEF PriorityToGeneric, PriorityOctets
    <3> HIDE DEF x
    <3>2. PriorityToGeneric(t).payload = x
      BY <3>1 DEF Generic
    <3> QED
      BY <1>7, <3>2 DEF x
  <2>3. /\ WithTop(t.exclusive[1], t.stream_dependency[1]) \o t.weight \in Seq(Octet)
        /\ Len(WithTop(t.exclusive[1], t.stream_dependency[1]) \o t.weight) = 5
    BY <2>1, PriorityWritten
  <2> QED
    BY <1>4, <2>2, <2>3
<1>9. ReadAs(t) = t
  BY <1>6 DEF ReadAs, DATA, HEADERS, PRIORITY, RST_STREAM,
              SETTINGS, PUSH_PROMISE, PING, GOAWAY, WINDOW_UPDATE, CONTINUATION
<1> HIDE DEF t
<1> QED
  BY <1>2, <1>6, <1>8, <1>9 DEF Stands

LEMMA RstStreamStands ==
    ASSUME NEW g \in GenericFrame, g.typ = RST_STREAM, IsValid(g)
    PROVE  Stands(g)
<1> DEFINE o == g.payload
           t == RstStreamFrame(g)
<1>1. o \in Seq(Octet) /\ g.stream_id \in StreamId
  BY GenericIs
<1>2. Typed(g) = t
  BY TypedIs
<1>3. SizeFits(g) /\ Constructible(t)
  BY <1>2 DEF IsValid
<1>4. Len(o) = 4
  BY <1>3 DEF SizeFits, DATA, HEADERS, PRIORITY, RST_STREAM,
              SETTINGS, PUSH_PROMISE, PING, GOAWAY, WINDOW_UPDATE, CONTINUATION
<1>5. t \in RstStreamFields
  <2>1. o \in Word
    BY <1>1, <1>4, WordIs
  <2> QED
    BY <1>1, <2>1 DEF RstStreamFrame, RstStreamFields
<1>6. t.typ = RST_STREAM /\ t \in TypedFrame
  BY <1>5 DEF TypedFrame, RstStreamFrame
<1>7. TypedToGeneric(t) = RstStreamToGeneric(t)
  BY <1>6, ToGenericIs
<1>8. TypedToGeneric(t).payload \in Seq(Octet) /\ Len(TypedToGeneric(t).payload) = Len(o)
  BY <1>1, <1>7 DEF RstStreamToGeneric, Generic, RstStreamFrame
<1>9. ReadAs(t) = t
  BY <1>6 DEF ReadAs, DATA, HEADERS, PRIORITY, RST_STREAM,
              SETTINGS, PUSH_PROMISE, PING, GOAWAY, WINDOW_UPDATE, CONTINUATION
<1> HIDE DEF t
<1> QED
  BY <1>2, <1>6, <1>8, <1>9 DEF Stands

LEMMA WindowUpdateStands ==
    ASSUME NEW g \in GenericFrame, g.typ = WINDOW_UPDATE, IsValid(g)
    PROVE  Stands(g)
<1> DEFINE o == g.payload
           t == WindowUpdateFrame(g)
<1>1. o \in Seq(Octet) /\ g.stream_id \in StreamId
  BY GenericIs
<1>2. Typed(g) = t
  BY TypedIs
<1>3. SizeFits(g) /\ Constructible(t)
  BY <1>2 DEF IsValid
<1>4. Len(o) = 4
  BY <1>3 DEF SizeFits, DATA, HEADERS, PRIORITY, RST_STREAM,
              SETTINGS, PUSH_PROMISE, PING, GOAWAY, WINDOW_UPDATE, CONTINUATION
<1>5. t \in WindowUpdateFields
  <2>1. Low(o) \in StreamId
    BY <1>1, <1>4, LowIs
  <2> QED
    BY <1>1, <2>1 DEF WindowUpdateFrame, WindowUpdateFields
<1>6. t.typ = WINDOW_UPDATE /\ t \in TypedFrame
  BY <1>5 DEF TypedFrame, WindowUpdateFrame
<1>7. TypedToGeneric(t) = WindowUpdateToGeneric(t)
  BY <1>6, ToGenericIs
<1>8. TypedToGeneric(t).payload \in Seq(Octet) /\ Len(TypedToGeneric(t).payload) = Len(o)
  <2>1. Low(o) \in StreamId
    BY <1>1, <1>4, LowIs
  <2>2. Low(o) \in Seq(Octet) /\ Len(Low(o)) = 4
    BY <2>1, WordIs
  <2> QED
    BY <1>4, <1>7, <2>2 DEF WindowUpdateToGeneric, Generic, WindowUpdateFrame
<1>9. ReadAs(t) = t
  BY <1>6 DEF ReadAs, DATA, HEADERS, PRIORITY, RST_STREAM,
              SETTINGS, PUSH_PROMISE, PING, GOAWAY, WINDOW_UPDATE, CONTINUATION
<1> HIDE DEF t
<1> QED
  BY <1>2, <1>6, <1>8, <1>9 DEF Stands

LEMMA PingStands ==
    ASSUME NEW g \in GenericFrame, g.typ = PING, IsValid(g)
    PROVE  Stands(g)
<1> DEFINE o == g.payload
           t == PingFrame(g)
<1>1. o \in Seq(Octet) /\ g.stream_id \in StreamId
  BY GenericIs
<1>2. Typed(g) = t
  BY TypedIs
<1>3. SizeFits(g) /\ Constructible(t)
  BY <1>2 DEF IsValid
<1>5. t \in PingFields
  BY <1>1 DEF PingFrame, PingFields
<1>6. t.typ = PING /\ t \in TypedFrame
  BY <1>5 DEF TypedFrame, PingFrame
<1>7. TypedToGeneric(t) = PingToGeneric(t)
  BY <1>6, ToGenericIs
<1>8. TypedToGeneric(t).payload \in Seq(Octet) /\ Len(TypedToGeneric(t).payload) = Len(o)
  BY <1>1, <1>7 DEF PingToGeneric, Generic, PingFrame
<1>9. ReadAs(t) = t
  BY <1>6 DEF ReadAs, DATA, HEADERS, PRIORITY, RST_STREAM,
              SETTINGS, PUSH_PROMISE, PING, GOAWAY, WINDOW_UPDATE, CONTINUATION
<1> HIDE DEF t
<1> QED
  BY <1>2, <1>6, <1>8, <1>9 DEF Stands

LEMMA ContinuationStands ==
    ASSUME NEW g \in GenericFrame, g.typ = CONTINUATION, IsValid(g)
    PROVE  Stands(g)
<1> DEFINE o == g.payload
           t == ContinuationFrame(g)
<1>1. o \in Seq(Octet) /\ g.stream_id \in StreamId
  BY GenericIs
<1>2. Typed(g) = t
  BY TypedIs
<1>3. SizeFits(g) /\ Constructible(t)
  BY <1>2 DEF IsValid
<1>5. t \in ContinuationFields
  BY <1>1 DEF ContinuationFrame, ContinuationFields
<1>6. t.typ = CONTINUATION /\ t \in TypedFrame
  BY <1>5 DEF TypedFrame, ContinuationFrame
<1>7. TypedToGeneric(t) = ContinuationToGeneric(t)
  BY <1>6, ToGenericIs
<1>8. TypedToGeneric(t).payload \in Seq(Octet) /\ Len(TypedToGeneric(t).payload) = Len(o)
  BY <1>1, <1>7 DEF ContinuationToGeneric, Generic, ContinuationFrame
<1>9. ReadAs(t) = t
  BY <1>6 DEF ReadAs, DATA, HEADERS, PRIORITY, RST_STREAM,
              SETTINGS, PUSH_PROMISE, PING, GOAWAY, WINDOW_UPDATE, CONTINUATION
<1> HIDE DEF t
<1> QED
  BY <1>2, <1>6, <1>8, <1>9 DEF Stands

LEMMA GoAwayStands ==
    ASSUME NEW g \in GenericFrame, g.typ = GOAWAY, IsValid(g)
    PROVE  Stands(g)
<1> DEFINE o == g.payload
           t == GoAwayFrame(g)
<1>1. o \in Seq(Octet) /\ g.stream_id \in StreamId
  BY GenericIs
<1>2. Typed(g) = t
  BY TypedIs
<1>3. SizeFits(g) /\ Constructible(t)
  BY <1>2 DEF IsValid
<1> DEFINE n == Len(o)
           last == SubSeq(o, 0 + 1, 4)
           code == SubSeq(o, 4 + 1, 8)
           debug == SubSeq(o, 8 + 1, n)
           low == Low(last)
<1>4. /\ last \in Seq(Octet) /\ Len(last) = 4 /\ code \in Seq(Octet) /\ Len(code) = 4
      /\ debug \in Seq(Octet) /\ Len(debug) = n - 8 /\ n \in Nat /\ n >= 8 /\ Len(o) = n
      /\ low \in Seq(Octet) /\ Len(low) = 4 /\ low \in StreamId
  <2>1. n \in Nat /\ n >= 8 /\ Len(o) = n
    BY <1>1, <1>3 DEF SizeFits, DATA, HEADERS, PRIORITY, RST_STREAM,
              SETTINGS, PUSH_PROMISE, PING, GOAWAY, WINDOW_UPDATE, CONTINUATION
  <2> HIDE DEF n, o
  <2>2. last \in Seq(Octet) /\ Len(last) = 4 - 0
    BY <1>1, <2>1, PieceIs
  <2>3. code \in Seq(Octet) /\ Len(code) = 8 - 4
    BY <1>1, <2>1, PieceIs
  <2>4. debug \in Seq(Octet) /\ Len(debug) = n - 8
    BY <1>1, <2>1, PieceIs
  <2> HIDE DEF last, code, debug
  <2>5. Len(last) = 4 /\ Len(code) = 4
    BY <2>2, <2>3
  <2>6. low \in StreamId
    BY <2>2, <2>5, LowIs
  <2>7. low \in Seq(Octet) /\ Len(low) = 4
    <3> HIDE DEF low
    <3> QED
      BY <2>6, WordIs
  <2> QED
    BY <2>1, <2>2, <2>3, <2>4, <2>5, <2>6, <2>7
<1>10. /\ t.last_stream_id = low /\ t.error_code = code /\ t.additional_debug_data = debug
       /\ t = [typ |-> GOAWAY, last_stream_id |-> low, error_code |-> code,
               additional_debug_data |-> debug]
  BY DEF GoAwayFrame
<1>5. t \in GoAwayFields
  <2> HIDE DEF t, low, code, debug
  <2>1. code \in Word
    BY <1>4, WordIs
  <2> QED
    BY <1>4, <1>10, <2>1 DEF GoAwayFields
<1>6. t.typ = GOAWAY /\ t \in TypedFrame
  BY <1>5 DEF TypedFrame, GoAwayFrame
<1>7. TypedToGeneric(t) = GoAwayToGeneric(t)
  BY <1>6, ToGenericIs
<1>8. TypedToGeneric(t).payload \in Seq(Octet) /\ Len(TypedToGeneric(t).payload) = Len(o)
  <2>1. TypedToGeneric(t).payload = low \o code \o debug
    <3> HIDE DEF t, low, code, debug
    <3> DEFINE x == t.last_stream_id \o t.error_code \o t.additional_debug_data
    <3>1. GoAwayToGeneric(t) = Generic(GOAWAY, {}, FALSE, NoWord, x)
      BY DEF GoAwayToGeneric
    <3>2. x = low \o code \o debug
      BY <1>10
    <3> HIDE DEF x
    <3>3. GoAwayToGeneric(t).payload = x
      BY <3>1 DEF Generic
    <3> QED
      BY <1>7, <3>2, <3>3
  <2> DEFINE b == low \o code
             c == b \o debug
  <2>2. TypedToGeneric(t).payload = c
    BY <2>1
  <2> HIDE DEF low, code, debug, n, o, t
  <2>3. low \in Seq(Octet) /\ code \in Seq(Octet)
    BY <1>4
  <2>4. b \in Seq(Octet) /\ Len(b) = Len(low) + Len(code)
    BY <2>3, JoinedIs
  <2> HIDE DEF b
  <2>5. b \in Seq(Octet) /\ debug \in Seq(Octet)
    BY <1>4, <2>4
  <2>6. c \in Seq(Octet) /\ Len(c) = Len(b) + Len(debug)
    BY <2>5, JoinedIs
  <2> HIDE DEF c
  <2> QED
    BY <1>4, <2>2, <2>4, <2>6
<1>9. ReadAs(t) = t
  BY <1>6 DEF ReadAs, DATA, HEADERS, PRIORITY, RST_STREAM,
              SETTINGS, PUSH_PROMISE, PING, GOAWAY, WINDOW_UPDATE, CONTINUATION
<1> HIDE DEF t
<1> QED
  BY <1>2, <1>6, <1>8, <1>9 DEF Stands

LEMMA SettingsStands ==
    ASSUME NEW g \in GenericFrame, g.typ = SETTINGS, IsValid(g)
    PROVE  Stands(g)
<1> DEFINE o == g.payload
           t == SettingsFrame(g)
<1>1. o \in Seq(Octet) /\ g.stream_id \in StreamId
  BY GenericIs
<1>2. Typed(g) = t
  BY TypedIs
<1>3. SizeFits(g) /\ Constructible(t)
  BY <1>2 DEF IsValid
<1> DEFINE n == Len(o)
           m == n \div 6
           six == [i \in 1..m |-> SubSeq(o, 6*i - 5, 6*i)]
<1>4. six \in Seq(OctetsOf(6)) /\ Len(six) = m /\ n = 6 * m /\ m \in Nat
  <2>1. n \in Nat /\ n % 6 = 0 /\ Len(o) = n
    <3>1. g.typ = SETTINGS => Len(g.payload) % 6 = 0
      BY <1>3 DEF SizeFits
    <3>2. Len(o) % 6 = 0
      BY <3>1
    <3>3. Len(o) \in Nat
      <4> HIDE DEF o
      <4> QED
        BY <1>1
    <3> HIDE DEF o
    <3> QED
      BY <3>2, <3>3
  <2> HIDE DEF n, o
  <2>2. m \in Nat /\ n = 6 * m
    BY <2>1
  <2> HIDE DEF m
  <2>3. ASSUME NEW i \in 1..m
        PROVE  SubSeq(o, 6*i - 5, 6*i) \in OctetsOf(6)
    <3> DEFINE from == 6*i - 6
               to == 6*i
    <3>1. /\ from \in Nat /\ to \in Nat /\ from <= to /\ to <= n
          /\ to - from = 6 /\ from + 1 = 6*i - 5
      BY <2>2
    <3>2. SubSeq(o, 6*i - 5, 6*i) = SubSeq(o, from + 1, to)
      BY <3>1
    <3> HIDE DEF from, to
    <3>3. to <= Len(o)
      BY <2>1, <3>1
    <3>4. SubSeq(o, from + 1, to) \in Seq(Octet) /\ Len(SubSeq(o, from + 1, to)) = to - from
      BY <1>1, <3>1, <3>3, PieceIs
    <3> DEFINE u == SubSeq(o, from + 1, to)
    <3>5. u \in OctetsOf(6)
      <4>1. u \in Seq(Octet) /\ Len(u) = 6
        BY <3>1, <3>4
      <4> HIDE DEF u
      <4> QED
        BY <4>1 DEF OctetsOf
    <3> QED
      BY <3>2, <3>5
  <2>4. six \in [1..m -> OctetsOf(6)]
    BY <2>3
  <2>5. \A h \in [1..m -> OctetsOf(6)] : h \in Seq(OctetsOf(6)) /\ Len(h) = m
    BY <2>2
  <2> HIDE DEF six
  <2> QED
    BY <2>2, <2>4, <2>5
<1>10. t.settings = six /\ t = [typ |-> SETTINGS, ack |-> EndStreamOrAck \in g.flags, settings |-> six]
  BY DEF SettingsFrame
<1>5. t \in SettingsFields
  <2> HIDE DEF t, six
  <2>1. (EndStreamOrAck \in g.flags) \in BOOLEAN
    OBVIOUS
  <2> QED
    BY <1>4, <1>10, <2>1 DEF SettingsFields
<1>6. t.typ = SETTINGS /\ t \in TypedFrame
  BY <1>5 DEF TypedFrame, SettingsFrame
<1>7. TypedToGeneric(t) = SettingsToGeneric(t)
  BY <1>6, ToGenericIs
<1>8. TypedToGeneric(t).payload \in Seq(Octet) /\ Len(TypedToGeneric(t).payload) = Len(o)
  <2>1. TypedToGeneric(t).payload = FlattenSeq(six)
    BY <1>7, <1>10 DEF SettingsToGeneric, Generic
  <2> HIDE DEF six, m, t
  <2>2. six \in Seq(OctetsOf(6))
    BY <1>4
  <2>3. FlattenSeq(six) \in Seq(Octet) /\ Len(FlattenSeq(six)) = 6 * Len(six)
    BY <2>2, SixesAre
  <2> HIDE DEF o
  <2>4. FlattenSeq(six) \in Seq(Octet) /\ Len(FlattenSeq(six)) = n
    BY <1>4, <2>3
  <2> QED
    BY <2>1, <2>4
<1>9. ReadAs(t) = t
  BY <1>6 DEF ReadAs, DATA, HEADERS, PRIORITY, RST_STREAM,
              SETTINGS, PUSH_PROMISE, PING, GOAWAY, WINDOW_UPDATE, CONTINUATION
<1> HIDE DEF t
<1> QED
  BY <1>2, <1>6, <1>8, <1>9 DEF Stands

(* What a padded frame is cut into, and with anything as long as what is   *)
(* ahead of the fragment it is put together again in as many octets.       *)
Between(g) == (IF HasPriority(g) THEN 5 ELSE 0) + (IF g.typ = PUSH_PROMISE THEN 4 ELSE 0)

LEMMA PaddedRead ==
    ASSUME NEW g \in GenericFrame, g.typ \in Paddable, SizeFits(g), ~Overpadded(g)
    PROVE  /\ PadLength(g) \in Optional(Octet) /\ Len(PadLength(g)) \in Nat
           /\ PadOctets(PadLength(g)) \in Nat
           /\ Ahead(g) = Len(PadLength(g)) + Between(g)
           /\ Ahead(g) <= Len(g.payload)
           /\ Fragment(g) \in Seq(Octet)
           /\ Len(Fragment(g)) = Len(g.payload) - Ahead(g) - PadOctets(PadLength(g))
<1> DEFINE o == g.payload
           n == Len(o)
           p == PadLength(g)
           l == Len(p)
           pad == PadOctets(p)
           x == IF HasPadding(g) THEN 1 ELSE 0
           y == IF HasPriority(g) THEN 5 ELSE 0
           z == IF g.typ = PUSH_PROMISE THEN 4 ELSE 0
           k == Ahead(g)
<1>1. o \in Seq(Octet)
  BY GenericIs
<1>2. n \in Nat
  <2> HIDE DEF o
  <2> QED
    BY <1>1
<1>3. k = x + y + z /\ Between(g) = y + z
  BY DEF Ahead, Between
<1>4. x \in Nat /\ y \in Nat /\ z \in Nat
  OBVIOUS
<1>5. n >= k
  BY DEF SizeFits
<1>6. p \in Optional(Octet) /\ l = x /\ pad \in Nat
  <2>1. CASE HasPadding(g)
    <3> DEFINE e == o[1]
    <3>1. x = 1
      BY <2>1
    <3>2. n >= 1
      <4> HIDE DEF n, k, x, y, z
      <4> QED
        BY <1>2, <1>3, <1>4, <1>5, <3>1
    <3>3. e \in Octet
      <4>1. 1 \in 1..n
        BY <1>2, <3>2
      <4> HIDE DEF o
      <4> QED
        BY <1>1, <4>1, ElementOfSeq
    <3>4. p = <<e>>
      BY <2>1 DEF PadLength
    <3> HIDE DEF e, p
    <3>5. p \in Present(Octet) /\ p \in Optional(Octet)
      BY <3>3, <3>4, PresentIs
    <3>6. Len(p) = 1 /\ p[1] = e /\ p # <<>>
      BY <3>4
    <3>7. PadOctets(p) = e
      BY <3>6 DEF PadOctets
    <3>8. e \in Nat
      BY <3>3, OctetIs
    <3> QED
      BY <3>1, <3>5, <3>6, <3>7, <3>8
  <2>2. CASE ~HasPadding(g)
    <3>1. p = <<>> /\ x = 0
      BY <2>2 DEF PadLength
    <3> HIDE DEF p, x
    <3>2. p \in Optional(Octet)
      BY <3>1, PresentIs
    <3> QED
      BY <3>1, <3>2 DEF PadOctets
  <2> QED
    BY <2>1, <2>2
<1>7. k + pad <= n
  <2>1. CASE HasPadding(g)
    <3>1. ~(k + pad > n)
      BY <2>1 DEF Overpadded
    <3> HIDE DEF k, pad, n, x, y, z
    <3> QED
      BY <1>2, <1>3, <1>4, <1>6, <3>1
  <2>2. CASE ~HasPadding(g)
    <3>1. pad = 0
      BY <2>2 DEF PadLength, PadOctets
    <3> HIDE DEF k, pad, n, x, y, z
    <3> QED
      BY <1>2, <1>3, <1>4, <1>5, <3>1
  <2> QED
    BY <2>1, <2>2
<1> DEFINE to == n - pad
           f == SubSeq(o, k + 1, to)
<1>8. Fragment(g) = f
  BY DEF Fragment
<1> HIDE DEF o, n, p, l, pad, x, y, z, k
<1>9. k \in Nat /\ k = l + Between(g) /\ l \in Nat
  BY <1>3, <1>4, <1>6
<1>10. to \in Nat /\ k <= to /\ to <= n /\ to - k = n - k - pad
  BY <1>2, <1>6, <1>7, <1>9
<1> HIDE DEF to
<1>11. f \in Seq(Octet) /\ Len(f) = to - k
  <2>1. to <= Len(o)
    BY <1>10 DEF n
  <2> QED
    BY <1>1, <1>9, <1>10, <2>1, PieceIs
<1> HIDE DEF f
<1>12. Len(f) = n - k - pad
  BY <1>10, <1>11
<1> QED
  BY <1>5, <1>6, <1>8, <1>9, <1>11, <1>12 DEF o, n, p, l, pad, k

LEMMA PaddedAgain ==
    ASSUME NEW g \in GenericFrame, g.typ \in Paddable, SizeFits(g), ~Overpadded(g),
           NEW p, p = PadLength(g), NEW f, f = Fragment(g),
           NEW a \in Seq(Octet), Len(a) = Between(g)
    PROVE  /\ p \o (a \o f) \o Zeros(PadOctets(p)) \in Seq(Octet)
           /\ Len(p \o (a \o f) \o Zeros(PadOctets(p))) = Len(g.payload)
<1> DEFINE q == p \o (a \o f) \o Zeros(PadOctets(p))
           pad == PadOctets(p)
           n == Len(g.payload)
           l == Len(p)
           m == Len(a)
           e == Len(f)
           k == Ahead(g)
<1>1. /\ p \in Optional(Octet) /\ l \in Nat /\ pad \in Nat
      /\ k = l + Between(g) /\ k <= n /\ f \in Seq(Octet) /\ e = n - k - pad
  BY PaddedRead
<1>2. Padding(q, p, a, f)
  BY <1>1, PaddedWritten
<1> HIDE DEF q
<1>3. q \in Seq(Octet) /\ Len(q) = l + m + e + pad /\ m \in Nat /\ e \in Nat
  BY <1>2 DEF Padding
<1>4. n \in Nat /\ m = Between(g)
  BY GenericIs
<1> HIDE DEF pad, n, l, m, e, k
<1>5. Len(q) = n
  <2>1. k = l + m /\ e = n - k - pad
    <3>1. k = l + Between(g) /\ m = Between(g)
      BY <1>1, <1>4
    <3> QED
      BY <1>1, <3>1
  <2>2. l \in Nat /\ pad \in Nat /\ n \in Nat /\ m \in Nat
    BY <1>1, <1>3, <1>4
  <2>3. l + m + e + pad = n
    BY <2>1, <2>2
  <2> QED
    BY <1>3, <2>3
<1> QED
  BY <1>3, <1>5 DEF q, n

LEMMA DataStands ==
    ASSUME NEW g \in GenericFrame, g.typ = DATA, IsValid(g), ~Overpadded(g)
    PROVE  Stands(g)
<1> DEFINE o == g.payload
           p == PadLength(g)
           f == Fragment(g)
           t == DataFrame(g)
           a == <<>>
<1>1. o \in Seq(Octet) /\ g.stream_id \in StreamId
  BY GenericIs
<1>2. Typed(g) = t
  BY TypedIs
<1>3. SizeFits(g) /\ Constructible(t) /\ g.typ \in Paddable
  BY <1>2 DEF IsValid, Paddable
<1>4. /\ p \in Optional(Octet) /\ f \in Seq(Octet) /\ Len(p) \in Nat
      /\ Ahead(g) = Len(p) + Between(g) /\ Ahead(g) <= Len(o)
  BY <1>3, PaddedRead
<1>5. a \in Seq(Octet) /\ Len(a) = Between(g)
  BY DEF Between, HasPriority, DATA, HEADERS, PUSH_PROMISE
<1>6. t \in DataFields
  BY <1>1, <1>4 DEF DataFrame, DataFields
<1>7. t.typ = DATA /\ t \in TypedFrame
  BY <1>6 DEF TypedFrame, DataFrame
<1>8. TypedToGeneric(t) = DataToGeneric(t)
  BY <1>7, ToGenericIs
<1>9. TypedToGeneric(t).payload \in Seq(Octet) /\ Len(TypedToGeneric(t).payload) = Len(o)
  <2> DEFINE q == p \o (a \o f) \o Zeros(PadOctets(p))
  <2>1. TypedToGeneric(t).payload = q
    <3>1. t.pad_length = p /\ t.data = f
      BY DEF DataFrame
    <3>2. a \o f = f
      BY <1>4
    <3> HIDE DEF t, p, f
    <3>3. InPadding(t, t.data) = q
      BY <3>1, <3>2 DEF InPadding
    <3> HIDE DEF q
    <3> QED
      BY <1>8, <3>3 DEF DataToGeneric, Generic
  <2>2. q \in Seq(Octet) /\ Len(q) = Len(o)
    <3> HIDE DEF p, f, a, t
    <3>1. p = PadLength(g) /\ f = Fragment(g) /\ a \in Seq(Octet) /\ Len(a) = Between(g)
      BY <1>5 DEF p, f
    <3> QED
      BY <1>3, <3>1, PaddedAgain
  <2> HIDE DEF q, t, o
  <2> QED
    BY <2>1, <2>2
<1>10. ReadAs(t) = t
  BY <1>7 DEF ReadAs, DATA, HEADERS, PRIORITY, RST_STREAM,
              SETTINGS, PUSH_PROMISE, PING, GOAWAY, WINDOW_UPDATE, CONTINUATION
<1> HIDE DEF t
<1> QED
  BY <1>2, <1>7, <1>9, <1>10 DEF Stands

LEMMA PushPromiseStands ==
    ASSUME NEW g \in GenericFrame, g.typ = PUSH_PROMISE, IsValid(g), ~Overpadded(g)
    PROVE  Stands(g)
<1> DEFINE o == g.payload
           p == PadLength(g)
           f == Fragment(g)
           t == PushPromiseFrame(g)
           k == Ahead(g)
           from == k - 4
           w == SubSeq(o, from + 1, k)
           a == Low(w)
<1>1. o \in Seq(Octet) /\ g.stream_id \in StreamId
  BY GenericIs
<1>2. Typed(g) = t
  BY TypedIs
<1>3. SizeFits(g) /\ Constructible(t) /\ g.typ \in Paddable
  BY <1>2 DEF IsValid, Paddable
<1>4. /\ p \in Optional(Octet) /\ f \in Seq(Octet) /\ Len(p) \in Nat
      /\ Ahead(g) = Len(p) + Between(g) /\ Ahead(g) <= Len(o)
  BY <1>3, PaddedRead
<1>5. /\ a \in Seq(Octet) /\ Len(a) = Between(g) /\ a \in StreamId
      /\ SubSeq(o, k - 3, k) = w
  <2>1. Between(g) = 4
    BY DEF Between, HasPriority, DATA, HEADERS, PUSH_PROMISE
  <2> DEFINE l == Len(p)
  <2>2. l \in Nat /\ k = l + 4 /\ k <= Len(o)
    BY <1>4, <2>1
  <2> HIDE DEF o, p, k, l
  <2>3. from \in Nat /\ from <= k /\ k \in Nat /\ from + 1 = k - 3 /\ k - from = 4
    BY <2>2
  <2>4. SubSeq(o, k - 3, k) = w
    BY <2>3
  <2> HIDE DEF from
  <2>5. w \in Seq(Octet) /\ Len(w) = k - from
    BY <1>1, <2>2, <2>3, PieceIs
  <2> HIDE DEF w
  <2>6. a \in StreamId
    BY <2>3, <2>5, LowIs
  <2> HIDE DEF a
  <2> QED
    BY <2>1, <2>4, <2>6, WordIs
<1>6. t \in PushPromiseFields
  <2>1. t.promised_stream_id = a
    BY <1>5 DEF PushPromiseFrame
  <2> HIDE DEF a
  <2> QED
    BY <1>1, <1>4, <1>5, <2>1 DEF PushPromiseFrame, PushPromiseFields
<1>7. t.typ = PUSH_PROMISE /\ t \in TypedFrame
  BY <1>6 DEF TypedFrame, PushPromiseFrame
<1>8. TypedToGeneric(t) = PushPromiseToGeneric(t)
  BY <1>7, ToGenericIs
<1>9. TypedToGeneric(t).payload \in Seq(Octet) /\ Len(TypedToGeneric(t).payload) = Len(o)
  <2> DEFINE q == p \o (a \o f) \o Zeros(PadOctets(p))
  <2>1. TypedToGeneric(t).payload = q
    <3>1. t.pad_length = p /\ t.field_block_fragment = f /\ t.promised_stream_id = a
      BY <1>5 DEF PushPromiseFrame
    <3> HIDE DEF t, p, f, a
    <3>2. InPadding(t, t.promised_stream_id \o t.field_block_fragment) = q
      BY <3>1 DEF InPadding
    <3> HIDE DEF q
    <3> QED
      BY <1>8, <3>2 DEF PushPromiseToGeneric, Generic
  <2>2. q \in Seq(Octet) /\ Len(q) = Len(o)
    <3> HIDE DEF p, f, a, t
    <3>1. p = PadLength(g) /\ f = Fragment(g) /\ a \in Seq(Octet) /\ Len(a) = Between(g)
      BY <1>5 DEF p, f
    <3> QED
      BY <1>3, <3>1, PaddedAgain
  <2> HIDE DEF q, t, o
  <2> QED
    BY <2>1, <2>2
<1>10. ReadAs(t) = t
  BY <1>7 DEF ReadAs, DATA, HEADERS, PRIORITY, RST_STREAM,
              SETTINGS, PUSH_PROMISE, PING, GOAWAY, WINDOW_UPDATE, CONTINUATION
<1> HIDE DEF t
<1> QED
  BY <1>2, <1>7, <1>9, <1>10 DEF Stands

LEMMA HeadersStands ==
    ASSUME NEW g \in GenericFrame, g.typ = HEADERS, IsValid(g), ~Overpadded(g)
    PROVE  Stands(g)
<1> DEFINE o == g.payload
           p == PadLength(g)
           f == Fragment(g)
           t == HeadersFrame(g)
           k == Ahead(g)
           from == k - 5
           w == SubSeq(o, from + 1, k)
           r == PriorityIn(g)
           a == IF HasPriority(g) THEN PriorityOctets(t) ELSE <<>>
<1>1. o \in Seq(Octet) /\ g.stream_id \in StreamId
  BY GenericIs
<1>2. Typed(g) = t
  BY TypedIs
<1>3. SizeFits(g) /\ Constructible(t) /\ g.typ \in Paddable
  BY <1>2 DEF IsValid, Paddable
<1>4. /\ p \in Optional(Octet) /\ f \in Seq(Octet) /\ Len(p) \in Nat
      /\ Ahead(g) = Len(p) + Between(g) /\ Ahead(g) <= Len(o)
  BY <1>3, PaddedRead
<1>11. HasPriority(g) =>
          /\ r.exclusive \in Present(BOOLEAN) /\ r.stream_dependency \in Present(StreamId)
          /\ r.weight \in Present(Octet)
  <2> SUFFICES ASSUME HasPriority(g)
               PROVE  /\ r.exclusive \in Present(BOOLEAN) /\ r.stream_dependency \in Present(StreamId)
                      /\ r.weight \in Present(Octet)
    OBVIOUS
  <2>1. Between(g) = 5
    BY DEF Between, HEADERS, PUSH_PROMISE
  <2> DEFINE l == Len(p)
  <2>2. l \in Nat /\ k = l + 5 /\ k <= Len(o)
    BY <1>4, <2>1
  <2>3. r = PriorityOf(SubSeq(o, k - 4, k))
    BY DEF PriorityIn
  <2> HIDE DEF o, p, k, l, r
  <2>4. from \in Nat /\ from <= k /\ k \in Nat /\ from + 1 = k - 4 /\ k - from = 5
    BY <2>2
  <2>5. SubSeq(o, k - 4, k) = w
    BY <2>4
  <2> HIDE DEF from
  <2>6. w \in Seq(Octet) /\ Len(w) = k - from
    BY <1>1, <2>2, <2>4, PieceIs
  <2> HIDE DEF w
  <2>7. Len(w) = 5 /\ r = PriorityOf(w)
    BY <2>3, <2>4, <2>5, <2>6
  <2> QED
    BY <2>6, <2>7, PriorityRead
<1>12. ~HasPriority(g) => r.exclusive = <<>> /\ r.stream_dependency = <<>> /\ r.weight = <<>>
  BY DEF PriorityIn, NoPriority
<1>13. /\ t = [typ |-> HEADERS, stream_id |-> g.stream_id, end_stream |-> EndStreamOrAck \in g.flags,
               end_headers |-> EndHeaders \in g.flags, pad_length |-> p,
               exclusive |-> r.exclusive, stream_dependency |-> r.stream_dependency,
               weight |-> r.weight, field_block_fragment |-> f]
       /\ t.exclusive = r.exclusive /\ t.stream_dependency = r.stream_dependency
       /\ t.weight = r.weight /\ t.pad_length = p /\ t.field_block_fragment = f
  BY DEF HeadersFrame
<1> HIDE DEF r, t
<1>14. WholePriority(t) <=> HasPriority(g)
  <2>1. CASE HasPriority(g)
    <3>1. /\ t.exclusive \in Present(BOOLEAN) /\ t.stream_dependency \in Present(StreamId)
          /\ t.weight \in Present(Octet)
      BY <1>11, <1>13, <2>1
    <3>2. t.exclusive # <<>> /\ t.stream_dependency # <<>> /\ t.weight # <<>>
      BY <3>1, PresentIs
    <3> QED
      BY <2>1, <3>2 DEF WholePriority
  <2>2. CASE ~HasPriority(g)
    BY <1>12, <1>13, <2>2 DEF WholePriority
  <2> QED
    BY <2>1, <2>2
<1>5. a \in Seq(Octet) /\ Len(a) = Between(g)
  <2>1. CASE HasPriority(g)
    <3>1. a = WithTop(t.exclusive[1], t.stream_dependency[1]) \o t.weight
      BY <2>1 DEF PriorityOctets
    <3>2. /\ t.exclusive \in Present(BOOLEAN) /\ t.stream_dependency \in Present(StreamId)
          /\ t.weight \in Present(Octet)
      BY <1>11, <1>13, <2>1
    <3> HIDE DEF a
    <3>3. a \in Seq(Octet) /\ Len(a) = 5
      BY <3>1, <3>2, PriorityWritten
    <3>4. Between(g) = 5
      BY <2>1 DEF Between, HEADERS, PUSH_PROMISE
    <3> QED
      BY <3>3, <3>4
  <2>2. CASE ~HasPriority(g)
    BY <2>2 DEF Between, HEADERS, PUSH_PROMISE
  <2> QED
    BY <2>1, <2>2
<1>6. t \in HeadersFields
  <2>1. /\ r.exclusive \in Optional(BOOLEAN) /\ r.stream_dependency \in Optional(StreamId)
        /\ r.weight \in Optional(Octet)
    <3>1. CASE HasPriority(g)
      BY <1>11, <3>1, PresentIs
    <3>2. CASE ~HasPriority(g)
      BY <1>12, <3>2, PresentIs
    <3> QED
      BY <3>1, <3>2
  <2>2. (EndStreamOrAck \in g.flags) \in BOOLEAN /\ (EndHeaders \in g.flags) \in BOOLEAN
    OBVIOUS
  <2> HIDE DEF p, f
  <2> QED
    BY <1>1, <1>4, <1>13, <2>1, <2>2 DEF HeadersFields
<1>7. t.typ = HEADERS /\ t \in TypedFrame
  BY <1>6 DEF TypedFrame, HeadersFields
<1>8. TypedToGeneric(t) = HeadersToGeneric(t)
  BY <1>7, ToGenericIs
<1>9. TypedToGeneric(t).payload \in Seq(Octet) /\ Len(TypedToGeneric(t).payload) = Len(o)
  <2> DEFINE q == p \o (a \o f) \o Zeros(PadOctets(p))
  <2>1. TypedToGeneric(t).payload = q
    <3>1. a = IF WholePriority(t) THEN PriorityOctets(t) ELSE <<>>
      BY <1>14
    <3> HIDE DEF p, f, a
    <3>2. HeadersPayload(t) = q
      BY <1>13, <3>1 DEF HeadersPayload, InPadding
    <3> HIDE DEF q
    <3> QED
      BY <1>8, <3>2 DEF HeadersToGeneric, Generic
  <2>2. q \in Seq(Octet) /\ Len(q) = Len(o)
    <3> HIDE DEF p, f, a, t
    <3>1. p = PadLength(g) /\ f = Fragment(g) /\ a \in Seq(Octet) /\ Len(a) = Between(g)
      BY <1>5 DEF p, f
    <3> QED
      BY <1>3, <3>1, PaddedAgain
  <2> HIDE DEF q, t, o
  <2> QED
    BY <2>1, <2>2
<1>10. ReadAs(t) = t
  <2>1. CASE HasPriority(g)
    BY <1>7, <1>14, <2>1 DEF ReadAs, AsRead
  <2>2. CASE ~HasPriority(g)
    <3>1. AsRead(t) = [typ |-> HEADERS, stream_id |-> t.stream_id, end_stream |-> t.end_stream,
                       end_headers |-> t.end_headers, pad_length |-> t.pad_length,
                       exclusive |-> <<>>, stream_dependency |-> <<>>, weight |-> <<>>,
                       field_block_fragment |-> t.field_block_fragment]
      BY <1>3, <1>6, <1>14, <2>2, AsReadIs
    <3>2. t.exclusive = <<>> /\ t.stream_dependency = <<>> /\ t.weight = <<>>
      BY <1>12, <1>13, <2>2
    <3>3. AsRead(t) = t
      BY <1>6, <3>1, <3>2 DEF HeadersFields
    <3> QED
      BY <1>7, <3>3 DEF ReadAs
  <2> QED
    BY <2>1, <2>2
<1> HIDE DEF t
<1> QED
  BY <1>2, <1>7, <1>9, <1>10 DEF Stands

(* Whatever from_h2frame accepts (http2.py:305-331), the typed frame is as *)
(* long as it, and comes back from what to_generic makes of it.            *)
THEOREM ValidStands ==
    ASSUME NEW g \in GenericFrame, IsValid(g), ~Overpadded(g)
    PROVE  /\ Typed(g) \in TypedFrame /\ Constructible(Typed(g))
           /\ Len(TypedToGeneric(Typed(g)).payload) = Len(g.payload)
           /\ Returns(Typed(g), Typed(g))
<1>1. Stands(g)
  <2>1. \/ g.typ = DATA \/ g.typ = HEADERS \/ g.typ = PRIORITY \/ g.typ = RST_STREAM
        \/ g.typ = SETTINGS \/ g.typ = PUSH_PROMISE \/ g.typ = PING \/ g.typ = GOAWAY
        \/ g.typ = WINDOW_UPDATE \/ g.typ = CONTINUATION
    BY DEF IsValid, DATA, HEADERS, PRIORITY, RST_STREAM, SETTINGS, PUSH_PROMISE, PING, GOAWAY, WINDOW_UPDATE, CONTINUATION
  <2> QED
    BY <2>1, DataStands, HeadersStands, PriorityStands, RstStreamStands, SettingsStands, PushPromiseStands, PingStands, GoAwayStands, WindowUpdateStands, ContinuationStands
<1> DEFINE t == Typed(g)
           q == TypedToGeneric(t).payload
<1>2. t \in TypedFrame /\ q \in Seq(Octet) /\ Len(q) = Len(g.payload) /\ ReadAs(t) = t
  BY <1>1 DEF Stands
<1>3. Constructible(t)
  BY DEF IsValid
<1>4. q \in Payload
  <2>1. Len(q) < 2^24
    <3> HIDE DEF q
    <3> QED
      BY <1>2, GenericIs
  <2> QED
    BY <1>2, <2>1 DEF Payload
<1> HIDE DEF t
<1>5. Returns(t, t)
  BY <1>2, <1>3, <1>4, TypedComesBack DEF q
<1> QED
  BY <1>2, <1>3, <1>5 DEF t, q

-----------------------------------------------------------------------------
(* The machine.  A generic frame has a payload of its own, a typed one has *)
(* not.                                                                    *)
LEMMA GenericOrNot ==
    /\ \A g \in GenericFrame : IsGeneric(g)
    /\ \A t \in TypedFrame : ~IsGeneric(t)
<1>1. \A g \in GenericFrame : IsGeneric(g)
  BY DEF GenericFrame, IsGeneric
<1>2. ASSUME NEW t \in TypedFrame
      PROVE  ~IsGeneric(t)
  BY DEF TypedFrame, IsGeneric, DataFields, HeadersFields, PriorityFields, RstStreamFields,
         SettingsFields, PushPromiseFields, PingFields, GoAwayFields, WindowUpdateFields,
         ContinuationFields
<1> QED
  BY <1>1, <1>2

(* What a program can build, and what is read of it.                       *)
Buildable(f) ==
    \/ f \in GenericFrame
    \/ f \in TypedFrame /\ Constructible(f) /\ TypedToGeneric(f).payload \in Payload

LEMMA BuiltIs ==
    ASSUME NEW f, Buildable(f)
    PROVE  /\ ToGeneric(f) \in GenericFrame
           /\ ~IsGeneric(f) =>
                /\ f \in TypedFrame /\ IsValid(ToGeneric(f)) /\ ~Overpadded(ToGeneric(f))
                /\ Typed(ToGeneric(f)) = ReadAs(f)
<1>1. CASE f \in GenericFrame
  BY <1>1, GenericOrNot DEF ToGeneric
<1>2. CASE f \in TypedFrame /\ Constructible(f) /\ TypedToGeneric(f).payload \in Payload
  <2>1. Returns(f, ReadAs(f))
    BY <1>2, TypedComesBack
  <2>2. ~IsGeneric(f) /\ ToGeneric(f) = TypedToGeneric(f)
    BY <1>2, GenericOrNot DEF ToGeneric
  <2> QED
    BY <1>2, <2>1, <2>2 DEF Returns
<1> QED
  BY <1>1, <1>2 DEF Buildable

LEMMA SpecializedIs ==
    ASSUME NEW g \in GenericFrame, ~Overpadded(g)
    PROVE  LET t == Specialize(g)
               again == ToGeneric(t)
           IN  /\ t \in GenericFrame \cup TypedFrame
               /\ IsGeneric(t) \/ Constructible(t)
               /\ Len(again.payload) = Len(g.payload)
               /\ ~Overpadded(again) /\ Specialize(again) = t
<1> DEFINE t == Specialize(g)
           again == ToGeneric(t)
<1>1. CASE IsValid(g)
  <2>1. t = Typed(g)
    BY <1>1 DEF Specialize
  <2> HIDE DEF t
  <2>2. /\ t \in TypedFrame /\ Constructible(t) /\ Returns(t, t)
        /\ Len(TypedToGeneric(t).payload) = Len(g.payload)
    BY <1>1, <2>1, ValidStands
  <2>3. ~IsGeneric(t)
    BY <2>2, GenericOrNot
  <2>4. again = TypedToGeneric(t)
    BY <2>3 DEF ToGeneric
  <2> HIDE DEF again
  <2>5. IsValid(again) /\ ~Overpadded(again) /\ Typed(again) = t
    BY <2>2, <2>4 DEF Returns
  <2>6. Specialize(again) = t
    BY <2>5 DEF Specialize
  <2> QED
    BY <2>2, <2>4, <2>5, <2>6 DEF t, again
<1>2. CASE ~IsValid(g)
  <2>1. t = g
    BY <1>2 DEF Specialize
  <2>2. IsGeneric(g)
    BY GenericOrNot
  <2>3. ToGeneric(g) = g
    BY <2>2 DEF ToGeneric
  <2> QED
    BY <2>1, <2>2, <2>3
<1> QED
  BY <1>1, <1>2

-----------------------------------------------------------------------------
(* What was written, frame by frame, and the octet each of them ends at.   *)
Written(b) == [i \in 1..Len(b) |-> ToBytes(ToGeneric(b[i]))]
End(b, n) == Len(Flat(Written(b), n))

LEMMA WrittenIs ==
    ASSUME NEW S, NEW b \in Seq(S), \A i \in 1..Len(b) : Buildable(b[i])
    PROVE  /\ Pieces(Written(b), Len(b), Octet)
           /\ \A i \in 1..Len(b) :
                /\ ToGeneric(b[i]) \in GenericFrame /\ Written(b)[i] = ToBytes(ToGeneric(b[i]))
                /\ Len(Written(b)[i]) = 9 + Len(ToGeneric(b[i]).payload)
                /\ Len(Written(b)[i]) > 0
<1>1. Len(b) \in Nat
  OBVIOUS
<1>2. ASSUME NEW i \in 1..Len(b)
      PROVE  LET g == ToGeneric(b[i])
                 w == Written(b)[i]
             IN  /\ g \in GenericFrame /\ w = ToBytes(g) /\ w \in Seq(Octet)
                 /\ Len(w) = 9 + Len(g.payload) /\ Len(w) > 0
  <2> DEFINE g == ToGeneric(b[i])
             w == Written(b)[i]
             n == Len(g.payload)
  <2>1. g \in GenericFrame
    BY BuiltIs
  <2>2. w = ToBytes(g)
    BY DEF Written
  <2> HIDE DEF g, w
  <2>3. w \in Seq(Octet) /\ Len(w) = 9 + n
    BY <2>1, <2>2, BytesAre
  <2>4. n \in Nat
    BY <2>1, GenericIs
  <2> HIDE DEF n
  <2>5. Len(w) > 0
    BY <2>3, <2>4
  <2> QED
    BY <2>1, <2>2, <2>3, <2>5 DEF g, w, n
<1> QED
  BY <1>1, <1>2 DEF Pieces

LEMMA SentIs ==
    ASSUME NEW n \in 0..Len(built), Len(built) \in Nat
    PROVE  Sent(n) = Flat(Written(built), n)
<1>1. [i \in 1..n |-> Written(built)[i]] = [i \in 1..n |-> ToBytes(ToGeneric(built[i]))]
  BY DEF Written
<1> QED
  BY <1>1 DEF Sent, Flat

(* The parser is always between two of the frames that were built, those   *)
(* behind it are in `frames`, and it raises inside the next one; what is   *)
(* specialized is in `typed`.                                              *)
Phases == {"receive", "parse", "specialize", "done", "H2Error", "AssertionError"}

Built ==
    /\ built \in Programs /\ built \in Seq(GenericFrame \cup TypedFrame)
    /\ \A i \in 1..Len(built) : Buildable(built[i])

Received ==
    \E k \in 0..End(built, Len(built)) :
        Len(data) = k /\ data = SubSeq(Flat(Written(built), Len(built)), 1, k)

BetweenFrames ==
    /\ frames \in Seq(GenericFrame) /\ Len(frames) <= Len(built)
    /\ \A i \in 1..Len(frames) : frames[i] = ToGeneric(built[i])
    /\ pc # "H2Error" => at = End(built, Len(frames)) /\ at <= Len(data)

TornInside ==
    pc = "H2Error" =>
        \E n \in 0..Len(built) :
            n < Len(built) /\ End(built, n) < Len(data) /\ Len(data) < End(built, n + 1)

SpecializedSoFar ==
    /\ typed \in Seq(GenericFrame \cup TypedFrame) /\ Len(typed) <= Len(frames)
    /\ \A i \in 1..Len(typed) : typed[i] = Specialize(frames[i]) /\ ~Overpadded(frames[i])

InPhase ==
    /\ pc \in Phases
    /\ pc = "receive" => frames = <<>>
    /\ pc \in {"receive", "parse", "H2Error"} => typed = <<>>
    /\ pc \in {"specialize", "done", "AssertionError"} => at = Len(data)
    /\ pc = "AssertionError" => \E i \in 1..Len(frames) : Overpadded(frames[i])

InStep ==
    Built /\ Received /\ BetweenFrames /\ TornInside /\ SpecializedSoFar /\ InPhase

(* The ends of the frames grow, and octets cut off at one of them are the  *)
(* frames up to there.                                                     *)
LEMMA EndsAre ==
    ASSUME Built
    PROVE  /\ Len(built) \in Nat /\ End(built, 0) = 0
           /\ \A n \in 0..Len(built) : End(built, n) \in Nat /\ Flat(Written(built), n) \in Seq(Octet)
           /\ \A n, k \in 0..Len(built) : n < k => End(built, n) < End(built, k)
           /\ \A n, k \in 0..Len(built) : n <= k =>
                 /\ End(built, n) <= End(built, k)
                 /\ \A i \in 1..End(built, n) :
                        Flat(Written(built), k)[i] = Flat(Written(built), n)[i]
<1> DEFINE f == Written(built)
           m == Len(built)
<1>1. /\ m \in Nat /\ Pieces(f, m, Octet) /\ \A i \in 1..m : Len(f[i]) > 0
  BY WrittenIs DEF Built
<1> HIDE DEF f, m
<1>2. Flat(f, 0) = <<>> /\ \A n \in 0..m : Flat(f, n) \in Seq(Octet)
  BY <1>1, FlatIs
<1>3. ASSUME NEW n \in 0..m, NEW k \in 0..m, n <= k
      PROVE  /\ Len(Flat(f, n)) <= Len(Flat(f, k))
             /\ n < k => Len(Flat(f, n)) < Len(Flat(f, k))
             /\ \A i \in 1..Len(Flat(f, n)) : Flat(f, k)[i] = Flat(f, n)[i]
  BY <1>1, <1>3, FlatGrows
<1>4. \A n \in 0..m : Len(Flat(f, n)) \in Nat
  BY <1>2
<1>5. \A n, k \in 0..m : n < k => n <= k
  BY <1>1
<1>6. Len(Flat(f, 0)) = 0
  BY <1>2
<1> QED
  BY <1>1, <1>2, <1>3, <1>4, <1>5, <1>6 DEF f, m, End

(* A turn of the parser's loop.                                            *)
LEMMA NextFrame ==
    ASSUME InStep, pc = "parse", at < Len(data)
    PROVE  LET n == Len(frames)
               g == ToGeneric(built[n + 1])
           IN  /\ n \in 0..Len(built) /\ n < Len(built) /\ g \in GenericFrame
               /\ End(built, n + 1) = at + 9 + Len(g.payload)
               /\ FrameIsThere(Rest) => Parsed(Rest) = g /\ End(built, n + 1) <= Len(data)
               /\ ~FrameIsThere(Rest) => Len(data) < End(built, n + 1)
<1> DEFINE n == Len(frames)
           m == Len(built)
           f == Written(built)
           g == ToGeneric(built[n + 1])
           w == f[n + 1]
           whole == Flat(f, m)
           here == Flat(f, n)
           next == Flat(f, n + 1)
           r == SubSeq(data, at + 1, Len(data))
<1>1. /\ n \in Nat /\ m \in Nat /\ n <= m /\ at = Len(here)
  BY EndsAre DEF InStep, BetweenFrames, End
<1>2. PICK k \in 0..Len(whole) : Len(data) = k /\ data = SubSeq(whole, 1, k)
  BY DEF InStep, Received, End
<1>3. n < m
  <2>1. n # m
    <3> SUFFICES ASSUME n = m PROVE FALSE
      OBVIOUS
    <3>1. at = Len(whole)
      BY <1>1
    <3>2. Len(whole) \in Nat
      BY EndsAre, <1>1 DEF InStep, End
    <3> HIDE DEF whole
    <3> QED
      BY <1>2, <3>1, <3>2
  <2> HIDE DEF n, m
  <2> QED
    BY <1>1, <2>1
<1>4. /\ Pieces(f, m, Octet) /\ \A i \in 1..m : Len(f[i]) > 0
  BY WrittenIs DEF InStep, Built
<1>5. g \in GenericFrame /\ w = ToBytes(g) /\ Len(w) = 9 + Len(g.payload)
  <2>1. n + 1 \in 1..m
    <3> HIDE DEF n, m
    <3> QED
      BY <1>1, <1>3
  <2> QED
    BY <2>1, WrittenIs DEF InStep, Built
<1> HIDE DEF f, g, n, m
<1>6. /\ r \in Seq(Octet) /\ Len(r) = k - at /\ Len(next) = at + Len(w)
      /\ Len(w) <= Len(r) => Len(next) <= k /\ \A i \in 1..Len(w) : r[i] = w[i]
      /\ Len(r) < Len(w) => k < Len(next) /\ \A i \in 1..Len(r) : r[i] = w[i]
  <2>1. k \in 0..Len(Flat(f, m)) /\ data = SubSeq(Flat(f, m), 1, k)
    BY <1>2
  <2>2. n \in 0..m /\ n < m /\ at = Len(Flat(f, n)) /\ at <= k
    <3>1. at <= k
      BY <1>2 DEF InStep, BetweenFrames
    <3> QED
      BY <1>1, <1>3, <3>1
  <2>3. /\ SubSeq(data, at + 1, Len(data)) \in Seq(Octet)
        /\ BeginsWith(SubSeq(data, at + 1, Len(data)), f[n + 1], k, at, Len(Flat(f, n + 1)))
    BY <1>4, <2>1, <2>2, CutPiece
  <2> QED
    BY <2>3 DEF BeginsWith
<1>7. Rest = r
  BY DEF Rest
<1> HIDE DEF r, w, next, whole, here
<1>8. Len(w) \in Nat /\ Len(r) \in Nat
  <2>1. w \in Seq(Octet)
    BY <1>5, BytesAre
  <2> QED
    BY <1>6, <2>1
<1>9. ASSUME Len(w) <= Len(r)
      PROVE  FrameIsThere(r) /\ Parsed(r) = g /\ Len(next) <= k
  <2>1. Len(ToBytes(g)) <= Len(r) /\ \A i \in 1..Len(ToBytes(g)) : r[i] = ToBytes(g)[i]
    BY <1>5, <1>6, <1>9
  <2>2. FrameIsThere(r) /\ Parsed(r) = g
    BY <1>5, <1>6, <2>1, GenericComesBack
  <2> QED
    BY <1>6, <1>9, <2>2
<1>10. ASSUME Len(r) < Len(w)
       PROVE  ~FrameIsThere(r) /\ k < Len(next)
  <2>1. Len(r) < Len(ToBytes(g)) /\ \A i \in 1..Len(r) : r[i] = ToBytes(g)[i]
    BY <1>5, <1>6, <1>10
  <2>2. ~FrameIsThere(r)
    BY <1>5, <1>6, <2>1, TornFrameRefused
  <2> QED
    BY <1>6, <1>10, <2>2
<1>11. Len(w) <= Len(r) \/ Len(r) < Len(w)
  BY <1>8
<1>12. End(built, n + 1) = Len(next)
  BY DEF End, next, f
<1>13. Len(next) = at + 9 + Len(g.payload)
  <2>1. Len(g.payload) \in Nat /\ at \in Nat
    <3>1. at \in Nat
      BY <1>1, EndsAre DEF here, f, End, InStep, m
    <3> QED
      BY <1>5, <3>1, GenericIs
  <2> DEFINE e == Len(g.payload)
             l == Len(w)
  <2>2. Len(next) = at + l /\ l = 9 + e /\ e \in Nat /\ at \in Nat
    BY <1>5, <1>6, <2>1 DEF BeginsWith
  <2> HIDE DEF e, l
  <2>3. Len(next) = at + 9 + e
    BY <2>2
  <2> QED
    BY <2>3 DEF e
<1>14. n \in 0..m
  BY <1>1
<1> QED
  <2>1. FrameIsThere(Rest) => Parsed(Rest) = g /\ End(built, n + 1) <= Len(data)
    BY <1>2, <1>7, <1>9, <1>10, <1>11, <1>12
  <2>2. ~FrameIsThere(Rest) => Len(data) < End(built, n + 1)
    BY <1>2, <1>7, <1>9, <1>10, <1>11, <1>12
  <2>3. End(built, n + 1) = at + 9 + Len(g.payload)
    BY <1>12, <1>13
  <2> QED
    BY <1>3, <1>5, <1>14, <2>1, <2>2, <2>3 DEF n, m, g

-----------------------------------------------------------------------------
LEMMA AtTheStart == Init => InStep
<1> SUFFICES ASSUME Init PROVE InStep
  OBVIOUS
<1> USE DEF Init
<1>1. Built
  <2>1. /\ built \in Programs
        /\ built \in Seq(GenericFrame \cup {t \in TypedFrame : TypedToGeneric(t).payload \in Payload})
    BY ProgramsAssumption
  <2> DEFINE S == GenericFrame \cup {t \in TypedFrame : TypedToGeneric(t).payload \in Payload}
  <2>2. \A i \in 1..Len(built) : built[i] \in S
    <3> HIDE DEF S
    <3> QED
      BY <2>1 DEF S
  <2>3. \A i \in 1..Len(built) : IsGeneric(built[i]) \/ Constructible(built[i])
    <3>1. DOMAIN built = 1..Len(built)
      BY <2>1
    <3> QED
      BY <3>1
  <2>4. \A i \in 1..Len(built) : Buildable(built[i])
    BY <2>2, <2>3, GenericOrNot DEF Buildable
  <2>5. built \in Seq(GenericFrame \cup TypedFrame)
    <3> DEFINE T == GenericFrame \cup TypedFrame
    <3>1. S \subseteq T
      OBVIOUS
    <3>2. built \in Seq(S)
      BY <2>1
    <3> HIDE DEF S, T
    <3>3. built \in Seq(T)
      BY <3>1, <3>2
    <3> QED
      BY <3>3 DEF T
  <2> QED
    BY <2>1, <2>4, <2>5 DEF Built
<1>2. Len(built) \in Nat /\ End(built, 0) = 0 /\ End(built, Len(built)) \in Nat
      /\ Flat(Written(built), Len(built)) \in Seq(Octet)
  BY <1>1, EndsAre
<1>3. Received
  <2> DEFINE whole == Flat(Written(built), Len(built))
             e == End(built, Len(built))
  <2>1. whole \in Seq(Octet) /\ e \in Nat
    BY <1>2
  <2> HIDE DEF whole, e
  <2>2. 0 \in 0..e /\ Len(data) = 0 /\ data = SubSeq(whole, 1, 0)
    BY <2>1
  <2> QED
    BY <2>2 DEF Received, whole, e
<1>4. BetweenFrames
  BY <1>2 DEF BetweenFrames
<1>5. TornInside /\ SpecializedSoFar /\ InPhase
  BY DEF TornInside, SpecializedSoFar, InPhase, Phases
<1> QED
  BY <1>1, <1>3, <1>4, <1>5 DEF InStep

LEMMA EveryStep == InStep /\ [Next]_vars => InStep'
<1> SUFFICES ASSUME InStep, [Next]_vars PROVE InStep'
  OBVIOUS
<1> USE DEF InStep
<1>1. Len(built) \in Nat /\ Len(frames) \in Nat /\ Len(typed) \in Nat /\ Len(data) \in Nat
  <2>1. PICK k \in 0..End(built, Len(built)) : Len(data) = k
    BY DEF Received
  <2>2. End(built, Len(built)) \in Nat
    BY EndsAre
  <2>3. Len(data) \in Nat
    BY <2>1, <2>2
  <2> QED
    BY <2>3, EndsAre DEF BetweenFrames, SpecializedSoFar
<1>2. CASE Receive
  <2>1. /\ built' = built /\ at' = at /\ frames' = frames /\ typed' = typed
        /\ pc = "receive" /\ pc' = "parse" /\ frames = <<>> /\ typed = <<>>
    BY <1>2 DEF Receive, InPhase
  <2>2. Built'
    BY <2>1 DEF Built
  <2>3. at = 0
    BY <2>1, EndsAre DEF BetweenFrames
  <2> DEFINE whole == Flat(Written(built), Len(built))
             e == End(built, Len(built))
  <2>4. whole \in Seq(Octet) /\ e \in Nat /\ Len(whole) = e
    BY EndsAre DEF End
  <2>5. Sent(Len(built)) = whole
    BY <1>1, SentIs
  <2>6. PICK k \in 0..Len(whole) : data' = SubSeq(whole, 1, k)
    BY <1>2, <2>5 DEF Receive
  <2> HIDE DEF whole, e
  <2>7. k \in 0..e /\ Len(data') = k
    <3>1. Len(SubSeq(whole, 1, k)) = k
      BY <2>4, <2>6, FirstOf
    <3> QED
      BY <2>4, <2>6, <3>1
  <2>8. Received'
    BY <2>1, <2>6, <2>7 DEF Received, whole, e
  <2>9. BetweenFrames'
    <3>1. at' = End(built', Len(frames')) /\ at' <= Len(data')
      <4>1. at <= k
        BY <2>3, <2>4, <2>7
      <4> QED
        BY <2>1, <2>7, <4>1 DEF BetweenFrames
    <3> QED
      BY <2>1, <3>1 DEF BetweenFrames
  <2>10. (TornInside /\ SpecializedSoFar /\ InPhase)'
    BY <2>1 DEF TornInside, SpecializedSoFar, InPhase, Phases
  <2> QED
    BY <2>2, <2>8, <2>9, <2>10
<1>3. CASE ParseFrame
  <2>1. /\ built' = built /\ data' = data /\ typed' = typed /\ pc' = pc /\ pc = "parse"
        /\ at < Len(data) /\ FrameIsThere(Rest) /\ typed = <<>>
        /\ frames' = Append(frames, Parsed(Rest))
        /\ at' = at + 9 + Len(Parsed(Rest).payload)
    BY <1>3 DEF ParseFrame, InPhase
  <2>2. Built' /\ Received'
    BY <2>1 DEF Built, Received
  <2> DEFINE n == Len(frames)
             g == ToGeneric(built[n + 1])
  <2>3. /\ n \in 0..Len(built) /\ n < Len(built) /\ g \in GenericFrame /\ Parsed(Rest) = g
        /\ End(built, n + 1) = at + 9 + Len(g.payload) /\ End(built, n + 1) <= Len(data)
    BY <2>1, NextFrame
  <2> HIDE DEF g
  <2>4. /\ frames' \in Seq(GenericFrame) /\ Len(frames') = n + 1
        /\ \A i \in 1..n : frames'[i] = frames[i]
        /\ frames'[n + 1] = g
    BY <2>1, <2>3 DEF BetweenFrames
  <2>5. BetweenFrames'
    <3>1. \A i \in 1..(n + 1) : frames'[i] = ToGeneric(built[i])
      <4>1. \A i \in 1..n : frames[i] = ToGeneric(built[i])
        BY DEF BetweenFrames
      <4>2. n \in Nat
        BY <1>1
      <4> HIDE DEF n
      <4>3. \A i \in 1..(n + 1) : i \in 1..n \/ i = n + 1
        BY <4>2
      <4> QED
        BY <2>4, <4>1, <4>3 DEF g
    <3>2. n + 1 <= Len(built)
      BY <1>1, <2>3
    <3>3. at' = End(built, n + 1) /\ at' <= Len(data)
      BY <2>1, <2>3
    <3> HIDE DEF n
    <3> QED
      BY <2>1, <2>4, <3>1, <3>2, <3>3 DEF BetweenFrames
  <2>6. (TornInside /\ InPhase)'
    BY <2>1 DEF TornInside, InPhase, Phases
  <2>7. SpecializedSoFar'
    <3>1. typed' = <<>> /\ Len(frames') \in Nat
      BY <2>1, <2>4
    <3> QED
      BY <3>1 DEF SpecializedSoFar
  <2> QED
    BY <2>2, <2>5, <2>6, <2>7
<1>4. CASE ParseRaises
  <2>1. /\ built' = built /\ data' = data /\ at' = at /\ typed' = typed
        /\ pc = "parse" /\ pc' = "H2Error" /\ frames' = <<>> /\ typed = <<>>
        /\ at < Len(data) /\ ~FrameIsThere(Rest)
    BY <1>4 DEF ParseRaises, InPhase
  <2>2. Built' /\ Received'
    BY <2>1 DEF Built, Received
  <2>3. BetweenFrames'
    BY <1>1, <2>1 DEF BetweenFrames
  <2>4. TornInside'
    <3> DEFINE n == Len(frames)
    <3>1. n \in 0..Len(built) /\ n < Len(built) /\ Len(data) < End(built, n + 1)
      BY <2>1, NextFrame
    <3>2. End(built, n) < Len(data)
      BY <2>1 DEF BetweenFrames
    <3> HIDE DEF n
    <3> QED
      BY <2>1, <3>1, <3>2 DEF TornInside
  <2>5. (SpecializedSoFar /\ InPhase)'
    BY <2>1 DEF SpecializedSoFar, InPhase, Phases
  <2> QED
    BY <2>2, <2>3, <2>4, <2>5
<1>5. CASE ParseEnds
  <2>1. /\ built' = built /\ data' = data /\ at' = at /\ typed' = typed /\ frames' = frames
        /\ pc = "parse" /\ pc' = "specialize" /\ at >= Len(data) /\ typed = <<>>
    BY <1>5 DEF ParseEnds, InPhase
  <2>2. Built' /\ Received' /\ BetweenFrames'
    BY <2>1 DEF Built, Received, BetweenFrames
  <2>3. at = Len(data)
    <3>1. at <= Len(data) /\ at = End(built, Len(frames))
      BY <2>1 DEF BetweenFrames
    <3>2. at \in Nat
      BY <1>1, <3>1, EndsAre DEF BetweenFrames
    <3> QED
      BY <1>1, <2>1, <3>1, <3>2
  <2>4. (TornInside /\ SpecializedSoFar /\ InPhase)'
    BY <2>1, <2>3 DEF TornInside, SpecializedSoFar, InPhase, Phases
  <2> QED
    BY <2>2, <2>4
<1>6. CASE SpecializeFrame
  <2> DEFINE n == Len(typed)
             g == frames[n + 1]
             t == Specialize(g)
  <2>1. /\ built' = built /\ data' = data /\ at' = at /\ frames' = frames /\ pc' = pc
        /\ pc = "specialize" /\ n < Len(frames) /\ ~Overpadded(g) /\ typed' = Append(typed, t)
    BY <1>6 DEF SpecializeFrame
  <2>2. Built' /\ Received' /\ BetweenFrames' /\ TornInside' /\ InPhase'
    BY <2>1 DEF Built, Received, BetweenFrames, TornInside, InPhase, Phases
  <2>3. g \in GenericFrame
    <3>1. n + 1 \in 1..Len(frames)
      BY <1>1, <2>1
    <3> QED
      BY <3>1, ElementOfSeq DEF BetweenFrames
  <2> DEFINE T == GenericFrame \cup TypedFrame
  <2>4. t \in T
    BY <2>1, <2>3, SpecializedIs
  <2>5. typed \in Seq(T)
    BY DEF SpecializedSoFar
  <2> HIDE DEF t, T
  <2>6. /\ typed' \in Seq(T) /\ Len(typed') = n + 1
        /\ \A i \in 1..n : typed'[i] = typed[i]
        /\ typed'[n + 1] = t
    BY <2>1, <2>4, <2>5
  <2>7. SpecializedSoFar'
    <3>1. \A i \in 1..(n + 1) : typed'[i] = Specialize(frames[i]) /\ ~Overpadded(frames[i])
      <4>1. \A i \in 1..n : typed[i] = Specialize(frames[i]) /\ ~Overpadded(frames[i])
        BY DEF SpecializedSoFar
      <4>2. n \in Nat
        BY <1>1
      <4>3. t = Specialize(frames[n + 1]) /\ ~Overpadded(frames[n + 1])
        BY <2>1 DEF t
      <4> HIDE DEF n
      <4>4. \A i \in 1..(n + 1) : i \in 1..n \/ i = n + 1
        BY <4>2
      <4> QED
        BY <2>6, <4>1, <4>3, <4>4
    <3>2. n + 1 <= Len(frames)
      BY <1>1, <2>1
    <3> HIDE DEF n
    <3> QED
      BY <2>1, <2>6, <3>1, <3>2 DEF SpecializedSoFar, T
  <2> QED
    BY <2>2, <2>7
<1>7. CASE SpecializeRaises
  <2>1. /\ built' = built /\ data' = data /\ at' = at /\ frames' = frames
        /\ pc = "specialize" /\ pc' = "AssertionError" /\ typed' = <<>>
        /\ Len(typed) < Len(frames) /\ Overpadded(frames[Len(typed) + 1])
    BY <1>7 DEF SpecializeRaises
  <2>2. Built' /\ Received' /\ BetweenFrames' /\ TornInside' /\ SpecializedSoFar'
    BY <1>1, <2>1 DEF Built, Received, BetweenFrames, TornInside, SpecializedSoFar
  <2>3. Len(typed) + 1 \in 1..Len(frames)
    BY <1>1, <2>1
  <2>4. InPhase'
    BY <2>1, <2>3 DEF InPhase, Phases
  <2> QED
    BY <2>2, <2>4
<1>8. CASE SpecializeEnds
  <2>1. /\ built' = built /\ data' = data /\ at' = at /\ frames' = frames /\ typed' = typed
        /\ pc = "specialize" /\ pc' = "done"
    BY <1>8 DEF SpecializeEnds
  <2> QED
    BY <2>1 DEF Built, Received, BetweenFrames, TornInside, SpecializedSoFar, InPhase, Phases
<1>9. CASE UNCHANGED vars
  BY <1>9 DEF vars, Built, Received, BetweenFrames, TornInside, SpecializedSoFar, InPhase
<1> QED
  BY <1>2, <1>3, <1>4, <1>5, <1>6, <1>7, <1>8, <1>9 DEF Next

(* However the data was cut, parse_generic_frames is always between two of *)
(* the frames that were written, and parse_frames has specialized the      *)
(* first of those parsed (http2.py:787-799).                               *)
THEOREM AlwaysInStep == Spec => []InStep
<1>1. Init => InStep
  BY AtTheStart
<1>2. InStep /\ [Next]_vars => InStep'
  BY EveryStep
<1> QED
  BY <1>1, <1>2, PTL DEF Spec

-----------------------------------------------------------------------------
(* What the runs check.                                                    *)
LEMMA WhereTheParserIs ==
    ASSUME InStep
    PROVE  FramesAreTheData
<1> SUFFICES ASSUME pc # "H2Error"
             PROVE  FlattenSeq([i \in DOMAIN frames |-> ToBytes(frames[i])]) = SubSeq(data, 1, at)
  BY DEF FramesAreTheData
<1> USE DEF InStep
<1> DEFINE n == Len(frames)
           m == Len(built)
           f == Written(built)
           here == Flat(f, n)
           whole == Flat(f, m)
<1>1. n \in 0..m /\ m \in 0..m /\ n <= m /\ at = End(built, n) /\ at <= Len(data)
  BY EndsAre DEF BetweenFrames
<1>2. FlattenSeq([i \in DOMAIN frames |-> ToBytes(frames[i])]) = here
  <2>1. DOMAIN frames = 1..n
    BY DEF BetweenFrames
  <2>2. \A i \in 1..n : frames[i] = ToGeneric(built[i]) /\ i \in 1..m
    BY <1>1 DEF BetweenFrames
  <2>3. [i \in DOMAIN frames |-> ToBytes(frames[i])] = [i \in 1..n |-> f[i]]
    BY <2>1, <2>2 DEF Written
  <2> QED
    BY <2>3 DEF Flat
<1>3. /\ here \in Seq(Octet) /\ whole \in Seq(Octet) /\ Len(here) = at /\ at \in Nat
      /\ Len(whole) = End(built, m)
      /\ \A i \in 1..at : whole[i] = here[i]
  BY <1>1, EndsAre DEF End
<1>4. PICK k \in 0..End(built, m) : Len(data) = k /\ data = SubSeq(whole, 1, k)
  BY DEF Received
<1> HIDE DEF here, whole, f, n, m
<1>5. data \in Seq(Octet) /\ Len(data) = k /\ \A i \in 1..k : data[i] = whole[i]
  BY <1>3, <1>4, FirstOf
<1> DEFINE u == SubSeq(data, 1, at)
<1>6. u \in Seq(Octet) /\ Len(u) = at /\ \A i \in 1..at : u[i] = data[i]
  <2>1. at \in 0..Len(data)
    BY <1>1, <1>3, <1>4
  <2> QED
    BY <1>5, <2>1, FirstOf
<1> HIDE DEF u
<1>7. \A i \in 1..Len(u) : u[i] = here[i]
  <2>1. \A i \in 1..at : i \in 1..k
    BY <1>1, <1>3, <1>4
  <2> QED
    BY <1>3, <1>5, <1>6, <2>1
<1>8. u = here
  BY <1>3, <1>6, <1>7, SeqEqual
<1> QED
  BY <1>2, <1>8 DEF u

LEMMA WhereTheDataEnds ==
    ASSUME InStep
    PROVE  OnlyATearIsRefused
<1> USE DEF InStep
<1> DEFINE m == Len(built)
           boundaries == {Len(Sent(n)) : n \in 0..m}
<1>1. m \in Nat
  BY EndsAre
<1>2. \A n \in 0..m : Len(Sent(n)) = End(built, n)
  BY <1>1, SentIs DEF End
<1>3. ASSUME pc = "H2Error"
      PROVE  Len(data) \notin boundaries
  <2>1. PICK n \in 0..m : n < m /\ End(built, n) < Len(data) /\ Len(data) < End(built, n + 1)
    BY <1>3 DEF TornInside
  <2>2. SUFFICES ASSUME NEW j \in 0..m, Len(data) = End(built, j) PROVE FALSE
    BY <1>2
  <2>3. n + 1 \in 0..m /\ (j <= n \/ n + 1 <= j)
    BY <1>1, <2>1
  <2>4. End(built, j) <= End(built, n) \/ End(built, n + 1) <= End(built, j)
    BY <2>3, EndsAre
  <2>5. End(built, j) \in Nat /\ End(built, n) \in Nat /\ End(built, n + 1) \in Nat
    BY <2>3, EndsAre
  <2> QED
    BY <2>1, <2>2, <2>4, <2>5
<1>4. ASSUME pc \in {"specialize", "done"}
      PROVE  Len(data) \in boundaries
  <2>1. Len(data) = End(built, Len(frames)) /\ Len(frames) \in 0..m
    BY <1>1, <1>4 DEF InPhase, BetweenFrames
  <2> QED
    BY <1>2, <2>1
<1> QED
  BY <1>3, <1>4 DEF OnlyATearIsRefused

LEMMA WhatComesBack ==
    ASSUME InStep
    PROVE  BuiltFramesComeBack
<1> USE DEF InStep
<1>1. /\ DOMAIN frames = 1..Len(frames) /\ Len(frames) \in Nat
      /\ DOMAIN typed = 1..Len(typed) /\ Len(typed) \in Nat
      /\ Len(typed) <= Len(frames) /\ Len(frames) <= Len(built) /\ Len(built) \in Nat
  BY EndsAre DEF BetweenFrames, SpecializedSoFar
<1>2. \A i \in 1..Len(frames) :
        /\ frames[i] = ToGeneric(built[i]) /\ Buildable(built[i])
  BY <1>1 DEF BetweenFrames, Built
<1>3. ASSUME pc = "AssertionError"
      PROVE  \E i \in DOMAIN frames : IsGeneric(built[i])
  <2>1. PICK i \in 1..Len(frames) : Overpadded(frames[i])
    BY <1>3 DEF InPhase
  <2>2. IsGeneric(built[i])
    BY <1>2, <2>1, BuiltIs
  <2> QED
    BY <1>1, <2>2
<1>4. ASSUME NEW i \in DOMAIN typed, ~IsGeneric(built[i])
      PROVE  \/ built[i].typ = HEADERS /\ ~WholePriority(built[i])
                    /\ typed[i] = [built[i] EXCEPT !.exclusive = <<>>,
                                      !.stream_dependency = <<>>, !.weight = <<>>]
             \/ typed[i] = built[i]
  <2>1. i \in 1..Len(typed) /\ i \in 1..Len(frames)
    BY <1>1, <1>4
  <2> DEFINE b == built[i]
             g == ToGeneric(b)
  <2>2. typed[i] = Specialize(g)
    BY <1>2, <2>1 DEF SpecializedSoFar
  <2>3. b \in TypedFrame /\ IsValid(g) /\ Typed(g) = ReadAs(b)
    BY <1>2, <1>4, <2>1, BuiltIs
  <2>4. typed[i] = ReadAs(b)
    BY <2>2, <2>3 DEF Specialize
  <2> HIDE DEF b
  <2>5. \/ b.typ = HEADERS /\ ~WholePriority(b) /\ ReadAs(b) = Unprioritized(b)
        \/ ReadAs(b) = b
    BY DEF ReadAs, AsRead
  <2> QED
    BY <2>4, <2>5 DEF b, Unprioritized
<1> QED
  BY <1>3, <1>4 DEF BuiltFramesComeBack

LEMMA WhatIsSpecialized ==
    ASSUME InStep
    PROVE  SpecializedForGood
<1> USE DEF InStep
<1> SUFFICES ASSUME NEW i \in DOMAIN typed
             PROVE  LET again == ToGeneric(typed[i])
                    IN  /\ IsGeneric(typed[i]) \/ Constructible(typed[i])
                        /\ Len(again.payload) = Len(frames[i].payload)
                        /\ ~Overpadded(again) /\ Specialize(again) = typed[i]
  BY DEF SpecializedForGood
<1> DEFINE g == frames[i]
           t == typed[i]
<1>1. i \in 1..Len(typed) /\ i \in 1..Len(frames)
  <2>1. /\ DOMAIN typed = 1..Len(typed) /\ Len(typed) \in Nat /\ Len(frames) \in Nat
        /\ Len(typed) <= Len(frames)
    BY DEF BetweenFrames, SpecializedSoFar
  <2> QED
    BY <2>1
<1>2. g \in GenericFrame
  BY <1>1, ElementOfSeq DEF BetweenFrames
<1>3. t = Specialize(g) /\ ~Overpadded(g)
  BY <1>1 DEF SpecializedSoFar
<1> HIDE DEF g, t
<1>4. LET again == ToGeneric(t)
      IN  /\ IsGeneric(t) \/ Constructible(t)
          /\ Len(again.payload) = Len(g.payload)
          /\ ~Overpadded(again) /\ Specialize(again) = t
  BY <1>2, <1>3, SpecializedIs
<1> QED
  BY <1>4 DEF g, t

(* The octets of the frames parsed are, at every turn of the loop, the     *)
(* octets consumed (H2GenericFrame, http2.py:264).                         *)
THEOREM FramesAreTheOctets == Spec => []FramesAreTheData
<1>1. InStep => FramesAreTheData
  BY WhereTheParserIs
<1> QED
  BY <1>1, AlwaysInStep, PTL

(* The parser raises for what was cut off inside a frame, and for nothing  *)
(* else (parse_generic_frames, http2.py:278-291).                          *)
THEOREM OnlyTheTornIsRefused == Spec => []OnlyATearIsRefused
<1>1. InStep => OnlyATearIsRefused
  BY WhereTheDataEnds
<1> QED
  BY <1>1, AlwaysInStep, PTL

(* A frame built by one of the ten constructors is the same frame at the   *)
(* other end, and no such frame ends the program with an AssertionError    *)
(* (to_generic and from_h2frame, http2.py:354-783).                        *)
THEOREM TheBuiltComeBack == Spec => []BuiltFramesComeBack
<1>1. InStep => BuiltFramesComeBack
  BY WhatComesBack
<1> QED
  BY <1>1, AlwaysInStep, PTL

(* Whatever arrived, what it was specialized to is constructible, as long  *)
(* as what arrived, and is not changed by another round (specialize,       *)
(* http2.py:254-479 and 595-657).                                          *)
THEOREM TheSpecializedStay == Spec => []SpecializedForGood
<1>1. InStep => SpecializedForGood
  BY WhatIsSpecialized
<1> QED
  BY <1>1, AlwaysInStep, PTL
=============================================================================
