---------------------------- MODULE FanoutProofs ----------------------------
(***************************************************************************)
(* For any calls, any number of servers and threads and any chunk size:    *)
(* no bytes read are lost, no piece holds the answer to something sent     *)
(* after it, and fanout keeps FanoutPromise.                               *)
(***************************************************************************)
EXTENDS Fanout, InductionLemmas, FiniteSetTheorems, SequenceTheorems

(* The shapes of the roundtrip's state.  Seq and EXCEPT are kept apart: a  *)
(* step that begins a server's roundtrip changes nothing but its pc.  And  *)
(* nothing is unparsable in a call that parses nothing.                    *)
Typed ==
    /\ call \in Calls
    /\ pc \in [Servers -> PCs]
    /\ sent \in [Servers -> Nat] /\ out \in [Servers -> Seq(Nat)]
    /\ arrived \in [Servers -> Nat] /\ read \in [Servers -> Nat]
    /\ mark \in [Servers -> Nat]
    /\ result \in [Servers -> Seq(Seq(Nat))]
    /\ \A s \in Servers : pc[s] = "unparsable" => call.parses

(* What recvall gave lies behind what recv read, that behind what arrived, *)
(* and that behind what the server emitted.                                *)
InOrder ==
    \A s \in Servers :
        mark[s] <= read[s] /\ read[s] <= arrived[s] /\ arrived[s] <= Len(out[s])

(* A server's output is stamped with what it had been sent by then, and    *)
(* there is a piece for each piece sent, one behind while one is awaited.  *)
Stamped ==
    \A s \in Servers :
        /\ \A p \in 1..Len(out[s]) : out[s][p] <= sent[s]
        /\ pc[s] = "recv" => sent[s] = Len(result[s]) + 1
        /\ pc[s] \in {"idle", "connect", "handshake", "send", "postamble"}
             => sent[s] = Len(result[s])

(* Piece i of server s is made of positions that were read by then, of     *)
(* units emitted before piece i + 1 of the payload was sent.               *)
PieceOf(s, i) ==
    \A j \in 1..Len(result[s][i]) :
        result[s][i][j] \in 1..mark[s] /\ out[s][result[s][i][j]] <= i

Caused == \A s \in Servers : \A i \in 1..Len(result[s]) : PieceOf(s, i)

Kept == NothingReadIsLost

RTInv == Typed /\ InOrder /\ Stamped /\ Caused /\ Kept

(* The pool.  A server between its connect and its answer is active, and a *)
(* worker that has a chunk works.                                          *)
Active == {"connect", "handshake"} \cup Talking \cup Received

Working == {w \in Workers : at[w] # 0}

PoolTyped ==
    /\ taken \in Nat /\ taken <= Cardinality(Chunks) /\ reported \in Nat
    /\ at \in [Workers -> {0} \cup Places]
    /\ value = [i \in Places |-> value[i]]

(* Each chunk taken is reported or in the hands of one worker. *)
Counted == IsFiniteSet(Working) /\ taken = reported + Cardinality(Working)

OneEach ==
    \A w, v \in Working : Chunk(at[w]) = Chunk(at[v]) => w = v

(* A worker has finished what precedes its place in its chunk and has not  *)
(* begun what follows; its place it has begun.                             *)
InItsChunk ==
    \A w \in Working :
        /\ Chunk(at[w]) < taken /\ pc[at[w]] # "idle"
        /\ \A i \in Places : Chunk(i) = Chunk(at[w]) =>
              (i < at[w] => pc[i] \in Returned) /\ (at[w] < i => pc[i] = "idle")

(* Nobody has begun with what is in no chunk taken. *)
Untaken ==
    \A i \in Servers : (i \in Places => taken <= Chunk(i)) => pc[i] = "idle"

Held == \A i \in Servers : pc[i] \in Active => \E w \in Working : at[w] = i

(* As long as none failed, what was reported is the servers' answers. *)
Reported ==
    failure = <<>> =>
        \A i \in Places :
            Chunk(i) < taken /\ (\A w \in Working : Chunk(at[w]) # Chunk(i))
              => pc[i] \in Returned /\ value[i] = <<result[i]>>

Failed == failure # <<>> => failure[1] \in Places /\ pc[failure[1]] \in Raised

Over == returned # <<>> => reported = Cardinality(Chunks)

PoolInv ==
    /\ PoolTyped /\ Counted /\ OneEach /\ InItsChunk /\ Untaken /\ Held
    /\ Reported /\ Failed /\ Over

IInv == RTInv /\ PoolInv

-----------------------------------------------------------------------------
LEMMA EmptySequence == (\A S : <<>> \in Seq(S)) /\ Len(<<>>) = 0
BY SMT

LEMMA PositionsAre ==
    ASSUME NEW n \in Nat
    PROVE  /\ Positions(n) \in Seq(Nat) /\ Len(Positions(n)) = n
           /\ \A i \in 1..n : Positions(n)[i] = i
BY UpToIs DEF Positions, UpTo

(* What recvall collects continues the positions collected before. *)
LEMMA PositionsContinue ==
    ASSUME NEW m \in Nat, NEW n \in Nat, m <= n
    PROVE  Positions(m) \o [i \in 1..(n - m) |-> m + i] = Positions(n)
<1>1. Positions(m) = UpTo(m) /\ Positions(n) = UpTo(n)
  BY DEF Positions, UpTo
<1> QED
  BY <1>1, UpToContinues

LEMMA RTInitInv == RTInit => RTInv
<1> SUFFICES ASSUME RTInit PROVE RTInv
  OBVIOUS
<1>1. Typed
  BY EmptySequence DEF RTInit, Typed, PCs
<1>2. InOrder /\ Stamped /\ Caused
  BY EmptySequence DEF RTInit, InOrder, Stamped, Caused
<1>3. Kept
  <2>1. Positions(0) = <<>>
    BY EmptySequence, PositionsAre
  <2> QED
    BY <2>1, FlattenEmpty DEF RTInit, Kept, NothingReadIsLost
<1> QED
  BY <1>1, <1>2, <1>3 DEF RTInv

(* A step that moves only the pc, between places of the same bookkeeping.  *)
LEMMA MoveStep ==
    ASSUME RTInv, NEW s, NEW to \in PCs, Goto(s, to),
           UNCHANGED <<call, sent, out, arrived, fin, read, mark, result>>,
           to \in {"connect", "handshake", "cut"} \cup Returned \cup Raised
             \/ to = AfterReceiving(s),
           pc[s] \in {"idle", "connect", "handshake", "send", "postamble"}
             \/ to \in {"cut"} \cup Returned \cup Raised,
           to = "unparsable" => call.parses
    PROVE  RTInv'
<1> USE DEF RTInv
<1>1. Typed'
  BY DEF Typed, Goto
<1>2. InOrder'
  BY DEF InOrder
<1>3. Stamped'
  BY DEF Stamped, Typed, Goto, AfterReceiving, Returned, Raised
<1>4. Caused'
  BY DEF Caused, PieceOf
<1>5. Kept'
  BY DEF Kept, NothingReadIsLost, Typed, Goto, AfterReceiving, Returned, Raised
<1> QED
  BY <1>1, <1>2, <1>3, <1>4, <1>5

LEMMA SendStep ==
    ASSUME RTInv, NEW s \in Servers, Send(s)
    PROVE  RTInv'
<1>1. CASE Goto(s, "cut") /\ UNCHANGED sent
  BY <1>1, MoveStep DEF Send, PCs, Received
<1>2. CASE sent' = [sent EXCEPT ![s] = @ + 1] /\ Goto(s, "recv")
  <2> USE <1>2 DEF RTInv, Send
  <2>1. Typed'
    BY DEF Typed, Goto, PCs, Talking
  <2>2. InOrder'
    BY DEF InOrder
  <2>3. Stamped'
    <3> SUFFICES ASSUME NEW r \in Servers
                 PROVE  /\ \A p \in 1..Len(out[r]) : out[r][p] <= sent'[r]
                        /\ pc'[r] = "recv" => sent'[r] = Len(result[r]) + 1
                        /\ pc'[r] \in {"idle", "connect", "handshake", "send", "postamble"}
                             => sent'[r] = Len(result[r])
      BY DEF Stamped
    <3>1. Typed /\ Stamped
      OBVIOUS
    <3> HIDE <1>2 DEF RTInv, Send
    <3>2. out[r] \in Seq(Nat)
      BY <3>1 DEF Typed
    <3>3. \A p \in 1..Len(out[r]) : out[r][p] \in Nat
      <4> DEFINE b == out[r]
      <4>1. b \in Seq(Nat)
        BY <3>2
      <4> HIDE DEF b
      <4>2. \A p \in 1..Len(b) : b[p] \in Nat
        BY <4>1
      <4> QED
        BY <4>2 DEF b
    <3>4. \A p \in 1..Len(out[r]) : out[r][p] <= sent[r]
      BY <3>1 DEF Stamped
    <3>5. \A p \in 1..Len(out[r]) : out[r][p] \in Nat /\ out[r][p] <= sent[r]
      BY <3>3, <3>4
    <3> USE <1>2 DEF RTInv, Send
    <3>6. /\ sent[r] \in Nat /\ sent'[r] = IF r = s THEN sent[r] + 1 ELSE sent[r]
          /\ pc'[r] = IF r = s THEN "recv" ELSE pc[r]
      BY DEF Typed, Goto
    <3> QED
      BY <3>5, <3>6 DEF Stamped
  <2>4. Caused'
    BY DEF Caused, PieceOf
  <2>5. Kept'
    BY DEF Kept, NothingReadIsLost, Typed, Goto
  <2> QED
    BY <2>1, <2>2, <2>3, <2>4, <2>5
<1> QED
  BY <1>1, <1>2 DEF Send

LEMMA RecvStep ==
    ASSUME RTInv, NEW s \in Servers, Recv(s)
    PROVE  RTInv'
<1> USE DEF RTInv, Recv
<1>1. PICK n \in read[s] + 1 .. arrived[s] : read' = [read EXCEPT ![s] = n]
  OBVIOUS
<1>2. n \in Nat /\ read[s] < n /\ n <= arrived[s]
  BY DEF Typed
<1>3. Typed'
  BY <1>1, <1>2 DEF Typed
<1>4. InOrder'
  BY <1>1, <1>2 DEF InOrder, Typed
<1>5. Stamped'
  BY DEF Stamped
<1>6. Caused'
  BY DEF Caused, PieceOf
<1>7. Kept'
  BY <1>1 DEF Kept, NothingReadIsLost, Typed
<1> QED
  BY <1>3, <1>4, <1>5, <1>6, <1>7

LEMMA RecvRaisesStep ==
    ASSUME RTInv, NEW s \in Servers, RecvRaises(s)
    PROVE  RTInv'
BY MoveStep DEF RecvRaises, PCs, Received

LEMMA ConnectStep ==
    ASSUME RTInv, NEW s \in Servers, Connect(s)
    PROVE  RTInv'
BY MoveStep DEF Connect, PCs, Talking, Returned, Raised, AfterReceiving

LEMMA ParseStep ==
    ASSUME RTInv, NEW s \in Servers, Parse(s)
    PROVE  RTInv'
BY MoveStep DEF Parse, PCs, Returned, Raised

LEMMA HandshakeStep ==
    ASSUME RTInv, NEW s \in Servers, Handshake(s)
    PROVE  RTInv'
BY MoveStep DEF Handshake, PCs, Talking, Returned, Raised, AfterReceiving

LEMMA EmitStep ==
    ASSUME RTInv, NEW s \in Servers, Emit(s)
    PROVE  RTInv'
<1> USE DEF RTInv, Emit
<1>1. /\ sent[s] \in Nat /\ out[s] \in Seq(Nat)
      /\ \A r \in Servers : out'[r] = IF r = s THEN Append(out[s], sent[s]) ELSE out[r]
  BY DEF Typed
<1>2. /\ Append(out[s], sent[s]) \in Seq(Nat)
      /\ Len(Append(out[s], sent[s])) = Len(out[s]) + 1
      /\ \A p \in 1..Len(out[s]) : Append(out[s], sent[s])[p] = out[s][p]
      /\ Append(out[s], sent[s])[Len(out[s]) + 1] = sent[s]
  BY <1>1
<1>3. Typed'
  BY <1>2 DEF Typed
<1>4. InOrder'
  BY <1>1, <1>2 DEF InOrder, Typed
<1>5. Stamped'
  <2> SUFFICES ASSUME NEW r \in Servers
               PROVE  \A p \in 1..Len(out'[r]) : out'[r][p] <= sent[r]
    BY DEF Stamped
  <2>1. CASE r # s
    BY <1>1, <2>1 DEF Stamped
  <2>2. CASE r = s
    <3>1. out'[r] = Append(out[s], sent[s])
      BY <1>1, <2>2
    <3>2. \A p \in 1..Len(out[s]) : out[s][p] <= sent[s]
      BY DEF Stamped
    <3>3. Len(out[s]) \in Nat
      BY <1>1
    <3> QED
      BY <1>1, <1>2, <2>2, <3>1, <3>2, <3>3
  <2> QED
    BY <2>1, <2>2
<1>6. Caused'
  <2>1. \A r \in Servers : mark[r] \in Nat /\ Len(out[r]) \in Nat /\ mark[r] <= Len(out[r])
    <3> SUFFICES ASSUME NEW r \in Servers
                 PROVE mark[r] \in Nat /\ Len(out[r]) \in Nat /\ mark[r] <= Len(out[r])
      OBVIOUS
    <3>1. mark[r] \in Nat /\ read[r] \in Nat /\ arrived[r] \in Nat /\ out[r] \in Seq(Nat)
      BY DEF Typed
    <3> QED
      BY <3>1 DEF InOrder
  <2>2. \A r \in Servers : \A p \in 1..mark[r] : out'[r][p] = out[r][p]
    BY <1>1, <1>2, <2>1 DEF Typed
  <2> QED
    <3> SUFFICES ASSUME NEW r \in Servers, NEW i \in 1..Len(result[r]),
                        NEW j \in 1..Len(result[r][i])
                 PROVE  result[r][i][j] \in 1..mark[r] /\ out'[r][result[r][i][j]] <= i
      BY DEF Caused, PieceOf
    <3>1. result[r][i][j] \in 1..mark[r] /\ out[r][result[r][i][j]] <= i
      BY DEF Caused, PieceOf
    <3> QED
      BY <2>2, <3>1
<1>7. Kept'
  BY DEF Kept, NothingReadIsLost
<1> QED
  BY <1>3, <1>4, <1>5, <1>6, <1>7

LEMMA DeliverStep ==
    ASSUME RTInv, NEW s \in Servers, Deliver(s)
    PROVE  RTInv'
<1> USE DEF RTInv, Deliver
<1>1. Typed'
  BY DEF Typed
<1>2. InOrder'
  BY DEF InOrder, Typed
<1>3. Stamped' /\ Caused' /\ Kept'
  BY DEF Stamped, Caused, PieceOf, Kept, NothingReadIsLost
<1> QED
  BY <1>1, <1>2, <1>3

LEMMA HangupStep ==
    ASSUME RTInv, NEW s \in Servers, Hangup(s)
    PROVE  RTInv'
BY DEF RTInv, Hangup, Typed, InOrder, Stamped, Caused, PieceOf, Kept, NothingReadIsLost

(* A piece of the positions from m up to r.                                *)
LEMMA PieceIsWithin ==
    ASSUME NEW m \in Nat, NEW r \in Nat, NEW n \in Nat, m <= r, r <= n, NEW p,
           Len(p) = r - m, \A j \in 1..Len(p) : p[j] \in m + 1 .. r
    PROVE  /\ \A j \in 1..Len(p) : p[j] \in 1..r /\ p[j] \in 1..n
           /\ p = <<>> => r = m
<1>1. ASSUME NEW j \in 1..Len(p)
      PROVE  p[j] \in 1..r /\ p[j] \in 1..n
  <2>1. p[j] \in m + 1 .. r
    OBVIOUS
  <2> DEFINE x == p[j]
  <2> HIDE DEF x
  <2>2. x \in m + 1 .. r => x \in 1..r /\ x \in 1..n
    OBVIOUS
  <2> QED
    BY <2>1, <2>2 DEF x
<1>2. p = <<>> => Len(p) = 0
  OBVIOUS
<1>3. Len(p) = 0 => r = m
  OBVIOUS
<1> QED
  BY <1>1, <1>2, <1>3

(* What the pieces before are of positions up to m, they are up to r.       *)
LEMMA PiecesBefore ==
    ASSUME NEW m \in Nat, NEW r \in Nat, m <= r, NEW pieces, NEW o,
           \A i \in 1..Len(pieces) : \A j \in 1..Len(pieces[i]) :
               pieces[i][j] \in 1..m /\ o[pieces[i][j]] <= i
    PROVE  \A i \in 1..Len(pieces) : \A j \in 1..Len(pieces[i]) :
               pieces[i][j] \in 1..r /\ o[pieces[i][j]] <= i
<1>1. 1..m \subseteq 1..r
  OBVIOUS
<1> QED
  BY <1>1, Zenon

(* recvall's bytes become the next piece of the answer.                    *)
LEMMA RecvallEndsStep ==
    ASSUME RTInv, NEW s \in Servers, RecvallEnds(s)
    PROVE  RTInv'
<1> USE DEF RTInv
<1> DEFINE piece == [i \in 1..(read[s] - mark[s]) |-> mark[s] + i]
           old == result[s]
           new == Collected(s, piece)
<1>1. /\ pc[s] \in {"recv", "postamble"} /\ read[s] = arrived[s]
      /\ result' = [result EXCEPT ![s] = new]
      /\ mark' = [mark EXCEPT ![s] = read[s]]
      /\ pc' = [pc EXCEPT ![s] = IF pc[s] = "recv" THEN AfterReceiving(s) ELSE "done"]
      /\ UNCHANGED <<call, sent, out, arrived, fin, read>>
  BY DEF RecvallEnds, Goto
<1>2. /\ mark[s] \in Nat /\ read[s] \in Nat /\ mark[s] <= read[s]
      /\ read[s] <= Len(out[s]) /\ old \in Seq(Seq(Nat)) /\ sent[s] \in Nat
      /\ out[s] \in Seq(Nat) /\ Len(old) \in Nat
  BY <1>1 DEF Typed, InOrder
<1>3. /\ piece \in Seq(Nat) /\ Len(piece) = read[s] - mark[s]
      /\ \A j \in 1..Len(piece) : piece[j] \in mark[s] + 1 .. read[s]
  <2> DEFINE n == read[s] - mark[s]
  <2>1. n \in Nat /\ \A j \in 1..n : mark[s] + j \in mark[s] + 1 .. read[s] /\ mark[s] + j \in Nat
    BY <1>2
  <2>2. Len(piece) = n /\ \A j \in 1..n : piece[j] = mark[s] + j
    BY <2>1
  <2>3. piece \in [1..n -> Nat]
    BY <2>1
  <2>4. piece \in Seq(Nat)
    BY <2>1, <2>3
  <2> HIDE DEF piece
  <2> QED
    BY <2>1, <2>2, <2>4
<1>4. /\ Append(old, piece) \in Seq(Seq(Nat)) /\ Len(Append(old, piece)) = Len(old) + 1
      /\ \A i \in 1..Len(old) : Append(old, piece)[i] = old[i]
      /\ Append(old, piece)[Len(old) + 1] = piece
  <2> HIDE DEF piece, old
  <2> QED
    BY <1>2, <1>3
<1>5. \/ new = Append(old, piece)
      \/ pc[s] = "postamble" /\ piece = <<>> /\ new = old
  BY <1>1 DEF Collected
<1>6. new \in Seq(Seq(Nat)) /\ (pc[s] = "recv" => Len(new) = Len(old) + 1)
  <2> HIDE DEF piece, old, new
  <2> QED
    BY <1>2, <1>4, <1>5
<1>7. Typed'
  <2> HIDE DEF new
  <2> QED
    BY <1>1, <1>6 DEF Typed, PCs, AfterReceiving, Talking, Received
<1>8. InOrder'
  BY <1>1 DEF InOrder, Typed
<1>9. Stamped'
  <2> HIDE DEF new
  <2> QED
    BY <1>1, <1>6 DEF Stamped, Typed, AfterReceiving
<1>10. Caused'
  <2>1. sent[s] <= Len(old) + 1
    BY <1>1, <1>2 DEF Stamped
  <2>2. \A j \in 1..Len(piece) :
            piece[j] \in 1..read[s] /\ out[s][piece[j]] <= Len(old) + 1
    <3> HIDE DEF piece, old
    <3>1. \A j \in 1..Len(piece) : piece[j] \in 1..read[s] /\ piece[j] \in 1..Len(out[s])
      <4> DEFINE n == Len(out[s])
                 m == mark[s]
                 r == read[s]
      <4>1. n \in Nat /\ m \in Nat /\ r \in Nat /\ m <= r /\ r <= n
        BY <1>2
      <4>2. Len(piece) = r - m /\ \A j \in 1..Len(piece) : piece[j] \in m + 1 .. r
        BY <1>3
      <4> HIDE DEF n, m, r
      <4>3. \A j \in 1..Len(piece) : piece[j] \in 1..r /\ piece[j] \in 1..n
        BY <4>1, <4>2, PieceIsWithin
      <4> QED
        BY <4>3 DEF n, r
    <3>2. \A p \in 1..Len(out[s]) : out[s][p] \in Nat /\ out[s][p] <= sent[s]
      BY <1>2 DEF Stamped
    <3>3. sent[s] \in Nat /\ Len(old) \in Nat
      BY <1>2
    <3>4. ASSUME NEW j \in 1..Len(piece)
          PROVE  piece[j] \in 1..read[s] /\ out[s][piece[j]] <= Len(old) + 1
      <4>1. piece[j] \in 1..read[s] /\ piece[j] \in 1..Len(out[s])
        BY <3>1
      <4>2. out[s][piece[j]] \in Nat /\ out[s][piece[j]] <= sent[s]
        BY <3>2, <4>1
      <4> QED
        BY <2>1, <3>3, <4>1, <4>2
    <3> QED
      BY <3>4
  <2>3. \A i \in 1..Len(old) : \A j \in 1..Len(old[i]) :
            old[i][j] \in 1..read[s] /\ out[s][old[i][j]] <= i
    <3>1. \A i \in 1..Len(old) : \A j \in 1..Len(old[i]) :
            old[i][j] \in 1..mark[s] /\ out[s][old[i][j]] <= i
      BY DEF Caused, PieceOf
    <3> HIDE DEF old
    <3> QED
      BY <1>2, <3>1, PiecesBefore
  <2>4. \A i \in 1..Len(new) : \A j \in 1..Len(new[i]) :
            new[i][j] \in 1..read[s] /\ out[s][new[i][j]] <= i
    <3> HIDE DEF piece, old, new
    <3>1. CASE new = old
      BY <2>3, <3>1
    <3>2. CASE new = Append(old, piece)
      <4>1. \A i \in 1..Len(new) : i \in 1..Len(old) \/ i = Len(old) + 1
        BY <1>2, <1>4, <3>2
      <4>2. \A i \in 1..Len(old) : new[i] = old[i]
        BY <1>4, <3>2
      <4>3. new[Len(old) + 1] = piece
        BY <1>4, <3>2
      <4> QED
        BY <2>2, <2>3, <4>1, <4>2, <4>3
    <3> QED
      BY <1>5, <3>1, <3>2
  <2> HIDE DEF new
  <2> QED
    BY <1>1, <2>4 DEF Caused, PieceOf, Typed
<1>11. Kept'
  <2>1. FlattenSeq(old) = Positions(mark[s])
    BY DEF Kept, NothingReadIsLost
  <2>2. FlattenSeq(new) = Positions(read[s])
    <3>1. CASE new = Append(old, piece)
      <4>1. FlattenSeq(new) = Positions(mark[s]) \o piece
        <5> HIDE DEF piece, old, new
        <5> QED
          BY <1>2, <1>3, <2>1, <3>1, FlattenAppend
      <4> QED
        BY <1>2, <4>1, PositionsContinue
    <3>2. CASE piece = <<>> /\ new = old
      <4>1. read[s] = mark[s]
        <5> HIDE DEF piece
        <5> QED
          BY <1>2, <1>3, <3>2, PieceIsWithin
      <4> QED
        BY <2>1, <3>2, <4>1
    <3> QED
      BY <1>5, <3>1, <3>2
  <2> HIDE DEF new
  <2> QED
    BY <1>1, <2>2 DEF Kept, NothingReadIsLost, Typed, AfterReceiving
<1> QED
  BY <1>7, <1>8, <1>9, <1>10, <1>11

-----------------------------------------------------------------------------
(* The chunks of map: Chunk(i) is the i-th place's, and they are numbered  *)
(* from 0 without a gap.                                                   *)

LEMMA TimesMonotone ==
    ASSUME NEW k \in Nat, NEW a \in Nat, NEW b \in Nat, a <= b
    PROVE  a * k <= b * k
OBVIOUS

LEMMA TimesLess ==
    ASSUME NEW k \in Nat \ {0}, NEW a \in Nat, NEW b \in Nat, a * k < b * k
    PROVE  a < b
<1> SUFFICES ASSUME b <= a PROVE FALSE
  OBVIOUS
<1> b * k <= a * k
  BY TimesMonotone
<1> QED
  OBVIOUS

LEMMA ChunkIs ==
    ASSUME NEW i \in Nat \ {0}
    PROVE  /\ Chunk(i) \in Nat /\ Chunk(i) * ChunkSize < i
           /\ i <= (Chunk(i) + 1) * ChunkSize
<1> DEFINE n == i - 1
           k == ChunkSize
<1>1. n \in Nat /\ k \in Nat \ {0} /\ i = n + 1
  BY FanoutAssumption
<1>2. n \div k \in Nat /\ (n \div k) * k <= n /\ n < (n \div k + 1) * k
  <2> HIDE DEF n, k
  <2> QED
    BY <1>1, Z3
<1>3. Chunk(i) = n \div k
  BY DEF Chunk
<1>4. (n \div k) * k \in Nat /\ (n \div k + 1) * k \in Nat
  <2> HIDE DEF n, k
  <2> QED
    BY <1>1, <1>2
<1> HIDE DEF n, k
<1> QED
  BY <1>1, <1>2, <1>3, <1>4 DEF k

(* A place between the bounds of a chunk is in it. *)
LEMMA ChunkOf ==
    ASSUME NEW i \in Nat \ {0}, NEW q \in Nat,
           q * ChunkSize < i, i <= (q + 1) * ChunkSize
    PROVE  Chunk(i) = q
<1> DEFINE c == Chunk(i)
           k == ChunkSize
<1>1. c \in Nat /\ c * k < i /\ i <= (c + 1) * k /\ k \in Nat \ {0}
  BY ChunkIs, FanoutAssumption
<1>2. /\ c * k \in Nat /\ (c + 1) * k \in Nat /\ c + 1 \in Nat
      /\ q * k \in Nat /\ (q + 1) * k \in Nat /\ q + 1 \in Nat
  <2> HIDE DEF c, k
  <2> QED
    BY <1>1
<1>3. q * k < (c + 1) * k /\ c * k < (q + 1) * k
  <2> HIDE DEF c
  <2> QED
    BY <1>1, <1>2
<1>4. q < c + 1 /\ c < q + 1
  <2> HIDE DEF c, k
  <2> QED
    BY <1>1, <1>2, <1>3, TimesLess
<1> HIDE DEF c, k
<1> QED
  BY <1>1, <1>4 DEF c

LEMMA ChunkMonotone ==
    ASSUME NEW i \in Nat \ {0}, NEW j \in Nat \ {0}, i <= j
    PROVE  Chunk(i) <= Chunk(j)
<1> DEFINE a == Chunk(i)
           b == Chunk(j)
           k == ChunkSize
<1>1. /\ a \in Nat /\ a * k < i
      /\ b \in Nat /\ j <= (b + 1) * k /\ k \in Nat \ {0}
  BY ChunkIs, FanoutAssumption
<1>2. a * k \in Nat /\ (b + 1) * k \in Nat /\ b + 1 \in Nat
  <2> HIDE DEF a, b, k
  <2> QED
    BY <1>1
<1> HIDE DEF a, b, k
<1>3. a < b + 1
  BY <1>1, <1>2, TimesLess
<1> QED
  BY <1>1, <1>3 DEF a, b

LEMMA PlacesAre ==
    ASSUME call \in Calls
    PROVE  /\ call.servers \in Nat /\ Places = 1..call.servers
           /\ Places \subseteq Servers /\ Places \subseteq Nat \ {0}
           /\ \A i \in Places : Chunk(i) \in Nat
<1> DEFINE S == {c.servers : c \in Calls}
<1>1. call.servers \in S /\ S \subseteq Nat
  BY RoundtripAssumption
<1>2. \E m \in S : \A n \in S : m >= n
  <2>1. PICK c \in Calls : \A d \in Calls : d.servers <= c.servers
    BY RoundtripAssumption
  <2>2. c.servers \in S /\ \A n \in S : n <= c.servers
    BY <2>1
  <2> HIDE DEF S
  <2> QED
    BY <1>1, <2>2
<1>3. Max(S) \in S /\ \A n \in S : Max(S) >= n
  <2> HIDE DEF S
  <2> QED
    BY <1>2 DEF Max
<1>4. Servers = 1..Max(S)
  BY DEF Servers
<1> HIDE DEF S
<1>5. call.servers \in Nat /\ Max(S) \in Nat /\ call.servers <= Max(S)
  BY <1>1, <1>3
<1> QED
  BY <1>4, <1>5, ChunkIs DEF Places

(* The first place of a chunk that there is. *)
LEMMA FirstOfChunk ==
    ASSUME call \in Calls, NEW q \in Chunks
    PROVE  /\ q * ChunkSize + 1 \in Places /\ Chunk(q * ChunkSize + 1) = q
           /\ \A j \in Places : Chunk(j) = q => q * ChunkSize + 1 <= j
<1> DEFINE k == ChunkSize
<1>1. PICK p \in Places : q = Chunk(p)
  BY DEF Chunks
<1>2. /\ k \in Nat \ {0} /\ q \in Nat /\ p \in Nat \ {0} /\ p <= call.servers
      /\ q * k < p /\ call.servers \in Nat
  <2>1. p \in Nat \ {0} /\ p <= call.servers /\ call.servers \in Nat
    BY <1>1, PlacesAre
  <2>2. Chunk(p) \in Nat /\ Chunk(p) * ChunkSize < p
    BY <2>1, ChunkIs
  <2>3. k \in Nat \ {0}
    BY FanoutAssumption
  <2> HIDE DEF k
  <2> QED
    BY <1>1, <2>1, <2>2, <2>3 DEF k
<1>3. q * k \in Nat /\ q * k + 1 <= (q + 1) * k /\ q * k + 1 \in Nat \ {0}
  <2> HIDE DEF k
  <2> QED
    BY <1>2
<1>4. q * k + 1 \in Places
  <2> HIDE DEF k
  <2> QED
    BY <1>2, <1>3 DEF Places
<1>5. Chunk(q * k + 1) = q
  <2> DEFINE i == q * k + 1
  <2>1. i \in Nat \ {0} /\ q * k < i /\ i <= (q + 1) * k
    <3> HIDE DEF k
    <3> QED
      BY <1>3
  <2> HIDE DEF i
  <2>2. Chunk(i) = q
    BY <1>2, <2>1, ChunkOf
  <2> QED
    BY <2>2 DEF i
<1>6. ASSUME NEW j \in Places, Chunk(j) = q PROVE q * k + 1 <= j
  <2>1. j \in Nat /\ q * k < j
    BY <1>6, PlacesAre, ChunkIs
  <2> HIDE DEF k
  <2> QED
    BY <1>3, <2>1
<1> QED
  BY <1>4, <1>5, <1>6

(* Nothing of its chunk comes after the last of it. *)
LEMMA AfterLast ==
    ASSUME call \in Calls, NEW i \in Places, LastOfChunk(i),
           NEW j \in Places, Chunk(j) = Chunk(i)
    PROVE  j <= i
<1> SUFFICES ASSUME i < j PROVE FALSE
  BY PlacesAre
<1>1. i + 1 \in Places /\ i + 1 <= j
  BY PlacesAre
<1>2. Chunk(i) <= Chunk(i + 1) /\ Chunk(i + 1) <= Chunk(j)
  BY <1>1, PlacesAre, ChunkMonotone
<1> QED
  BY <1>1, <1>2, PlacesAre DEF LastOfChunk

LEMMA ChunksAre ==
    ASSUME call \in Calls
    PROVE  /\ Cardinality(Chunks) \in Nat
           /\ Chunks = 0 .. Cardinality(Chunks) - 1
<1>1. \E n \in Nat : Chunks = 0 .. n - 1
  <2>1. CASE call.servers = 0
    <3>1. Chunks = 0 .. 0 - 1
      BY <2>1 DEF Chunks, Places
    <3> QED
      BY <3>1
  <2>2. CASE call.servers # 0
    <3> DEFINE m == call.servers
               n == Chunk(m) + 1
    <3>1. m \in Places /\ m \in Nat \ {0} /\ n \in Nat /\ n - 1 = Chunk(m)
      BY <2>2, PlacesAre
    <3>2. ASSUME NEW q \in Chunks PROVE q \in 0 .. n - 1
      <4>1. PICK p \in Places : q = Chunk(p)
        BY DEF Chunks
      <4>2. q \in Nat /\ q <= Chunk(m)
        BY <3>1, <4>1, PlacesAre, ChunkMonotone
      <4> QED
        BY <3>1, <4>2
    <3>3. ASSUME NEW q \in 0 .. n - 1 PROVE q \in Chunks
      <4> DEFINE k == ChunkSize
                 i == q * k + 1
      <4>1. /\ q \in Nat /\ q <= Chunk(m) /\ Chunk(m) \in Nat /\ k \in Nat \ {0}
            /\ Chunk(m) * k < m
        <5>1. m \in Nat \ {0} /\ n - 1 = Chunk(m)
          BY <3>1
        <5>2. Chunk(m) \in Nat /\ Chunk(m) * ChunkSize < m
          <6> HIDE DEF m
          <6> QED
            BY <5>1, ChunkIs
        <5>3. k \in Nat \ {0}
          BY FanoutAssumption
        <5>4. q \in Nat /\ q <= Chunk(m)
          <6> HIDE DEF n, m
          <6> QED
            BY <5>1, <5>2
        <5> HIDE DEF m
        <5> QED
          BY <5>2, <5>3, <5>4
      <4>2. q * k <= Chunk(m) * k
        BY <4>1, TimesMonotone
      <4>3. q * k \in Nat /\ Chunk(m) * k \in Nat /\ (q + 1) * k = q * k + k
        <5> HIDE DEF k, m
        <5> QED
          BY <4>1
      <4>4. i \in Nat \ {0} /\ i <= m /\ q * k < i /\ i <= (q + 1) * k
        <5> HIDE DEF k, m
        <5> QED
          BY <3>1, <4>1, <4>2, <4>3
      <4>5. i \in Places
        BY <3>1, <4>4 DEF Places
      <4>6. Chunk(i) = q
        <5> HIDE DEF i
        <5> QED
          BY <4>1, <4>4, ChunkOf
      <4> QED
        BY <4>5, <4>6 DEF Chunks
    <3> QED
      BY <3>1, <3>2, <3>3
  <2> QED
    BY <2>1, <2>2
<1>2. PICK n \in Nat : Chunks = 0 .. n - 1
  BY <1>1
<1>3. Cardinality(0 .. n - 1) = n
  <2>1. 0 <= n - 1 \/ n = 0
    OBVIOUS
  <2> QED
    BY <2>1, FS_Interval, FS_EmptySet
<1> QED
  BY <1>2, <1>3
-----------------------------------------------------------------------------
(* A step of one exchange is a step of an active server, which leaves it   *)
(* active or finished, and touches no other server's answer.               *)
LEMMA ExchangeFrame ==
    ASSUME Typed, NEW s \in Servers, Exchange(s)
    PROVE  /\ call' = call /\ UNCHANGED poolvars
           /\ pc[s] \in Active /\ pc'[s] \in Active \cup Returned \cup Raised
           /\ pc'[s] = "unparsable" => call.parses
           /\ \A r \in Servers : r # s => pc'[r] = pc[r] /\ result'[r] = result[r]
<1> USE DEF Typed, Active, Talking, Received, Returned, Raised, Goto, AfterReceiving
<1>0. UNCHANGED poolvars
  BY DEF Exchange
<1>1. CASE Connect(s)
  BY <1>0, <1>1 DEF Connect
<1>2. CASE Handshake(s)
  BY <1>0, <1>2 DEF Handshake
<1>3. CASE Send(s)
  BY <1>0, <1>3 DEF Send
<1>4. CASE Recv(s)
  BY <1>0, <1>4 DEF Recv
<1>5. CASE RecvallEnds(s)
  BY <1>0, <1>5 DEF RecvallEnds
<1>6. CASE RecvRaises(s)
  BY <1>0, <1>6 DEF RecvRaises
<1>7. CASE Emit(s)
  BY <1>0, <1>7 DEF Emit
<1>8. CASE Deliver(s)
  BY <1>0, <1>8 DEF Deliver
<1>9. CASE Hangup(s)
  BY <1>0, <1>9 DEF Hangup
<1>10. CASE Parse(s)
  BY <1>0, <1>10 DEF Parse
<1> QED
  BY <1>1, <1>2, <1>3, <1>4, <1>5, <1>6, <1>7, <1>8, <1>9, <1>10 DEF Exchange, Client, Peer

LEMMA ExchangeRT ==
    ASSUME RTInv, NEW s \in Servers, Exchange(s)
    PROVE  RTInv'
BY ConnectStep, HandshakeStep, SendStep, RecvStep, RecvallEndsStep, RecvRaisesStep,
   ParseStep, EmitStep, DeliverStep, HangupStep DEF Exchange, Client, Peer

LEMMA BeginRT ==
    ASSUME RTInv, NEW s, Begin(s)
    PROVE  RTInv'
BY MoveStep DEF Begin, PCs

(* The unit of the pool's arithmetic does not change during a call.        *)
LEMMA SameChunks ==
    ASSUME call' = call
    PROVE  /\ Places' = Places /\ Chunks' = Chunks
           /\ Cardinality(Chunks)' = Cardinality(Chunks)
           /\ \A i : (LastOfChunk(i))' = LastOfChunk(i)
BY DEF Places, Chunks, LastOfChunk, Chunk

LEMMA Apart ==
    /\ "idle" \notin Active /\ "idle" \notin Returned /\ "idle" \notin Raised
    /\ Active \cap Returned = {} /\ Active \cap Raised = {} /\ Returned \cap Raised = {}
BY DEF Active, Talking, Received, Returned, Raised

LEMMA ExchangeStep ==
    ASSUME IInv, NEW s \in Servers, Exchange(s)
    PROVE  IInv'
<1> USE DEF IInv
<1>1. Typed /\ Places \subseteq Servers
  BY PlacesAre DEF RTInv, Typed
<1>2. /\ call' = call
      /\ taken' = taken /\ at' = at /\ reported' = reported /\ value' = value
      /\ failure' = failure /\ returned' = returned
      /\ pc[s] \in Active /\ pc'[s] \in Active \cup Returned \cup Raised
      /\ \A r \in Servers : r # s => pc'[r] = pc[r] /\ result'[r] = result[r]
  BY <1>1, ExchangeFrame DEF poolvars
<1>3. Working' = Working /\ Places' = Places /\ Cardinality(Chunks)' = Cardinality(Chunks)
  BY <1>2, SameChunks DEF Working
<1>4. PoolTyped' /\ Counted' /\ OneEach' /\ Over'
  BY <1>2, <1>3 DEF PoolInv, PoolTyped, Counted, OneEach, Over, Chunk
<1>5. \A w \in Working : at[w] \in Places
  BY DEF PoolInv, PoolTyped, Working
<1>6. InItsChunk'
  BY <1>1, <1>2, <1>3, <1>5, Apart DEF PoolInv, InItsChunk, Chunk
<1>7. Untaken'
  BY <1>2, <1>3, Apart DEF PoolInv, Untaken, Chunk
<1>8. Held'
  BY <1>2, <1>3, Apart DEF PoolInv, Held
<1>9. Reported'
  BY <1>1, <1>2, <1>3, Apart DEF PoolInv, Reported, Chunk
<1>10. Failed'
  BY <1>1, <1>2, <1>3, Apart DEF PoolInv, Failed
<1> QED
  BY <1>4, <1>6, <1>7, <1>8, <1>9, <1>10, ExchangeRT DEF PoolInv

(* What every step of the pool may use. *)
LEMMA PoolFacts ==
    ASSUME IInv
    PROVE  /\ call \in Calls /\ pc \in [Servers -> PCs]
           /\ Places \subseteq Servers /\ Places \subseteq Nat \ {0}
           /\ \A i \in Places : Chunk(i) \in Nat
           /\ taken \in Nat /\ reported \in Nat /\ Cardinality(Chunks) \in Nat
           /\ Chunks = 0 .. Cardinality(Chunks) - 1
           /\ at \in [Workers -> {0} \cup Places]
           /\ \A w \in Working : w \in Workers /\ at[w] \in Places /\ at[w] # 0
BY PlacesAre, ChunksAre DEF IInv, RTInv, Typed, PoolInv, PoolTyped, Working

LEMMA TakeChunkStep ==
    ASSUME IInv, NEW w \in Workers, TakeChunk(w)
    PROVE  IInv'
<1> DEFINE i == taken * ChunkSize + 1
<1>1. /\ at[w] = 0 /\ taken \in Chunks /\ at' = [at EXCEPT ![w] = i] /\ Begin(i)
      /\ taken' = taken + 1 /\ UNCHANGED <<reported, value, failure, returned>>
  BY DEF TakeChunk
<1>2. /\ i \in Places /\ i \in Servers /\ i # 0 /\ Chunk(i) = taken
      /\ \A j \in Places : Chunk(j) = taken => i <= j
  BY <1>1, PoolFacts, FirstOfChunk
<1> HIDE DEF i
<1>3. /\ pc[i] = "idle" /\ pc' = [pc EXCEPT ![i] = "connect"]
      /\ call' = call /\ result' = result
  BY <1>1 DEF Begin, Goto
<1>4. Places' = Places /\ Cardinality(Chunks)' = Cardinality(Chunks)
  BY <1>3, SameChunks
<1>5. /\ \A j \in Servers : pc'[j] = IF j = i THEN "connect" ELSE pc[j]
      /\ \A v \in Workers : at'[v] = IF v = w THEN i ELSE at[v]
      /\ w \notin Working /\ Working' = Working \cup {w}
  BY <1>1, <1>2, <1>3, PoolFacts DEF Working
<1>6. "connect" \in Active /\ "connect" # "idle"
  BY DEF Active
<1>7. PoolTyped' /\ Over'
  BY <1>1, <1>2, <1>4, PoolFacts DEF IInv, PoolInv, PoolTyped, Over
<1>8. Counted'
  <2>1. IsFiniteSet(Working) /\ taken = reported + Cardinality(Working)
    BY DEF IInv, PoolInv, Counted
  <2>2. Cardinality(Working) \in Nat /\ IsFiniteSet(Working')
        /\ Cardinality(Working') = Cardinality(Working) + 1
    BY <1>5, <2>1, FS_AddElement, FS_CardinalityType
  <2>3. Cardinality(Working)' = Cardinality(Working')
    OBVIOUS
  <2> QED
    BY <1>1, <2>1, <2>2, <2>3, PoolFacts DEF Counted
<1>9. \A v \in Working : v # w /\ Chunk(at[v]) # taken /\ at[v] # i /\ at'[v] = at[v]
  BY <1>2, <1>5, PoolFacts DEF IInv, PoolInv, InItsChunk
<1>10. OneEach'
  BY <1>2, <1>5, <1>9, PoolFacts DEF IInv, PoolInv, OneEach, Chunk
<1>11. \A j \in Places : Chunk(j) = taken => pc[j] = "idle"
  BY PoolFacts DEF IInv, PoolInv, Untaken
<1>12. InItsChunk'
  <2> SUFFICES ASSUME NEW v \in Working'
               PROVE  /\ Chunk(at'[v]) < taken' /\ pc'[at'[v]] # "idle"
                      /\ \A j \in Places : Chunk(j) = Chunk(at'[v]) =>
                            (j < at'[v] => pc'[j] \in Returned) /\ (at'[v] < j => pc'[j] = "idle")
    BY <1>4 DEF InItsChunk, Chunk
  <2>1. CASE v = w
    BY <1>1, <1>2, <1>5, <1>6, <1>11, <2>1, PoolFacts
  <2>2. CASE v \in Working
    BY <1>1, <1>2, <1>5, <1>9, <2>2, PoolFacts DEF IInv, PoolInv, InItsChunk
  <2> QED
    BY <1>5, <2>1, <2>2
<1>13. Untaken'
  BY <1>1, <1>2, <1>4, <1>5, PoolFacts DEF IInv, PoolInv, Untaken, Chunk
<1>14. Held'
  <2> SUFFICES ASSUME NEW j \in Servers, pc'[j] \in Active
               PROVE  \E v \in Working' : at'[v] = j
    BY DEF Held
  <2>1. CASE j = i
    BY <1>5, <2>1
  <2>2. CASE j # i
    <3>1. PICK v \in Working : at[v] = j
      BY <1>5, <2>2 DEF IInv, PoolInv, Held
    <3> QED
      BY <1>5, <1>9, <3>1
  <2> QED
    BY <2>1, <2>2
<1>15. Reported'
  <2> SUFFICES ASSUME failure = <<>>, NEW j \in Places, Chunk(j) < taken + 1,
                      \A v \in Working' : Chunk(at'[v]) # Chunk(j)
               PROVE  pc'[j] \in Returned /\ value[j] = <<result[j]>>
    BY <1>1, <1>3, <1>4 DEF Reported, Chunk
  <2>1. Chunk(j) # taken /\ Chunk(j) < taken /\ j # i
    BY <1>2, <1>5, PoolFacts
  <2>2. \A v \in Working : Chunk(at[v]) # Chunk(j)
    BY <1>5, <1>9
  <2> QED
    BY <1>5, <2>1, <2>2, PoolFacts DEF IInv, PoolInv, Reported
<1>16. Failed'
  BY <1>1, <1>3, <1>4, <1>5, PoolFacts, Apart DEF IInv, PoolInv, Failed
<1>17. RTInv'
  BY <1>1, BeginRT DEF IInv
<1> QED
  BY <1>7, <1>8, <1>10, <1>12, <1>13, <1>14, <1>15, <1>16, <1>17 DEF IInv, PoolInv

LEMMA NextItemStep ==
    ASSUME IInv, NEW w \in Workers, NextItem(w)
    PROVE  IInv'
<1> DEFINE h == at[w]
           i == h + 1
<1>1. /\ h # 0 /\ pc[h] \in Returned /\ ~LastOfChunk(h)
      /\ at' = [at EXCEPT ![w] = i] /\ Begin(i)
      /\ UNCHANGED <<taken, reported, value, failure, returned>>
  BY DEF NextItem, Finished
<1>2. w \in Working /\ h \in Places /\ h \in Nat \ {0}
  BY <1>1, PoolFacts DEF Working
<1>3. i \in Places /\ i \in Servers /\ i # 0 /\ Chunk(i) = Chunk(h)
  BY <1>1, <1>2, PoolFacts DEF LastOfChunk
<1>4. i = h + 1
  OBVIOUS
<1> HIDE DEF i, h
<1>5. /\ pc[i] = "idle" /\ pc' = [pc EXCEPT ![i] = "connect"]
      /\ call' = call /\ result' = result
  BY <1>1 DEF Begin, Goto
<1>6. Places' = Places /\ Cardinality(Chunks)' = Cardinality(Chunks)
  BY <1>5, SameChunks
<1>7. /\ \A j \in Servers : pc'[j] = IF j = i THEN "connect" ELSE pc[j]
      /\ \A v \in Workers : at'[v] = IF v = w THEN i ELSE at[v]
      /\ Working' = Working
  BY <1>1, <1>2, <1>3, <1>5, PoolFacts DEF Working
<1>8. "connect" \in Active /\ "connect" # "idle"
  BY DEF Active
<1>9. PoolTyped' /\ Over' /\ Counted'
  BY <1>1, <1>3, <1>6, <1>7, PoolFacts DEF IInv, PoolInv, PoolTyped, Over, Counted
<1>10. \A v \in Working : Chunk(at'[v]) = Chunk(at[v])
  BY <1>3, <1>7, PoolFacts DEF h
<1>11. OneEach'
  BY <1>7, <1>10, PoolFacts DEF IInv, PoolInv, OneEach, Chunk
<1>12. InItsChunk'
  <2> SUFFICES ASSUME NEW v \in Working
               PROVE  /\ Chunk(at'[v]) < taken /\ pc'[at'[v]] # "idle"
                      /\ \A j \in Places : Chunk(j) = Chunk(at'[v]) =>
                            (j < at'[v] => pc'[j] \in Returned) /\ (at'[v] < j => pc'[j] = "idle")
    BY <1>1, <1>6, <1>7 DEF InItsChunk, Chunk
  <2>1. CASE v = w
    <3>1. at'[v] = i /\ at[v] = h
      BY <1>7, <2>1 DEF h
    <3>2. \A j \in Places : Chunk(j) = Chunk(h) =>
              (j < h => pc[j] \in Returned) /\ (h < j => pc[j] = "idle")
      BY <1>2, <2>1 DEF IInv, PoolInv, InItsChunk, h
    <3>3. Chunk(h) < taken
      BY <1>2 DEF IInv, PoolInv, InItsChunk, h
    <3>4. \A j \in Places : (j < i <=> j < h \/ j = h) /\ (i < j => h < j /\ j # i) /\ (j <= h => j # i)
      BY <1>2, <1>4, PoolFacts
    <3> QED
      BY <1>1, <1>3, <1>7, <1>8, <3>1, <3>2, <3>3, <3>4, PoolFacts
  <2>2. CASE v # w
    <3>1. at'[v] = at[v] /\ Chunk(at[v]) # Chunk(i) /\ at[v] # i
      BY <1>2, <1>3, <1>7, <2>2, PoolFacts DEF IInv, PoolInv, OneEach, h
    <3> QED
      BY <1>7, <3>1, PoolFacts DEF IInv, PoolInv, InItsChunk
  <2> QED
    BY <2>1, <2>2
<1>13. Untaken'
  <2>1. Chunk(i) < taken
    BY <1>2, <1>3 DEF IInv, PoolInv, InItsChunk, h
  <2> QED
    BY <1>1, <1>3, <1>6, <1>7, <2>1, PoolFacts DEF IInv, PoolInv, Untaken, Chunk
<1>14. Held'
  <2> SUFFICES ASSUME NEW j \in Servers, pc'[j] \in Active
               PROVE  \E v \in Working : at'[v] = j
    BY <1>7 DEF Held
  <2>1. CASE j = i
    BY <1>2, <1>7, <2>1, PoolFacts
  <2>2. CASE j # i
    <3>1. PICK v \in Working : at[v] = j
      BY <1>7, <2>2 DEF IInv, PoolInv, Held
    <3>2. v # w
      BY <1>1, <1>7, <2>2, <3>1, Apart DEF h
    <3> QED
      BY <1>7, <3>1, <3>2, PoolFacts
  <2> QED
    BY <2>1, <2>2
<1>15. Reported'
  <2> SUFFICES ASSUME failure = <<>>, NEW j \in Places, Chunk(j) < taken,
                      \A v \in Working : Chunk(at'[v]) # Chunk(j)
               PROVE  pc'[j] \in Returned /\ value[j] = <<result[j]>>
    BY <1>1, <1>5, <1>6, <1>7 DEF Reported, Chunk
  <2>1. \A v \in Working : Chunk(at[v]) # Chunk(j)
    BY <1>10
  <2>2. j # i
    BY <1>2, <1>3, <2>1 DEF h
  <2> QED
    BY <1>7, <2>1, <2>2, PoolFacts DEF IInv, PoolInv, Reported
<1>16. Failed'
  BY <1>1, <1>5, <1>6, <1>7, PoolFacts, Apart DEF IInv, PoolInv, Failed
<1>17. RTInv'
  BY <1>1, BeginRT DEF IInv
<1> QED
  BY <1>9, <1>11, <1>12, <1>13, <1>14, <1>15, <1>16, <1>17 DEF IInv, PoolInv

(* A worker puts its chunk down: the count, and the rest of the places.    *)
LEMMA PutDown ==
    ASSUME IInv, NEW w \in Working, at' = [at EXCEPT ![w] = 0],
           reported' = reported + 1, taken' = taken, UNCHANGED rtvars,
           pc[at[w]] \notin Active
    PROVE  /\ Working' = Working \ {w} /\ Places' = Places
           /\ RTInv' /\ Counted' /\ OneEach' /\ InItsChunk' /\ Untaken' /\ Held'
           /\ reported < Cardinality(Chunks)
           /\ reported' \in Nat /\ at' \in [Workers -> {0} \cup Places]
           /\ Cardinality(Chunks)' = Cardinality(Chunks)
<1>1. /\ \A v \in Workers : at'[v] = IF v = w THEN 0 ELSE at[v]
      /\ pc' = pc /\ call' = call /\ result' = result
  BY PoolFacts DEF rtvars
<1>2. Working' = Working \ {w} /\ \A v \in Working' : at'[v] = at[v] /\ v # w
  BY <1>1 DEF Working
<1>3. Places' = Places /\ Cardinality(Chunks)' = Cardinality(Chunks)
  BY <1>1, SameChunks
<1>4. /\ IsFiniteSet(Working) /\ taken = reported + Cardinality(Working)
      /\ Cardinality(Working) \in Nat \ {0}
      /\ IsFiniteSet(Working') /\ Cardinality(Working') = Cardinality(Working) - 1
  <2>1. IsFiniteSet(Working) /\ taken = reported + Cardinality(Working)
    BY DEF IInv, PoolInv, Counted
  <2>2. Cardinality(Working) \in Nat /\ IsFiniteSet(Working')
        /\ Cardinality(Working') = Cardinality(Working) - 1
    BY <1>2, <2>1, FS_RemoveElement, FS_CardinalityType
  <2>3. Cardinality(Working) # 0
    BY <2>1, FS_EmptySet
  <2> QED
    BY <2>1, <2>2, <2>3
<1>5. Counted'
  <2>1. Cardinality(Working)' = Cardinality(Working')
    OBVIOUS
  <2> QED
    BY <1>4, <2>1, PoolFacts DEF Counted
<1>6. reported < Cardinality(Chunks)
  BY <1>4, PoolFacts DEF IInv, PoolInv, PoolTyped
<1>7. OneEach' /\ InItsChunk' /\ Untaken'
  BY <1>1, <1>2, <1>3 DEF IInv, PoolInv, OneEach, InItsChunk, Untaken, Chunk
<1>8. Held'
  BY <1>1, <1>2 DEF IInv, PoolInv, Held
<1>9. RTInv'
  BY DEF IInv, rtvars, RTInv, Typed, InOrder, Stamped, Caused, PieceOf, Kept, NothingReadIsLost
<1> QED
  BY <1>1, <1>2, <1>3, <1>5, <1>6, <1>7, <1>8, <1>9, PoolFacts

LEMMA ReportChunkStep ==
    ASSUME IInv, NEW w \in Workers, ReportChunk(w)
    PROVE  IInv'
<1> DEFINE h == at[w]
           c == Chunk(h)
           slice == [k \in 1..(h - c * ChunkSize) |-> result[c * ChunkSize + k]]
<1>1. /\ h # 0 /\ pc[h] \in Returned /\ LastOfChunk(h) /\ w \in Working
      /\ value' = IF failure # <<>> THEN value ELSE Slice(c, slice)
      /\ at' = [at EXCEPT ![w] = 0] /\ reported' = reported + 1
      /\ UNCHANGED <<rtvars, taken, failure, returned>>
  BY DEF ReportChunk, Finished, Working
<1>2. h \in Places /\ h \in Nat \ {0} /\ c \in Nat
  BY <1>1, PoolFacts
<1>3. /\ Working' = Working \ {w} /\ Places' = Places
      /\ RTInv' /\ Counted' /\ OneEach' /\ InItsChunk' /\ Untaken' /\ Held'
      /\ reported < Cardinality(Chunks)
      /\ reported' \in Nat /\ at' \in [Workers -> {0} \cup Places]
      /\ Cardinality(Chunks)' = Cardinality(Chunks)
  BY <1>1, PutDown, Apart
<1>4. Places' = Places /\ pc' = pc /\ result' = result
  BY <1>1, <1>3 DEF rtvars
<1>5. ASSUME NEW j \in Places, Chunk(j) = c
      PROVE  pc[j] \in Returned /\ Slice(c, slice)[j] = <<result[j]>>
  <2>1. j <= h
    BY <1>1, <1>2, <1>5, PoolFacts, AfterLast
  <2>2. pc[j] \in Returned
    <3>1. j = h \/ j < h
      BY <1>2, <2>1, PoolFacts
    <3> QED
      BY <1>1, <1>5, <3>1 DEF IInv, PoolInv, InItsChunk
  <2>3. c * ChunkSize < j /\ c * ChunkSize \in Nat
    <3>1. j \in Nat \ {0} /\ ChunkSize \in Nat
      BY PoolFacts, FanoutAssumption
    <3>2. Chunk(j) * ChunkSize < j
      BY <3>1, ChunkIs
    <3>3. c * ChunkSize < j
      BY <1>5, <3>2
    <3> HIDE DEF c
    <3> QED
      BY <1>2, <3>1, <3>3
  <2>4. slice[j - c * ChunkSize] = result[j]
    <3> DEFINE b == c * ChunkSize
    <3>1. b \in Nat /\ b < j /\ j \in Nat /\ j <= h /\ h \in Nat
      BY <1>2, <2>1, <2>3, PoolFacts
    <3> HIDE DEF b, h
    <3>2. j - b \in 1..(h - b) /\ b + (j - b) = j
      BY <3>1
    <3>3. [k \in 1..(h - b) |-> result[b + k]][j - b] = result[j]
      BY <3>2
    <3> QED
      BY <3>3 DEF b
  <2>5. Slice(c, slice)[j] = <<slice[j - c * ChunkSize]>>
    <3> HIDE DEF slice, c
    <3> QED
      BY <1>5 DEF Slice
  <2> QED
    BY <2>2, <2>4, <2>5
<1>6. \A j \in Places : Chunk(j) # c => Slice(c, slice)[j] = value[j]
  <2> HIDE DEF slice, c
  <2> QED
    BY DEF Slice
<1>7. Slice(c, slice) = [j \in Places |-> Slice(c, slice)[j]]
  <2> HIDE DEF slice, c
  <2> QED
    BY DEF Slice
<1> HIDE DEF slice
<1>8. value' = [j \in Places' |-> value'[j]]
  BY <1>1, <1>4, <1>7 DEF IInv, PoolInv, PoolTyped
<1>9. PoolTyped' /\ Over'
  BY <1>1, <1>3, <1>8, PoolFacts DEF IInv, PoolInv, PoolTyped, Over
<1>10. Reported'
  <2> SUFFICES ASSUME failure = <<>>, NEW j \in Places, Chunk(j) < taken,
                      \A v \in Working' : Chunk(at'[v]) # Chunk(j)
               PROVE  pc[j] \in Returned /\ value'[j] = <<result[j]>>
    BY <1>1, <1>4 DEF Reported, Chunk
  <2>1. CASE Chunk(j) = c
    BY <1>1, <1>5, <2>1
  <2>2. CASE Chunk(j) # c
    <3>1. \A v \in Working : Chunk(at[v]) # Chunk(j)
      BY <1>1, <1>3, <2>2, PoolFacts
    <3> QED
      BY <1>1, <1>6, <2>2, <3>1 DEF IInv, PoolInv, Reported
  <2> QED
    BY <2>1, <2>2
<1>11. Failed'
  BY <1>1, <1>4 DEF IInv, PoolInv, Failed
<1> QED
  BY <1>3, <1>9, <1>10, <1>11 DEF IInv, PoolInv

LEMMA ReportFailureStep ==
    ASSUME IInv, NEW w \in Workers, ReportFailure(w)
    PROVE  IInv'
<1>1. /\ at[w] # 0 /\ pc[at[w]] \in Raised /\ w \in Working
      /\ failure' = IF failure = <<>> THEN <<at[w]>> ELSE failure
      /\ at' = [at EXCEPT ![w] = 0] /\ reported' = reported + 1
      /\ UNCHANGED <<rtvars, taken, value, returned>>
  BY DEF ReportFailure, Finished, Working
<1>2. /\ Working' = Working \ {w} /\ Places' = Places
      /\ RTInv' /\ Counted' /\ OneEach' /\ InItsChunk' /\ Untaken' /\ Held'
      /\ reported < Cardinality(Chunks)
      /\ reported' \in Nat /\ at' \in [Workers -> {0} \cup Places]
      /\ Cardinality(Chunks)' = Cardinality(Chunks)
  BY <1>1, PutDown, Apart
<1>3. PoolTyped' /\ Over'
  BY <1>1, <1>2, PoolFacts DEF IInv, PoolInv, PoolTyped, Over
<1>4. failure' # <<>>
  BY <1>1
<1>5. Reported'
  BY <1>4 DEF Reported
<1>6. Failed'
  <2>1. failure = <<>> => failure'[1] = at[w]
    BY <1>1
  <2>2. pc' = pc /\ at[w] \in Places
    BY <1>1, PoolFacts DEF rtvars
  <2> QED
    BY <1>1, <1>2, <2>1, <2>2 DEF IInv, PoolInv, Failed
<1> QED
  BY <1>2, <1>3, <1>5, <1>6 DEF IInv, PoolInv

(* Nothing of the invariant but Over reads what map returned. *)
LEMMA SameInv ==
    ASSUME IInv, UNCHANGED <<rtvars, taken, at, reported, value, failure>>
    PROVE  RTInv' /\ PoolTyped' /\ Counted' /\ OneEach' /\ InItsChunk' /\ Untaken'
           /\ Held' /\ Reported' /\ Failed' /\ Cardinality(Chunks)' = Cardinality(Chunks)
<1>1. RTInv'
  BY DEF IInv, rtvars, RTInv, Typed, InOrder, Stamped, Caused, PieceOf, Kept, NothingReadIsLost
<1>2. /\ Places' = Places /\ Cardinality(Chunks)' = Cardinality(Chunks)
      /\ Working' = Working /\ pc' = pc /\ result' = result
  BY SameChunks DEF rtvars, Working
<1>3. PoolTyped' /\ Counted' /\ OneEach' /\ InItsChunk' /\ Untaken'
  BY <1>2 DEF IInv, PoolInv, PoolTyped, Counted, OneEach, InItsChunk, Untaken, Chunk
<1>4. Held' /\ Reported' /\ Failed'
  BY <1>2 DEF IInv, PoolInv, Held, Reported, Failed, Chunk
<1> QED
  BY <1>1, <1>2, <1>3, <1>4

LEMMA MapReturnsStep == ASSUME IInv, MapReturns PROVE IInv'
<1>1. /\ reported = Cardinality(Chunks)
      /\ UNCHANGED <<rtvars, taken, at, reported, value, failure>>
  BY DEF MapReturns
<1> QED
  BY <1>1, SameInv DEF IInv, PoolInv, Over

LEMMA StutterStep == ASSUME IInv, UNCHANGED fovars PROVE IInv'
<1>1. /\ UNCHANGED <<rtvars, taken, at, reported, value, failure>>
      /\ returned' = returned
  BY DEF fovars, poolvars
<1>2. Over'
  BY <1>1, SameInv DEF IInv, PoolInv, Over
<1> QED
  BY <1>1, <1>2, SameInv DEF IInv, PoolInv

LEMMA InitInv == Init => IInv
<1> SUFFICES ASSUME Init PROVE IInv
  OBVIOUS
<1>1. RTInv /\ call \in Calls
  BY RTInitInv DEF Init, RTInit
<1>2. /\ Places \subseteq Servers /\ Cardinality(Chunks) \in Nat
      /\ \A i \in Places : Chunk(i) \in Nat
  BY <1>1, PlacesAre, ChunksAre
<1>3. Working = {} /\ pc = [s \in Servers |-> "idle"]
  BY DEF Init, RTInit, Working
<1>4. PoolTyped
  BY <1>2 DEF Init, PoolTyped
<1>5. Counted
  BY <1>3, FS_EmptySet DEF Init, Counted
<1>6. OneEach /\ InItsChunk /\ Untaken /\ Held
  BY <1>3, Apart DEF OneEach, InItsChunk, Untaken, Held
<1>7. Reported /\ Failed /\ Over
  BY <1>2 DEF Init, Reported, Failed, Over
<1> QED
  BY <1>1, <1>4, <1>5, <1>6, <1>7 DEF IInv, PoolInv

LEMMA NextInv == IInv /\ [Next]_fovars => IInv'
<1> SUFFICES ASSUME IInv, [Next]_fovars PROVE IInv'
  OBVIOUS
<1>1. ASSUME NEW w \in Workers, Work(w) PROVE IInv'
  BY <1>1, TakeChunkStep, NextItemStep, ReportChunkStep, ReportFailureStep DEF Work
<1>2. ASSUME NEW s \in Servers, Exchange(s) PROVE IInv'
  BY <1>2, ExchangeStep
<1> QED
  BY <1>1, <1>2, MapReturnsStep, StutterStep DEF Next

(* The inductive invariant holds of every behaviour. *)
THEOREM Invariance == Spec => []IInv
BY InitInv, NextInv, PTL DEF Spec

(* What recv returned is in the pieces, in order and once, unless a reset  *)
(* ended the roundtrip (targets.py:174, 242).                              *)
THEOREM Lossless == Spec => []NothingReadIsLost
<1>1. IInv => NothingReadIsLost
  BY DEF IInv, RTInv, Kept
<1> QED
  BY <1>1, Invariance, PTL

(* The i-th piece printed holds no answer to what was sent after it.       *)
THEOREM CausedByWhatWasSent == Spec => []PieceAnswersEarlierData
<1>1. IInv => PieceAnswersEarlierData
  <2> SUFFICES ASSUME IInv, NEW s \in Servers, NEW i \in DOMAIN result[s],
                      NEW j \in DOMAIN result[s][i]
               PROVE  out[s][result[s][i][j]] <= i
    BY DEF PieceAnswersEarlierData
  <2>1. result[s] \in Seq(Seq(Nat)) /\ i \in 1..Len(result[s])
    BY DEF IInv, RTInv, Typed
  <2>2. j \in 1..Len(result[s][i])
    BY <2>1
  <2> QED
    BY <2>1, <2>2 DEF IInv, RTInv, Caused, PieceOf
<1> QED
  BY <1>1, Invariance, PTL

-----------------------------------------------------------------------------
(* fanout implements FanoutPromise: beginning with a server asks it, the   *)
(* end of its roundtrip settles it, and map's return is Return.            *)

LEMMA RefinesInit == Init => Promise!FInit
<1> SUFFICES ASSUME Init PROVE Promise!FInit
  OBVIOUS
<1>1. Places \subseteq Servers
  BY PlacesAre DEF Init, RTInit
<1>2. \A s \in Servers : pc[s] = "idle"
  BY DEF Init, RTInit
<1>3. \A s \in Places : Outcome(s) = <<>>
  BY <1>1, <1>2, Apart DEF Outcome
<1>4. Busy = {}
  BY <1>2 DEF Busy, Talking, Received
<1>5. [s \in Places |-> Outcome(s)] = [s \in 1..call.servers |-> <<>>]
  BY <1>3 DEF Places
<1> QED
  BY <1>4, <1>5 DEF Promise!FInit, Promise!Asked, Init, Outcomes

(* Nothing shows of a step that leaves every pc and answer alone. *)
LEMMA InvisibleStep ==
    ASSUME UNCHANGED <<call, pc, result, returned>>
    PROVE  UNCHANGED Promise!fvars
BY DEF Promise!fvars, Outcomes, Outcome, Exception, Busy, Places

(* Nobody begins with a server once map has returned. *)
LEMMA OverIsOver ==
    ASSUME IInv, returned # <<>>
    PROVE  taken = Cardinality(Chunks) /\ Working = {}
<1>1. reported = Cardinality(Chunks) /\ IsFiniteSet(Working)
      /\ taken = reported + Cardinality(Working) /\ taken <= Cardinality(Chunks)
  BY DEF IInv, PoolInv, Over, Counted, PoolTyped
<1>2. Cardinality(Working) \in Nat
  BY <1>1, FS_CardinalityType
<1>3. Cardinality(Working) = 0
  BY <1>1, <1>2, PoolFacts
<1>4. Working = {}
  BY <1>1, <1>3, FS_EmptySet
<1> QED
  BY <1>1, <1>2, <1>3, <1>4, PoolFacts

LEMMA BeginAsks ==
    ASSUME IInv, NEW i \in Places, Begin(i), returned = <<>>, returned' = returned
    PROVE  Promise!Ask(i)
<1>1. /\ pc[i] = "idle" /\ pc' = [pc EXCEPT ![i] = "connect"]
      /\ call' = call /\ result' = result /\ i \in Servers
  BY PoolFacts DEF Begin, Goto
<1>2. \A j \in Servers : pc'[j] = IF j = i THEN "connect" ELSE pc[j]
  BY <1>1, PoolFacts
<1>3. Places' = Places
  BY <1>1, SameChunks
<1>4. \A j \in Places : Outcome(j)' = Outcome(j)
  <2> SUFFICES ASSUME NEW j \in Places PROVE Outcome(j)' = Outcome(j)
    OBVIOUS
  <2>1. j \in Servers
    BY PoolFacts
  <2>2. CASE j = i
    BY <1>1, <1>2, <2>1, <2>2 DEF Outcome, Exception, Returned, Raised
  <2>3. CASE j # i
    BY <1>1, <1>2, <2>1, <2>3 DEF Outcome, Exception
  <2> QED
    BY <2>2, <2>3
<1>5. Outcomes' = Outcomes
  BY <1>3, <1>4 DEF Outcomes
<1>6. Outcomes[i] = <<>> /\ i \notin Busy
  BY <1>1 DEF Outcomes, Outcome, Busy, Talking, Received, Returned, Raised
<1>7. Busy' = Busy \cup {i}
  BY <1>1, <1>2 DEF Busy
<1> QED
  BY <1>1, <1>5, <1>6, <1>7 DEF Promise!Ask

LEMMA TakeChunkAsks ==
    ASSUME IInv, NEW w \in Workers, TakeChunk(w)
    PROVE  \E i \in Places : Promise!Ask(i)
<1> DEFINE i == taken * ChunkSize + 1
<1>1. taken \in Chunks /\ Begin(i) /\ returned' = returned
  BY DEF TakeChunk
<1>2. i \in Places
  BY <1>1, PoolFacts, FirstOfChunk
<1>3. returned = <<>>
  BY <1>1, PoolFacts, OverIsOver
<1> HIDE DEF i
<1> QED
  BY <1>1, <1>2, <1>3, BeginAsks

LEMMA NextItemAsks ==
    ASSUME IInv, NEW w \in Workers, NextItem(w)
    PROVE  \E i \in Places : Promise!Ask(i)
<1> DEFINE i == at[w] + 1
<1>1. at[w] # 0 /\ w \in Working /\ Begin(i) /\ returned' = returned
  BY DEF NextItem, Finished, Working
<1>2. i \in Places
  BY DEF NextItem, LastOfChunk
<1>3. returned = <<>>
  BY <1>1, OverIsOver
<1> HIDE DEF i
<1> QED
  BY <1>1, <1>2, <1>3, BeginAsks

LEMMA ExchangeSettles ==
    ASSUME IInv, IInv', NEW s \in Servers, Exchange(s)
    PROVE  (s \in Places /\ Promise!Settle(s)) \/ UNCHANGED Promise!fvars
<1>1. /\ call' = call /\ returned' = returned
      /\ pc[s] \in Active /\ pc'[s] \in Active \cup Returned \cup Raised
      /\ pc'[s] = "unparsable" => call.parses
      /\ \A r \in Servers : r # s => pc'[r] = pc[r] /\ result'[r] = result[r]
  BY ExchangeFrame DEF IInv, RTInv, poolvars
<1>2. s \in Places
  BY <1>1, Apart DEF IInv, PoolInv, Untaken
<1>3. Places' = Places
  BY <1>1, SameChunks
<1>4. \A r \in Places : r # s => Outcome(r)' = Outcome(r)
  BY <1>1, PoolFacts DEF Outcome, Exception
<1>5. Outcomes[s] = <<>> /\ s \in Busy
  BY <1>1, <1>2, Apart DEF Outcomes, Outcome, Busy, Active
<1>6. Outcomes' = [Outcomes EXCEPT ![s] = Outcome(s)']
  BY <1>2, <1>3, <1>4 DEF Outcomes
<1>7. CASE pc'[s] \in Active
  <2>1. Outcome(s)' = <<>>
    BY <1>7, Apart DEF Outcome, Exception
  <2>2. Outcomes' = Outcomes
    BY <1>5, <1>6, <2>1 DEF Outcomes
  <2>3. Busy' = Busy
    BY <1>1, <1>7 DEF Busy, Active
  <2> QED
    BY <1>1, <2>2, <2>3 DEF Promise!fvars
<1>8. CASE pc'[s] \notin Active
  <2>1. Busy' = Busy \ {s}
    BY <1>1, <1>8 DEF Busy, Active
  <2>2. CASE pc'[s] \in Raised
    <3> DEFINE why == IF pc'[s] = "unparsable" THEN "ParseError" ELSE "OSError"
    <3>1. Outcome(s)' = <<"raise", why>>
      BY <2>2, Apart DEF Outcome, Exception
    <3>2. why \in Promise!MayRaise
      BY <1>1 DEF Promise!MayRaise
    <3> HIDE DEF why
    <3>3. Promise!SettleAs(s, <<"raise", why>>)
      BY <1>1, <1>5, <1>6, <2>1, <3>1 DEF Promise!SettleAs
    <3> QED
      BY <1>2, <3>2, <3>3 DEF Promise!Settle
  <2>3. CASE pc'[s] \in Returned
    <3>1. Outcome(s)' = <<"ok", result'[s]>>
      BY <2>3, Apart DEF Outcome, Exception
    <3>2. result'[s] \in Seq(Seq(Nat))
      BY DEF IInv, RTInv, Typed
    <3>3. Outcomes'[s] = <<"ok", result'[s]>>
      BY <1>2, <1>3, <3>1 DEF Outcomes
    <3>4. Promise!SettleAs(s, Outcomes'[s])
      BY <1>1, <1>5, <1>6, <2>1, <3>1, <3>3 DEF Promise!SettleAs
    <3> QED
      BY <1>2, <3>2, <3>3, <3>4 DEF Promise!Settle
  <2> QED
    BY <1>1, <1>8, <2>2, <2>3
<1> QED
  BY <1>7, <1>8

LEMMA MapReturnsReturns == ASSUME IInv, MapReturns PROVE Promise!Return
<1>1. /\ returned = <<>> /\ reported = Cardinality(Chunks)
      /\ returned' = IF failure = <<>>
                       THEN <<"ok", [i \in Places |-> value[i][1]]>>
                       ELSE <<"raise", Exception(pc[failure[1]])>>
      /\ UNCHANGED <<rtvars, taken, at, reported, value, failure>>
  BY DEF MapReturns
<1>2. taken = Cardinality(Chunks) /\ Working = {}
  <2>1. IsFiniteSet(Working) /\ taken = reported + Cardinality(Working)
        /\ taken <= Cardinality(Chunks)
    BY DEF IInv, PoolInv, Counted, PoolTyped
  <2>2. Cardinality(Working) \in Nat
    BY <2>1, FS_CardinalityType
  <2>3. Cardinality(Working) = 0
    BY <1>1, <2>1, <2>2, PoolFacts
  <2>4. Working = {}
    BY <2>1, <2>3, FS_EmptySet
  <2> QED
    BY <1>1, <2>1, <2>3, <2>4, PoolFacts
<1>3. Busy = {}
  BY <1>2 DEF IInv, PoolInv, Held, Busy, Active
<1>4. /\ Busy' = Busy /\ call' = call
      /\ Outcomes' = Outcomes
  BY <1>1 DEF rtvars, Busy, Outcomes, Outcome, Exception, Places
<1>5. CASE failure = <<>>
  <2>1. ASSUME NEW i \in Places
        PROVE  Outcome(i) = <<"ok", result[i]>> /\ value[i][1] = result[i]
    <3>1. Chunk(i) \in Chunks
      BY DEF Chunks
    <3>2. Chunk(i) < taken
      BY <1>2, <3>1, PoolFacts
    <3>3. pc[i] \in Returned /\ value[i] = <<result[i]>>
      BY <1>2, <1>5, <3>2 DEF IInv, PoolInv, Reported
    <3> QED
      BY <3>3, Apart DEF Outcome, Exception
  <2>2. returned' = <<"ok", [i \in Places |-> Outcome(i)[2]]>>
    BY <1>1, <1>5, <2>1
  <2>3. [i \in 1..call.servers |-> Outcomes[i][2]] = [i \in Places |-> Outcome(i)[2]]
    BY DEF Outcomes, Places
  <2>4. \A i \in 1..call.servers : /\ Outcomes[i] # <<>>
                                   /\ Outcomes[i][1] = "ok"
    BY <2>1 DEF Outcomes, Places
  <2> QED
    BY <1>1, <1>3, <1>4, <2>2, <2>3, <2>4 DEF Promise!Return, Promise!Asked
<1>6. CASE failure # <<>>
  <2>1. failure[1] \in Places /\ pc[failure[1]] \in Raised
    BY <1>6 DEF IInv, PoolInv, Failed
  <2> DEFINE why == Exception(pc[failure[1]])
  <2>2. why \in Promise!MayRaise
    BY <2>1, PlacesAre DEF IInv, RTInv, Typed, Promise!MayRaise, Exception
  <2> HIDE DEF why
  <2>3. Outcomes[failure[1]] = <<"raise", why>>
    BY <2>1, Apart DEF Outcome, Outcomes, Exception, why
  <2>4. failure[1] \in 1..call.servers /\ returned' = <<"raise", why>>
    BY <1>1, <1>6, <2>1 DEF Places, Exception, why
  <2> QED
    BY <1>1, <1>3, <1>4, <2>2, <2>3, <2>4 DEF Promise!Return, Promise!Asked
<1> QED
  BY <1>5, <1>6

LEMMA RefinesStep ==
    ASSUME IInv, IInv', [Next]_fovars
    PROVE  [Promise!FNext]_(Promise!fvars)
<1> USE DEF Promise!FNext, Promise!Asked, Places
<1>1. ASSUME NEW w \in Workers, TakeChunk(w) PROVE Promise!FNext
  BY <1>1, TakeChunkAsks
<1>2. ASSUME NEW w \in Workers, NextItem(w) PROVE Promise!FNext
  BY <1>2, NextItemAsks
<1>3. ASSUME NEW w \in Workers, ReportChunk(w) PROVE UNCHANGED Promise!fvars
  BY <1>3, InvisibleStep DEF ReportChunk, rtvars
<1>4. ASSUME NEW w \in Workers, ReportFailure(w) PROVE UNCHANGED Promise!fvars
  BY <1>4, InvisibleStep DEF ReportFailure, rtvars
<1>5. ASSUME NEW s \in Servers, Exchange(s)
      PROVE  Promise!FNext \/ UNCHANGED Promise!fvars
  BY <1>5, ExchangeSettles
<1>6. CASE MapReturns
  BY <1>6, MapReturnsReturns
<1>7. CASE UNCHANGED fovars
  BY <1>7, InvisibleStep DEF fovars, rtvars, poolvars
<1> QED
  BY <1>1, <1>2, <1>3, <1>4, <1>5, <1>6, <1>7 DEF Next, Work

(* The caller gets every server's answer in its own order, or one server's *)
(* exception and nothing else, when nobody is talking to a server any more *)
(* (util.py:74-76, fanout.py).                                             *)
THEOREM KeepsThePromise == Spec => Implements
<1>1. IInv /\ IInv' /\ [Next]_fovars => [Promise!FNext]_(Promise!fvars)
  BY RefinesStep
<1> QED
  BY <1>1, RefinesInit, Invariance, PTL DEF Spec, Implements, Promise!FanoutSpec
=============================================================================
