-------------------------- MODULE EchoServerProofs --------------------------
(* Theorems about EchoServer, for every set of connections, whatever the   *)
(* peers send and however the threads interleave.                          *)
EXTENDS EchoServer, InductionLemmas, TLAPS

(* Every log is a sequence of units, so the unit at hand is one. *)
LEMMA LogsAreSequences ==
  ASSUME TypeOK, NEW c \in Conns
  PROVE  /\ log[c] \in Seq(Unit)
         /\ Len(log[c]) \in Nat
         /\ pos[c] < avail[c] => Frame(c) \in Unit /\ Frame(c).sid \in Streams
<1>1. log[c] \in Seq(Unit)
  BY EchoAssumption DEF TypeOK
<1>2. /\ Len(log[c]) \in Nat
      /\ \A i \in 1..Len(log[c]) : log[c][i] \in Unit
  BY <1>1
<1>3. ASSUME pos[c] < avail[c]
      PROVE  pos[c] + 1 \in 1..Len(log[c])
  BY <1>2, <1>3 DEF TypeOK
<1> QED BY <1>1, <1>2, <1>3 DEF Frame, Unit

(* What a step of thread c other than Collect may do to the bookkeeping of *)
(* collected frames: forget a stream, in both places at once, count the    *)
(* frame in hand, or go past a frame that was not collected.               *)
Bookkeeping(c) ==
  /\ log' = log
  /\ frame_counter' \in {frame_counter, frame_counter + 1}
  /\ \A d \in Conns \ {c} :
        /\ pc'[d] = pc[d]
        /\ avail'[d] = avail[d]
        /\ pos'[d] = pos[d]
        /\ collected'[d] = collected[d]
        /\ streams_ending'[d] = streams_ending[d]
  /\ \A s \in Streams :
        \/ collected'[c][s] = collected[c][s]
        \/ collected'[c][s] = <<>> /\ s \notin streams_ending'[c]
  /\ \A s \in streams_ending'[c] :
        s \in streams_ending[c] \/ collected'[c][s] # <<>>
  /\ \/ pc[c] \notin {"h2count", "done"} /\ pos'[c] >= pos[c]
     \/ pos'[c] = pos[c] /\ pc'[c] \in {"h2count", "done"}
     \/ pos'[c] = pos[c] + 1 /\ frame_counter' = frame_counter + 1
  /\ pc'[c] \notin {"backlog", "h2count"}
  /\ pc'[c] = "preamble" => pos'[c] = 0
  /\ pc'[c] = "h2frames" => pos'[c] < avail'[c]

(* The initial states: nothing is collected yet. *)
LEMMA InitInv == Init => IInv
  BY EchoAssumption DEF Init, IInv, TypeOK, StampsCounted, FrameInHand, StampOrder,
     EndingStreamsHoldFrames, PCs

-----------------------------------------------------------------------------
(* Bookkeeping steps keep the invariant. *)
LEMMA BookkeepingInv ==
  ASSUME IInv, TypeOK', NEW c \in Conns, Bookkeeping(c)
  PROVE  IInv'
<1> USE DEF IInv
<1>1. ASSUME NEW d \in Conns, NEW s \in Streams
      PROVE  collected'[d][s] = collected[d][s] \/ collected'[d][s] = <<>>
  BY <1>1 DEF Bookkeeping
<1>2. StampsCounted'
  <2> SUFFICES ASSUME NEW d \in Conns, NEW s \in Streams,
                      NEW i \in DOMAIN collected'[d][s]
               PROVE  LET e == collected'[d][s][i]
                      IN  /\ e.stamp <= frame_counter'
                          /\ e.n <= pos'[d] => e.stamp < frame_counter'
                          /\ e.n <= pos'[d] + 1
                          /\ e.n = pos'[d] + 1 => pc'[d] \in {"h2count", "done"}
    BY DEF StampsCounted
  <2> DEFINE e == collected[d][s][i]
  <2>1. collected'[d][s] = collected[d][s] /\ i \in DOMAIN collected[d][s]
    BY <1>1
  <2>2. e \in Entry
    BY <2>1 DEF TypeOK
  <2>3. /\ e.stamp <= frame_counter
        /\ e.n <= pos[d] => e.stamp < frame_counter
        /\ e.n <= pos[d] + 1
        /\ e.n = pos[d] + 1 => pc[d] \in {"h2count", "done"}
    BY <2>1 DEF StampsCounted
  <2>4. e.stamp \in Nat /\ e.n \in Nat /\ frame_counter \in Nat
          /\ pos[d] \in Nat /\ pos'[d] \in Nat
    BY <2>2 DEF TypeOK, Entry
  <2>5. CASE d # c
    BY <2>1, <2>3, <2>4, <2>5 DEF Bookkeeping
  <2>6. CASE d = c
    <3>1. frame_counter' \in Nat /\ frame_counter' >= frame_counter
      BY <2>4 DEF Bookkeeping
    <3>2. CASE pc[c] \notin {"h2count", "done"} /\ pos'[c] >= pos[c]
      <4>1. e.n <= pos[c] /\ e.stamp < frame_counter
        BY <2>3, <2>4, <2>6, <3>2
      <4> QED BY <2>1, <2>4, <2>6, <3>1, <3>2, <4>1
    <3>3. CASE pos'[c] = pos[c] /\ pc'[c] \in {"h2count", "done"}
      BY <2>1, <2>3, <2>4, <2>6, <3>1, <3>3
    <3>4. CASE pos'[c] = pos[c] + 1 /\ frame_counter' = frame_counter + 1
      BY <2>1, <2>3, <2>4, <2>6, <3>1, <3>4
    <3> QED BY <3>2, <3>3, <3>4 DEF Bookkeeping
  <2> QED BY <2>5, <2>6
<1>3. StampOrder'
  BY <1>1 DEF StampOrder
<1>4. FrameInHand'
  <2> SUFFICES ASSUME NEW d \in Conns
               PROVE  /\ pc'[d] \in {"backlog", "preamble"} => pos'[d] = 0
                      /\ pc'[d] \in {"h2frames", "h2count"} => pos'[d] < avail'[d]
                      /\ pc'[d] = "h2count" => collected'[d][Frame(d)'.sid] # <<>>
    BY DEF FrameInHand
  <2>1. CASE d = c
    BY <2>1 DEF Bookkeeping
  <2>2. CASE d # c
    BY <2>2 DEF Bookkeeping, FrameInHand, Frame
  <2> QED BY <2>1, <2>2
<1>5. EndingStreamsHoldFrames'
  <2> SUFFICES ASSUME NEW d \in Conns, NEW s \in streams_ending'[d]
               PROVE  collected'[d][s] # <<>>
    BY DEF EndingStreamsHoldFrames
  <2>1. s \in Streams
    BY DEF TypeOK
  <2> QED BY <2>1 DEF Bookkeeping, EndingStreamsHoldFrames
<1> QED BY <1>2, <1>3, <1>4, <1>5

(* Collect stamps the frame in hand with the counter, which is above every *)
(* stamp its connection holds, for those frames were counted.              *)
LEMMA CollectInv ==
  ASSUME IInv, NEW c \in Conns, Collect(c)
  PROVE  IInv'
<1> USE DEF IInv
<1> DEFINE f == Frame(c)
           new == [stamp |-> frame_counter, n |-> pos[c] + 1]
<1>1. /\ pc[c] = "h2frames" /\ pos[c] < avail[c]
      /\ f.sid \in Streams
      /\ new \in Entry /\ new.stamp = frame_counter /\ new.n = pos[c] + 1
  BY LogsAreSequences DEF Collect, AtFrame, TypeOK, Entry
<1>2. /\ pc' = [pc EXCEPT ![c] = "h2count"]
      /\ collected' = [collected EXCEPT ![c][f.sid] = Append(@, new)]
      /\ UNCHANGED <<listening, log, avail, pos, streams_ending, frame_counter, out>>
  BY DEF Collect
<1>3. /\ collected[c][f.sid] \in Seq(Entry)
      /\ collected'[c][f.sid] = Append(collected[c][f.sid], new)
      /\ \A d \in Conns, s \in Streams :
            d # c \/ s # f.sid => collected'[d][s] = collected[d][s]
  BY <1>1, <1>2 DEF TypeOK
<1>4. TypeOK'
  <2>1. pc' \in [Conns -> PCs]
    BY <1>2 DEF TypeOK, PCs
  <2>2. collected' \in [Conns -> [Streams -> Seq(Entry)]]
    BY <1>1, <1>2, <1>3 DEF TypeOK
  <2> QED BY <2>1, <2>2, <1>2 DEF TypeOK
(* An entry held after the step is the new one or was held before it. *)
<1>5. ASSUME NEW d \in Conns, NEW s \in Streams, NEW i \in DOMAIN collected'[d][s]
      PROVE  \/ /\ i \in DOMAIN collected[d][s]
                /\ collected'[d][s][i] = collected[d][s][i]
                /\ collected[d][s][i] \in Entry
             \/ d = c /\ s = f.sid /\ collected'[d][s][i] = new
                /\ i = Len(collected[d][s]) + 1
  <2>1. CASE d = c /\ s = f.sid
    <3> DEFINE q == collected[c][f.sid]
    <3>1. q \in Seq(Entry) /\ collected'[d][s] = Append(q, new)
      BY <1>3, <2>1
    <3>2. i \in 1..Len(q) + 1
      BY <1>1, <3>1
    <3>3. CASE i \in 1..Len(q)
      BY <1>1, <2>1, <3>1, <3>3
    <3>4. CASE i = Len(q) + 1
      BY <1>1, <2>1, <3>1, <3>4
    <3> QED BY <3>1, <3>2, <3>3, <3>4
  <2>2. CASE d # c \/ s # f.sid
    BY <1>3, <2>2 DEF TypeOK
  <2> QED BY <2>1, <2>2
(* The stamps held before are below the new one, as are the positions. *)
<1>6. ASSUME NEW s \in Streams, NEW i \in DOMAIN collected[c][s]
      PROVE  /\ collected[c][s][i].n <= pos[c]
             /\ collected[c][s][i].stamp < frame_counter
  <2>1. collected[c][s][i] \in Entry
    BY DEF TypeOK
  <2> DEFINE e == collected[c][s][i]
  <2>2. /\ e.n <= pos[c] => e.stamp < frame_counter
        /\ e.n <= pos[c] + 1
        /\ e.n = pos[c] + 1 => pc[c] \in {"h2count", "done"}
    BY DEF StampsCounted
  <2>3. e.n \in Nat /\ pos[c] \in Nat /\ e.n # pos[c] + 1
    BY <1>1, <2>1, <2>2 DEF TypeOK, Entry
  <2> QED BY <2>2, <2>3
<1>7. StampsCounted'
  <2> SUFFICES ASSUME NEW d \in Conns, NEW s \in Streams,
                      NEW i \in DOMAIN collected'[d][s]
               PROVE  LET e == collected'[d][s][i]
                      IN  /\ e.stamp <= frame_counter'
                          /\ e.n <= pos'[d] => e.stamp < frame_counter'
                          /\ e.n <= pos'[d] + 1
                          /\ e.n = pos'[d] + 1 => pc'[d] \in {"h2count", "done"}
    BY DEF StampsCounted
  <2>1. CASE d = c /\ s = f.sid /\ collected'[d][s][i] = new
    BY <1>1, <1>2, <2>1 DEF TypeOK
  <2>2. CASE /\ i \in DOMAIN collected[d][s]
             /\ collected'[d][s][i] = collected[d][s][i]
    BY <1>2, <2>2 DEF StampsCounted, TypeOK
  <2> QED BY <1>5, <2>1, <2>2
<1>8. StampOrder'
  <2> SUFFICES ASSUME NEW d \in Conns, NEW s \in Streams, NEW t \in Streams,
                      NEW i \in DOMAIN collected'[d][s],
                      NEW j \in DOMAIN collected'[d][t],
                      collected'[d][s][i].n < collected'[d][t][j].n
               PROVE  collected'[d][s][i].stamp < collected'[d][t][j].stamp
    BY DEF StampOrder
  <2>1. CASE d = c /\ s = f.sid /\ collected'[d][s][i] = new
    <3>1. pos[c] \in Nat /\ pos[c] + 1 < collected'[d][t][j].n
      BY <1>1, <2>1 DEF TypeOK
    <3>2. CASE collected'[d][t][j] = new
      BY <1>1, <3>1, <3>2
    <3>3. CASE /\ j \in DOMAIN collected[d][t]
               /\ collected'[d][t][j] = collected[d][t][j]
               /\ collected[d][t][j] \in Entry
      <4>1. collected[c][t][j].n <= pos[c] /\ collected[c][t][j].n \in Nat
        BY <1>6, <2>1, <3>3 DEF Entry
      <4> QED BY <2>1, <3>1, <3>3, <4>1
    <3> QED BY <1>5, <3>2, <3>3
  <2>2. CASE /\ i \in DOMAIN collected[d][s]
             /\ collected'[d][s][i] = collected[d][s][i]
    <3>1. CASE d = c /\ t = f.sid /\ collected'[d][t][j] = new
      BY <1>1, <1>6, <2>2, <3>1
    <3>2. CASE /\ j \in DOMAIN collected[d][t]
               /\ collected'[d][t][j] = collected[d][t][j]
      BY <2>2, <3>2 DEF StampOrder
    <3> QED BY <1>5, <3>1, <3>2
  <2> QED BY <1>5, <2>1, <2>2
<1>9. FrameInHand'
  <2> SUFFICES ASSUME NEW d \in Conns
               PROVE  /\ pc'[d] \in {"backlog", "preamble"} => pos'[d] = 0
                      /\ pc'[d] \in {"h2frames", "h2count"} => pos'[d] < avail'[d]
                      /\ pc'[d] = "h2count" => collected'[d][Frame(d)'.sid] # <<>>
    BY DEF FrameInHand
  <2>0. Frame(d)' = Frame(d)
    BY <1>2 DEF Frame
  <2>1. CASE d = c
    <3>1. pos'[c] < avail'[c] /\ Frame(c)' = f /\ pc'[c] = "h2count"
      BY <1>1, <1>2, <2>0, <2>1 DEF TypeOK
    <3>2. collected'[c][f.sid] # <<>>
      BY <1>1, <1>3
    <3> QED BY <2>1, <3>1, <3>2
  <2>2. CASE d # c
    <3>1. pc'[d] = pc[d] /\ pos'[d] = pos[d] /\ avail'[d] = avail[d]
      BY <1>2, <2>2 DEF TypeOK
    <3>2. pos[d] < avail[d] => Frame(d).sid \in Streams
      BY LogsAreSequences
    <3> QED BY <3>1, <3>2, <1>3, <2>0, <2>2 DEF FrameInHand
  <2> QED BY <2>1, <2>2
<1>10. EndingStreamsHoldFrames'
  <2> SUFFICES ASSUME NEW d \in Conns, NEW s \in streams_ending[d]
               PROVE  collected'[d][s] # <<>>
    BY <1>2 DEF EndingStreamsHoldFrames
  <2>1. s \in Streams /\ collected[d][s] # <<>>
    BY DEF TypeOK, EndingStreamsHoldFrames
  <2> QED BY <1>1, <1>3, <2>1
<1> QED BY <1>4, <1>7, <1>8, <1>9, <1>10
-----------------------------------------------------------------------------
(* What the steps that several handlers share do to the state.             *)

LEMMA EmitType ==
  ASSUME TypeOK, NEW c \in Conns, NEW k, NEW ok, NEW s, NEW b, Emit(c, k, ok, s, b)
  PROVE  DOMAIN out' = Conns
  BY DEF Emit, TypeOK

LEMMA AdvanceStep ==
  ASSUME TypeOK, NEW c \in Conns, pos[c] < avail[c], Advance(c)
  PROVE  /\ pos' \in [Conns -> Nat] /\ pos'[c] = pos[c] + 1
         /\ pc' \in [Conns -> PCs] /\ pc'[c] \in {"h2frames", "h2recv"}
         /\ pc'[c] = "h2frames" => pos'[c] < avail[c]
         /\ pos'[c] <= avail[c]
         /\ \A d \in Conns \ {c} : pos'[d] = pos[d] /\ pc'[d] = pc[d]
  BY DEF TypeOK, Advance, AfterFrame, PCs

LEMMA DieStep ==
  ASSUME TypeOK, NEW c \in Conns, Die(c)
  PROVE  /\ pc' \in [Conns -> PCs] /\ pc'[c] = "done"
         /\ \A d \in Conns \ {c} : pc'[d] = pc[d]
         /\ UNCHANGED <<pos, collected, streams_ending, out>>
  BY DEF TypeOK, Die, PCs

LEMMA CloseStreamStep ==
  ASSUME TypeOK, NEW c \in Conns, NEW s \in Streams, CloseStream(c, s)
  PROVE  /\ collected' \in [Conns -> [Streams -> Seq(Entry)]]
         /\ streams_ending' \in [Conns -> SUBSET Streams]
         /\ streams_ending'[c] = streams_ending[c] \ {s}
         /\ collected'[c][s] = <<>>
         /\ \A t \in Streams \ {s} : collected'[c][t] = collected[c][t]
         /\ \A d \in Conns \ {c} : /\ collected'[d] = collected[d]
                                   /\ streams_ending'[d] = streams_ending[d]
  BY DEF TypeOK, CloseStream

-----------------------------------------------------------------------------
(* The steps before the frame loop, and those of HTTP/1.                   *)

LEMMA OpeningSteps ==
  ASSUME IInv, NEW c \in Conns,
         \/ Accept(c) \/ AcceptFails(c) \/ RecvPreamble(c) \/ RecvFails(c)
         \/ H1Send(c) \/ H1Recv(c)
  PROVE  TypeOK' /\ Bookkeeping(c)
<1> USE DEF IInv
<1>0. Len(log[c]) \in Nat
  BY LogsAreSequences
<1>1. CASE Accept(c)
  BY <1>1 DEF Accept, FrameInHand, TypeOK, Bookkeeping, PCs
<1>2. CASE AcceptFails(c)
  BY <1>2 DEF AcceptFails, TypeOK, Bookkeeping, PCs
<1>3. CASE RecvPreamble(c)
  <2>1. PICK k \in 0..Len(log[c]), isH2 \in BOOLEAN :
          /\ isH2 => k > 0
          /\ avail' = [avail EXCEPT ![c] = k]
          /\ pos' = [pos EXCEPT ![c] = IF isH2 THEN 1 ELSE 0]
          /\ pc' = [pc EXCEPT ![c] = IF isH2 THEN "h2settings" ELSE "h1send"]
    BY <1>3 DEF RecvPreamble
  <2>2. pc[c] = "preamble"
          /\ UNCHANGED <<listening, log, collected, streams_ending, frame_counter, out>>
    BY <1>3 DEF RecvPreamble
  <2>3. k \in Nat /\ k <= Len(log[c]) /\ (isH2 => 1 <= k)
    BY <1>0, <2>1
  <2>4. TypeOK'
    BY <2>1, <2>2, <2>3 DEF TypeOK, PCs
  <2>5. pos'[c] >= pos[c]
    BY <2>2, <2>4 DEF TypeOK, FrameInHand
  <2> QED BY <2>1, <2>2, <2>4, <2>5 DEF TypeOK, Bookkeeping
<1>4. CASE RecvFails(c)
  BY <1>4 DEF RecvFails, TypeOK, Bookkeeping, PCs
<1>5. CASE H1Send(c)
  <2>1. DOMAIN out' = Conns
    BY <1>5, EmitType DEF H1Send
  <2>2. PICK ok \in BOOLEAN : pc' = [pc EXCEPT ![c] = IF ok THEN "h1recv" ELSE "done"]
    BY <1>5 DEF H1Send
  <2>3. /\ pc[c] = "h1send" /\ pos' = [pos EXCEPT ![c] = avail[c]]
        /\ UNCHANGED <<listening, log, avail, collected, streams_ending, frame_counter>>
    BY <1>5 DEF H1Send
  <2> QED BY <2>1, <2>2, <2>3 DEF TypeOK, Bookkeeping, PCs
<1>6. CASE H1Recv(c)
  <2>1. PICK k \in pos[c]..Len(log[c]) :
          /\ avail' = [avail EXCEPT ![c] = k]
          /\ pc' = [pc EXCEPT ![c] = IF k = pos[c] THEN "done" ELSE "h1send"]
    BY <1>6 DEF H1Recv
  <2>2. /\ pc[c] = "h1recv"
        /\ UNCHANGED <<listening, log, pos, collected, streams_ending, frame_counter, out>>
    BY <1>6 DEF H1Recv
  <2>3. k \in Nat /\ pos[c] <= k /\ k <= Len(log[c])
    BY <1>0, <2>1 DEF TypeOK
  <2> QED BY <2>1, <2>2, <2>3 DEF TypeOK, Bookkeeping, PCs
<1> QED BY <1>1, <1>2, <1>3, <1>4, <1>5, <1>6

(* The steps around the frame loop.                                        *)
LEMMA ParsingSteps ==
  ASSUME IInv, NEW c \in Conns,
         H2Settings(c) \/ ParseGenericFrames(c) \/ ParseTornFrame(c) \/ H2Recv(c)
  PROVE  TypeOK' /\ Bookkeeping(c)
<1> USE DEF IInv
<1>1. CASE H2Settings(c)
  <2>1. DOMAIN out' = Conns
    BY <1>1, EmitType DEF H2Settings
  <2> QED BY <1>1, <2>1 DEF H2Settings, TypeOK, Bookkeeping, PCs
<1>2. CASE ParseGenericFrames(c)
  BY <1>2 DEF ParseGenericFrames, TypeOK, Bookkeeping, PCs
<1>3. CASE ParseTornFrame(c)
  BY <1>3 DEF ParseTornFrame, TypeOK, Bookkeeping, PCs
<1>4. CASE H2Recv(c)
  <2>1. PICK k \in pos[c]..Len(log[c]) : avail' = [avail EXCEPT ![c] = k]
    BY <1>4 DEF H2Recv
  <2>2. k \in Nat /\ pos[c] <= k /\ k <= Len(log[c])
    BY <2>1, LogsAreSequences DEF TypeOK
  <2> QED BY <1>4, <2>1, <2>2 DEF H2Recv, TypeOK, Bookkeeping, PCs
<1> QED BY <1>1, <1>2, <1>3, <1>4

(* The cases of the match statement that collect nothing.                  *)
LEMMA UncollectedSteps ==
  ASSUME IInv, NEW c \in Conns,
         IgnoreFrame(c) \/ RstStream(c) \/ Ping(c) \/ GoAway(c)
  PROVE  TypeOK' /\ Bookkeeping(c)
<1> USE DEF IInv
<1> DEFINE s == Frame(c).sid
<1>1. /\ pc[c] = "h2frames" /\ pos[c] < avail[c] /\ s \in Streams
      /\ UNCHANGED <<listening, log, avail, frame_counter>>
  BY LogsAreSequences DEF IgnoreFrame, RstStream, Ping, GoAway, AtFrame
<1>2. CASE Advance(c) /\ UNCHANGED <<collected, streams_ending>> /\ DOMAIN out' = Conns
  <2>1. /\ pos' \in [Conns -> Nat] /\ pos'[c] = pos[c] + 1
        /\ pc' \in [Conns -> PCs] /\ pc'[c] \in {"h2frames", "h2recv"}
        /\ pc'[c] = "h2frames" => pos'[c] < avail[c]
        /\ pos'[c] <= avail[c]
        /\ \A d \in Conns \ {c} : pos'[d] = pos[d] /\ pc'[d] = pc[d]
    BY <1>1, <1>2, AdvanceStep
  <2>2. TypeOK'
    BY <1>1, <1>2, <2>1 DEF TypeOK
  <2>3. pos[c] \in Nat /\ frame_counter \in Nat
    BY DEF TypeOK
  <2> QED BY <1>1, <1>2, <2>1, <2>2, <2>3 DEF Bookkeeping
<1>3. CASE Advance(c) /\ CloseStream(c, s) /\ UNCHANGED out
  <2>1. /\ pos' \in [Conns -> Nat] /\ pos'[c] = pos[c] + 1
        /\ pc' \in [Conns -> PCs] /\ pc'[c] \in {"h2frames", "h2recv"}
        /\ pc'[c] = "h2frames" => pos'[c] < avail[c]
        /\ pos'[c] <= avail[c]
        /\ \A d \in Conns \ {c} : pos'[d] = pos[d] /\ pc'[d] = pc[d]
    BY <1>1, <1>3, AdvanceStep
  <2>2. /\ collected' \in [Conns -> [Streams -> Seq(Entry)]]
        /\ streams_ending' \in [Conns -> SUBSET Streams]
        /\ streams_ending'[c] = streams_ending[c] \ {s}
        /\ collected'[c][s] = <<>>
        /\ \A t \in Streams \ {s} : collected'[c][t] = collected[c][t]
        /\ \A d \in Conns \ {c} : /\ collected'[d] = collected[d]
                                  /\ streams_ending'[d] = streams_ending[d]
    BY <1>1, <1>3, CloseStreamStep
  <2>3. TypeOK'
    BY <1>1, <1>3, <2>1, <2>2 DEF TypeOK
  <2>4. pos[c] \in Nat /\ frame_counter \in Nat
    BY DEF TypeOK
  <2> QED BY <1>1, <1>3, <2>1, <2>2, <2>3, <2>4 DEF Bookkeeping
<1>4. CASE Die(c)
  BY <1>1, <1>4, DieStep DEF TypeOK, Bookkeeping
<1>5. CASE Ping(c)
  BY <1>2, <1>4, <1>5, EmitType DEF Ping
<1> QED BY <1>2, <1>3, <1>4, <1>5 DEF IgnoreFrame, RstStream, GoAway, TypeOK

(* Counting the collected frame, and what its flags call for.              *)
LEMMA CountAndReactStep ==
  ASSUME IInv, NEW c \in Conns, CountAndReact(c)
  PROVE  TypeOK' /\ Bookkeeping(c)
<1> USE DEF IInv
<1> DEFINE s == Frame(c).sid
<1>1. /\ pc[c] = "h2count" /\ pos[c] < avail[c] /\ s \in Streams
      /\ collected[c][s] # <<>>
      /\ frame_counter' = frame_counter + 1 /\ frame_counter' \in Nat
      /\ UNCHANGED <<listening, log, avail>>
  BY LogsAreSequences DEF CountAndReact, Counted, FrameInHand, TypeOK
<1>2. CASE Advance(c) /\ UNCHANGED <<collected, streams_ending>> /\ DOMAIN out' = Conns
  <2>1. /\ pos' \in [Conns -> Nat] /\ pos'[c] = pos[c] + 1
        /\ pc' \in [Conns -> PCs] /\ pc'[c] \in {"h2frames", "h2recv"}
        /\ pc'[c] = "h2frames" => pos'[c] < avail[c]
        /\ pos'[c] <= avail[c]
        /\ \A d \in Conns \ {c} : pos'[d] = pos[d] /\ pc'[d] = pc[d]
    BY <1>1, <1>2, AdvanceStep
  <2>2. TypeOK'
    BY <1>1, <1>2, <2>1 DEF TypeOK
  <2>3. pos[c] \in Nat /\ frame_counter \in Nat
    BY DEF TypeOK
  <2> QED BY <1>1, <1>2, <2>1, <2>2, <2>3 DEF Bookkeeping
<1>3. CASE Advance(c) /\ CloseStream(c, s) /\ DOMAIN out' = Conns
  <2>1. /\ pos' \in [Conns -> Nat] /\ pos'[c] = pos[c] + 1
        /\ pc' \in [Conns -> PCs] /\ pc'[c] \in {"h2frames", "h2recv"}
        /\ pc'[c] = "h2frames" => pos'[c] < avail[c]
        /\ pos'[c] <= avail[c]
        /\ \A d \in Conns \ {c} : pos'[d] = pos[d] /\ pc'[d] = pc[d]
    BY <1>1, <1>3, AdvanceStep
  <2>2. /\ collected' \in [Conns -> [Streams -> Seq(Entry)]]
        /\ streams_ending' \in [Conns -> SUBSET Streams]
        /\ streams_ending'[c] = streams_ending[c] \ {s}
        /\ collected'[c][s] = <<>>
        /\ \A t \in Streams \ {s} : collected'[c][t] = collected[c][t]
        /\ \A d \in Conns \ {c} : /\ collected'[d] = collected[d]
                                  /\ streams_ending'[d] = streams_ending[d]
    BY <1>1, <1>3, CloseStreamStep
  <2>3. TypeOK'
    BY <1>1, <1>3, <2>1, <2>2 DEF TypeOK
  <2>4. pos[c] \in Nat /\ frame_counter \in Nat
    BY DEF TypeOK
  <2> QED BY <1>1, <1>3, <2>1, <2>2, <2>3, <2>4 DEF Bookkeeping
<1>4. CASE Die(c)
  BY <1>1, <1>4, DieStep DEF TypeOK, Bookkeeping
<1>5. CASE /\ Advance(c) /\ UNCHANGED <<collected, out>>
           /\ streams_ending' = [streams_ending EXCEPT ![c] = @ \cup {s}]
  <2>1. streams_ending' \in [Conns -> SUBSET Streams]
          /\ streams_ending'[c] = streams_ending[c] \cup {s}
          /\ \A d \in Conns \ {c} : streams_ending'[d] = streams_ending[d]
    BY <1>1, <1>5 DEF TypeOK
  <2>2. /\ pos' \in [Conns -> Nat] /\ pos'[c] = pos[c] + 1
        /\ pc' \in [Conns -> PCs] /\ pc'[c] \in {"h2frames", "h2recv"}
        /\ pc'[c] = "h2frames" => pos'[c] < avail[c]
        /\ pos'[c] <= avail[c]
        /\ \A d \in Conns \ {c} : pos'[d] = pos[d] /\ pc'[d] = pc[d]
    BY <1>1, <1>5, AdvanceStep
  <2>3. TypeOK'
    BY <1>1, <1>5, <2>1, <2>2 DEF TypeOK
  <2>4. pos[c] \in Nat /\ frame_counter \in Nat
    BY DEF TypeOK
  <2> QED BY <1>1, <1>5, <2>1, <2>2, <2>3, <2>4 DEF Bookkeeping
<1>6. CASE RespondAndCloseStream(c, s)
  BY <1>3, <1>4, <1>6, EmitType DEF RespondAndCloseStream
<1>7. CASE Emit(c, "ack", TRUE, 0, <<>>) /\ Advance(c)
             /\ UNCHANGED <<collected, streams_ending>>
  BY <1>2, <1>7, EmitType
<1>8. CASE Advance(c) /\ UNCHANGED <<collected, streams_ending, out>>
  BY <1>2, <1>8 DEF TypeOK
<1> QED BY <1>4, <1>5, <1>6, <1>7, <1>8 DEF CountAndReact

-----------------------------------------------------------------------------
(* The invariant is inductive.                                             *)
LEMMA NextInv == IInv /\ [Next]_vars => IInv'
<1> SUFFICES ASSUME IInv, [Next]_vars PROVE IInv'
  OBVIOUS
<1>1. CASE UNCHANGED vars
  BY <1>1 DEF vars, IInv, TypeOK, StampsCounted, FrameInHand, StampOrder,
     EndingStreamsHoldFrames, Frame
<1>2. ASSUME NEW c \in Conns, Accept(c) \/ AcceptFails(c) \/ RecvFails(c) \/ Thread(c)
      PROVE  IInv'
  <2>1. CASE Collect(c)
    BY <2>1, CollectInv
  <2>2. CASE ~Collect(c)
    <3>1. TypeOK' /\ Bookkeeping(c)
      BY <1>2, <2>2, OpeningSteps, ParsingSteps, UncollectedSteps,
         CountAndReactStep DEF Thread
    <3> QED BY <3>1, BookkeepingInv
  <2> QED BY <2>1, <2>2
<1> QED BY <1>1, <1>2 DEF Next

(* Together: IInv holds in every reachable state.                          *)
THEOREM Invariance == Spec => []IInv
  BY InitInv, NextInv, PTL DEF Spec

(* Every variable keeps its type, the cursors stay within the log.         *)
THEOREM TypeCorrect == Spec => []TypeOK
<1>1. IInv => TypeOK
  BY DEF IInv
<1> QED BY <1>1, Invariance, PTL

(* Sorting by stamp restores the arrival order of a connection's frames    *)
(* (echo_server.py:53), however many threads race on frame_counter.        *)
THEOREM StampsOrderFrames == Spec => []StampOrder
<1>1. IInv => StampOrder
  BY DEF IInv
<1> QED BY <1>1, Invariance, PTL

(* close_stream and collect_frame keep streams_ending within the streams   *)
(* that hold frames.                                                       *)
THEOREM EndingStreamsHeld == Spec => []EndingStreamsHoldFrames
<1>1. IInv => EndingStreamsHoldFrames
  BY DEF IInv
<1> QED BY <1>1, Invariance, PTL

-----------------------------------------------------------------------------
(* What the handlers answer.  The rest of the invariant says where each    *)
(* connection is, what its handler has sent so far, and which frames it    *)
(* holds, in terms of the peer's log l and of how much of it is consumed.  *)

Sent == [kind : {"echo", "settings", "stream", "ack", "pong"}, ok : BOOLEAN,
         at : Nat, sid : Streams, body : Seq(Nat)]

Increasing(body) == \A k, l \in DOMAIN body : k < l => body[k] < body[l]

(* The frames of stream s among the first p units of l that no unit up to  *)
(* the q-th closed again.                                                  *)
Since(l, s, p, q) ==
  {m \in 1..p : /\ Kept(l[m]) /\ l[m].sid = s
                /\ \A k \in m..q : ~Closes(l[k], s)}

Holds(entries, frames) ==
  /\ {entries[i].n : i \in DOMAIN entries} = frames
  /\ \A i, j \in DOMAIN entries : i < j => entries[i].n < entries[j].n

HoldsAll(held, l, p, q) == \A s \in Streams : Holds(held[s], Since(l, s, p, q))

FaithfulTo(l, r) ==
  r.kind = "stream" =>
     /\ Range(r.body) = Since(l, r.sid, r.at, r.at - 1) \cup Since(l, 0, r.at, r.at - 1)
     /\ Increasing(r.body)

Answers(o) == {i \in DOMAIN o : o[i].kind = "stream"}

AnsweredIn(l, p, o) ==
  /\ {o[i].at : i \in Answers(o)} = {m \in 1..p : Ending(l[m])}
  /\ \A i, j \in Answers(o) : i < j => o[i].at < o[j].at

Bodies(o) == [i \in DOMAIN o |-> o[i].body]

EchoedIn(o, p) ==
  /\ \A i \in DOMAIN o : o[i].kind = "echo"
  /\ FlattenSeq(Bodies(o)) = [m \in 1..p |-> m]

(* The phases of a connection: before its handler is chosen, the HTTP/2    *)
(* handler's first message, the two loops, and the end.                    *)
Waiting(c) ==
  /\ pc[c] \in {"backlog", "preamble"}
  /\ out[c] = <<>> /\ \A s \in Streams : collected[c][s] = <<>>

Opening(c) ==
  /\ pc[c] = "h2settings" /\ pos[c] = 1 /\ log[c][1].typ = "PREFACE"
  /\ out[c] = <<>> /\ \A s \in Streams : collected[c][s] = <<>>

Echoing(c) ==
  /\ pc[c] \in {"h1send", "h1recv"}
  /\ EchoedIn(out[c], pos[c])

Taken(c) == IF pc[c] = "h2count" THEN pos[c] + 1 ELSE pos[c]

Answering(c) ==
  /\ pc[c] \in {"h2parse", "h2frames", "h2count", "h2recv"} /\ IsH2(c)
  /\ pc[c] = "h2count" => Kept(Frame(c))
  /\ AnsweredIn(log[c], pos[c], out[c])
  /\ HoldsAll(collected[c], log[c], Taken(c), pos[c])

Finished(c) ==
  /\ pc[c] = "done"
  /\ IsH1(c) => EchoedIn(out[c], pos[c])
  /\ IsH2(c) => AnsweredIn(log[c], pos[c], out[c])

Phase(c) == Waiting(c) \/ Opening(c) \/ Echoing(c) \/ Answering(c) \/ Finished(c)

OutFaithful(c) ==
  out[c] \in Seq(Sent) /\ \A i \in DOMAIN out[c] : FaithfulTo(log[c], out[c][i])

AnswersInv == IInv /\ \A c \in Conns : Phase(c) /\ OutFaithful(c)

(* Units that are not kept or that close a stream, one further unit.       *)
LEMMA SinceClosed ==
  ASSUME NEW l, NEW s, NEW q \in Nat, Closes(l[q + 1], s)
  PROVE  Since(l, s, q + 1, q + 1) = {}
<1> SUFFICES ASSUME NEW m \in Since(l, s, q + 1, q + 1) PROVE FALSE
  OBVIOUS
<1>1. q + 1 \in m..q + 1
  BY DEF Since
<1> QED
  BY <1>1 DEF Since

LEMMA SinceOpen ==
  ASSUME NEW l, NEW s, NEW q \in Nat, NEW p \in {q, q + 1}, ~Closes(l[q + 1], s)
  PROVE  Since(l, s, p, q + 1) = Since(l, s, p, q)
<1>1. ASSUME NEW m \in 1..p
      PROVE  m..q + 1 = m..q \cup {q + 1}
  OBVIOUS
<1> QED
  BY <1>1 DEF Since

LEMMA SinceMore ==
  ASSUME NEW l, NEW s, NEW q \in Nat
  PROVE  Since(l, s, q + 1, q) =
            IF Kept(l[q + 1]) /\ l[q + 1].sid = s THEN Since(l, s, q, q) \cup {q + 1}
            ELSE Since(l, s, q, q)
<1>1. 1..q + 1 = 1..q \cup {q + 1} /\ q + 1 .. q = {}
  OBVIOUS
<1> QED
  BY <1>1 DEF Since

(* Sorting held frames by stamp puts them in the order they were sent.     *)
InOrder(entries) ==
  \A i, j \in DOMAIN entries :
     /\ entries[i].n = entries[j].n => i = j
     /\ entries[i].n < entries[j].n => entries[i].stamp < entries[j].stamp

PlaceOf(entries, n, k) == CHOOSE i \in 1..n : Rank(entries, i) = k

LEMMA SortRestores ==
  ASSUME NEW entries, NEW n \in Nat, DOMAIN entries = 1..n,
         \A i \in 1..n : entries[i] \in Entry, InOrder(entries), NEW sorted,
         sorted = [k \in 1..n |-> entries[PlaceOf(entries, n, k)].n]
  PROVE  /\ Range(sorted) = {entries[i].n : i \in 1..n}
         /\ Increasing(sorted)
<1> DEFINE R == {p \in (1..n) \X (1..n) : NoLater(entries, p[1], p[2])}
           r == [i \in 1..n |-> Rank(entries, i)]
<1>0. \A i \in 1..n : entries[i].stamp \in Nat /\ entries[i].n \in Nat
  BY DEF Entry
<1>1. \A i, j \in 1..n : <<i, j>> \in R <=> NoLater(entries, i, j)
  OBVIOUS
<1>2. Orders(R, n)
  <2>1. \A i, j, k \in 1..n :
            /\ NoLater(entries, i, i)
            /\ NoLater(entries, i, j) \/ NoLater(entries, j, i)
            /\ NoLater(entries, i, j) /\ NoLater(entries, j, i) => i = j
            /\ NoLater(entries, i, j) /\ NoLater(entries, j, k) => NoLater(entries, i, k)
    BY <1>0 DEF NoLater
  <2> HIDE DEF R
  <2> QED
    BY <1>1, <2>1 DEF Orders
<1>3. Ranks(R, n, r)
  <2>1. \A i \in 1..n : {j \in 1..n : <<j, i>> \in R} = {j \in DOMAIN entries : NoLater(entries, j, i)}
    BY <1>1
  <2> HIDE DEF R
  <2> QED
    BY <2>1 DEF Ranks, Rank
<1>4. Permutes(r, n) /\ Follows(r, R, n)
  <2> HIDE DEF R, r
  <2> QED
    BY <1>2, <1>3, RanksPermute
<1> DEFINE place(k) == PlaceOf(entries, n, k)
           body == [k \in 1..n |-> entries[place(k)].n]
<1>5. \A k \in 1..n : place(k) \in 1..n /\ r[place(k)] = k
  <2> SUFFICES ASSUME NEW k \in 1..n
               PROVE  \E i \in 1..n : Rank(entries, i) = k
    BY DEF PlaceOf
  <2>1. \E i \in 1..n : r[i] = k
    BY <1>4 DEF Permutes
  <2> QED
    BY <2>1
<1>6. \A i \in 1..n : r[i] \in 1..n /\ place(r[i]) = i
  <2> SUFFICES ASSUME NEW i \in 1..n
               PROVE  r[i] \in 1..n /\ place(r[i]) = i
    OBVIOUS
  <2>1. r[i] \in 1..n
    BY <1>4 DEF Permutes
  <2> HIDE DEF r, place
  <2> QED
    BY <1>4, <1>5, <2>1 DEF Permutes
<1> HIDE DEF place
<1>7. Range(body) = {entries[i].n : i \in 1..n}
  <2> HIDE DEF r
  <2> QED
    BY <1>5, <1>6 DEF Range
<1>8. Increasing(body)
  <2> SUFFICES ASSUME NEW k \in 1..n, NEW l \in 1..n, k < l
               PROVE  entries[place(k)].n < entries[place(l)].n
    BY DEF Increasing
  <2> DEFINE a == place(k)
             b == place(l)
  <2>1. a \in 1..n /\ b \in 1..n /\ r[a] = k /\ r[b] = l
    BY <1>5
  <2> HIDE DEF a, b, r
  <2>2. NoLater(entries, a, b)
    BY <1>1, <1>4, <2>1 DEF Follows
  <2>3. a # b
    BY <2>1
  <2> HIDE DEF R
  <2>4. /\ entries[a].stamp \in Nat /\ entries[b].stamp \in Nat
        /\ entries[a].n \in Nat /\ entries[b].n \in Nat
    BY <1>0, <2>1
  <2>5. entries[a].n # entries[b].n
    BY <2>1, <2>3 DEF InOrder
  <2>6. ~ (entries[b].n < entries[a].n)
    <3>1. entries[b].n < entries[a].n => entries[b].stamp < entries[a].stamp
      BY <2>1 DEF InOrder
    <3> QED
      BY <3>1, <2>2, <2>4 DEF NoLater
  <2> QED
    BY <2>4, <2>5, <2>6 DEF a, b
<1> QED
  BY <1>7, <1>8 DEF place, body

-----------------------------------------------------------------------------
(* One more message sent.                                                  *)

LEMMA SentBefore ==
  ASSUME NEW o \in Seq(Sent), NEW r \in Sent
  PROVE  /\ Append(o, r) \in Seq(Sent) /\ Append(o, r) # <<>>
         /\ Len(o) \in Nat /\ DOMAIN o = 1..Len(o)
         /\ DOMAIN Append(o, r) = 1..Len(o) \cup {Len(o) + 1}
         /\ \A i \in 1..Len(o) : Append(o, r)[i] = o[i] /\ o[i] \in Sent
         /\ Append(o, r)[Len(o) + 1] = r
         /\ Append(o, r)[1] = IF o = <<>> THEN r ELSE o[1]
<1> HIDE DEF Sent
<1> QED
  OBVIOUS

LEMMA SendsFaithfully ==
  ASSUME NEW l, NEW o \in Seq(Sent), NEW r \in Sent, FaithfulTo(l, r),
         \A i \in DOMAIN o : FaithfulTo(l, o[i])
  PROVE  \A i \in DOMAIN Append(o, r) : FaithfulTo(l, Append(o, r)[i])
<1> DEFINE t == Append(o, r)
<1> HIDE DEF t
<1> QED
  BY SentBefore DEF t

(* A message that is no answer leaves the answers what they are. *)
LEMMA AnswersAsBefore ==
  ASSUME NEW l, NEW p, NEW o \in Seq(Sent), NEW r \in Sent, AnsweredIn(l, p, o),
         r.kind # "stream"
  PROVE  AnsweredIn(l, p, Append(o, r))
<1> DEFINE t == Append(o, r)
<1>1. /\ DOMAIN o = 1..Len(o) /\ DOMAIN t = 1..Len(o) \cup {Len(o) + 1}
      /\ \A i \in 1..Len(o) : t[i] = o[i]
      /\ t[Len(o) + 1] = r
  BY SentBefore
<1> HIDE DEF t
<1>2. Answers(t) = Answers(o)
  BY <1>1 DEF Answers
<1>3. \A i \in Answers(o) : t[i].at = o[i].at
  BY <1>1 DEF Answers
<1>4. {t[i].at : i \in Answers(t)} = {o[i].at : i \in Answers(o)}
  BY <1>2, <1>3
<1>5. AnsweredIn(l, p, t)
  BY <1>2, <1>3, <1>4 DEF AnsweredIn
<1> QED
  BY <1>5 DEF t

LEMMA AnswersMore ==
  ASSUME NEW l, NEW p \in Nat, NEW o \in Seq(Sent), NEW r \in Sent, AnsweredIn(l, p, o),
         r.kind = "stream", r.at = p + 1, Ending(l[p + 1])
  PROVE  AnsweredIn(l, p + 1, Append(o, r))
<1> DEFINE t == Append(o, r)
           n == Len(o) + 1
<1>1. /\ Len(o) \in Nat
      /\ DOMAIN o = 1..Len(o) /\ DOMAIN t = 1..Len(o) \cup {n}
      /\ \A i \in 1..Len(o) : t[i] = o[i]
      /\ t[n] = r
  BY SentBefore
<1>2. n \notin DOMAIN o /\ n \in Nat /\ \A i \in DOMAIN o : i < n /\ ~(n < i)
  BY <1>1
<1> HIDE DEF t, n
<1>3. Answers(t) = Answers(o) \cup {n}
  BY <1>1, <1>2 DEF Answers
<1>4. \A i \in Answers(o) : t[i].at = o[i].at /\ i \in DOMAIN o
  BY <1>1 DEF Answers
<1>5. {t[i].at : i \in Answers(t)} = {o[i].at : i \in Answers(o)} \cup {p + 1}
  BY <1>1, <1>3, <1>4
<1>6. {m \in 1..p + 1 : Ending(l[m])} = {m \in 1..p : Ending(l[m])} \cup {p + 1}
  OBVIOUS
<1>7. \A i \in Answers(o) : o[i].at \in 1..p
  BY DEF AnsweredIn
<1>8. ASSUME NEW i \in Answers(t), NEW j \in Answers(t), i < j
      PROVE  t[i].at < t[j].at
  <2>1. i \in Answers(o)
    BY <1>1, <1>2, <1>3, <1>4, <1>8 DEF Answers
  <2>2. CASE j \in Answers(o)
    BY <1>4, <1>8, <2>1, <2>2 DEF AnsweredIn
  <2>3. CASE j = n
    <3>1. t[i].at \in 1..p /\ t[j].at = p + 1
      BY <1>1, <1>4, <1>7, <2>1, <2>3
    <3> QED
      BY <3>1
  <2> QED
    BY <1>3, <2>2, <2>3
<1> QED
  BY <1>5, <1>6, <1>8 DEF AnsweredIn, t

(* An echo of the units in hand goes on where the last one ended. *)
LEMMA EchoesMore ==
  ASSUME NEW o \in Seq(Sent), NEW p \in Nat, NEW a \in Nat, p <= a, NEW r \in Sent,
         r.kind = "echo", r.body = [i \in 1..(a - p) |-> p + i], EchoedIn(o, p)
  PROVE  EchoedIn(Append(o, r), a)
<1> DEFINE t == Append(o, r)
<1>1. /\ Len(o) \in Nat
      /\ DOMAIN o = 1..Len(o) /\ DOMAIN t = 1..Len(o) \cup {Len(o) + 1}
      /\ \A i \in 1..Len(o) : t[i] = o[i] /\ o[i] \in Sent
      /\ t[Len(o) + 1] = r /\ Len(t) = Len(o) + 1
  BY SentBefore
<1>2. Bodies(o) \in Seq(Seq(Nat)) /\ Len(Bodies(o)) = Len(o)
  <2>1. \A i \in 1..Len(o) : o[i].body \in Seq(Nat)
    BY <1>1 DEF Sent
  <2> QED
    BY <1>1, <2>1 DEF Bodies
<1>3. r.body \in Seq(Nat)
  BY DEF Sent
<1>4. Bodies(t) = Append(Bodies(o), r.body)
  <2>1. DOMAIN t = 1..Len(o) + 1
    BY <1>1
  <2>2. Bodies(t) = [i \in 1..Len(o) + 1 |-> IF i <= Len(o) THEN o[i].body ELSE r.body]
    <3> HIDE DEF t
    <3> QED
      BY <1>1, <2>1 DEF Bodies
  <2>3. \A i \in 1..Len(o) : Bodies(o)[i] = o[i].body
    BY <1>1 DEF Bodies
  <2> HIDE DEF t
  <2> QED
    BY <1>1, <1>2, <1>3, <2>2, <2>3
<1>5. FlattenSeq(Bodies(t)) = FlattenSeq(Bodies(o)) \o r.body
  <2> HIDE DEF t
  <2> QED
    BY <1>2, <1>3, <1>4, FlattenAppend
<1>6. [m \in 1..p |-> m] \o [i \in 1..(a - p) |-> p + i] = [m \in 1..a |-> m]
  BY UpToContinues DEF UpTo
<1>7. \A i \in DOMAIN t : t[i].kind = "echo"
  <2> HIDE DEF t
  <2> QED
    BY <1>1 DEF EchoedIn
<1> QED
  BY <1>5, <1>6, <1>7 DEF EchoedIn

-----------------------------------------------------------------------------
(* A step of thread c leaves everything of another connection as it was,   *)
(* but for frame_counter.                                                  *)
LEMMA OthersUntouched ==
  ASSUME TypeOK, NEW c \in Conns, NEW d \in Conns \ {c},
         Accept(c) \/ AcceptFails(c) \/ RecvFails(c) \/ Thread(c)
  PROVE  /\ log' = log /\ pc'[d] = pc[d] /\ pos'[d] = pos[d]
         /\ collected'[d] = collected[d] /\ out'[d] = out[d]
<1> USE DEF TypeOK
<1>1. CASE Accept(c) \/ AcceptFails(c) \/ RecvFails(c)
  BY <1>1 DEF Accept, AcceptFails, RecvFails
<1>2. CASE RecvPreamble(c)
  BY <1>2 DEF RecvPreamble
<1>3. CASE H1Send(c) \/ H1Recv(c)
  BY <1>3 DEF H1Send, H1Recv, Emit
<1>4. CASE H2Settings(c) \/ ParseGenericFrames(c) \/ ParseTornFrame(c) \/ H2Recv(c)
  BY <1>4 DEF H2Settings, ParseGenericFrames, ParseTornFrame, H2Recv, Emit
<1>5. CASE Collect(c)
  BY <1>5 DEF Collect
<1>6. CASE CountAndReact(c)
  BY <1>6 DEF CountAndReact, RespondAndCloseStream, Emit, CloseStream, Advance, Die
<1>7. CASE IgnoreFrame(c) \/ RstStream(c) \/ Ping(c) \/ GoAway(c)
  BY <1>7 DEF IgnoreFrame, RstStream, Ping, GoAway, Emit, CloseStream, Advance, Die
<1> QED
  BY <1>1, <1>2, <1>3, <1>4, <1>5, <1>6, <1>7 DEF Thread

LEMMA StaysInPhase ==
  ASSUME NEW d \in Conns, Phase(d), OutFaithful(d),
         log' = log, pc'[d] = pc[d], pos'[d] = pos[d],
         collected'[d] = collected[d], out'[d] = out[d]
  PROVE  Phase(d)' /\ OutFaithful(d)'
BY DEF Phase, OutFaithful, Waiting, Opening, Echoing, Answering, Finished, Taken,
       Frame, IsH1, IsH2

(* What sending a message does to out. *)
Sends(c, kind, s, body) ==
  \E r \in Sent : /\ r.kind = kind /\ r.at = pos[c] + 1 /\ r.sid = s /\ r.body = body
                  /\ out'[c] = Append(out[c], r)
                  /\ OutFaithful(c)'

LEMMA EmitStep ==
  ASSUME TypeOK, NEW c \in Conns, OutFaithful(c), log' = log,
         NEW kind \in {"echo", "settings", "stream", "ack", "pong"},
         NEW ok \in BOOLEAN, NEW s \in Streams, NEW body \in Seq(Nat),
         Emit(c, kind, ok, s, body),
         FaithfulTo(log[c], [kind |-> kind, ok |-> ok, at |-> pos[c] + 1, sid |-> s,
                             body |-> body])
  PROVE  Sends(c, kind, s, body)
<1> DEFINE r == [kind |-> kind, ok |-> ok, at |-> pos[c] + 1, sid |-> s, body |-> body]
<1>1. r \in Sent
  BY DEF TypeOK, Sent
<1>2. out'[c] = Append(out[c], r)
  BY DEF Emit, TypeOK
<1>3. out[c] \in Seq(Sent) /\ \A i \in DOMAIN out[c] : FaithfulTo(log[c], out[c][i])
  BY DEF OutFaithful
<1>4. r.kind = kind /\ r.at = pos[c] + 1 /\ r.sid = s /\ r.body = body
  OBVIOUS
<1> HIDE DEF r
<1>5. \A i \in DOMAIN Append(out[c], r) : FaithfulTo(log[c], Append(out[c], r)[i])
  BY <1>1, <1>3, SendsFaithfully DEF r
<1>6. Append(out[c], r) \in Seq(Sent)
  BY <1>1, <1>3, SentBefore
<1>7. OutFaithful(c)'
  BY <1>2, <1>5, <1>6 DEF OutFaithful
<1> QED
  BY <1>1, <1>2, <1>4, <1>7 DEF Sends

(* An HTTP/1 handler's messages tell it from an HTTP/2 handler. *)
LEMMA EchoesAreH1 ==
  ASSUME NEW o \in Seq(Sent), NEW p, EchoedIn(o, p), o # <<>>
  PROVE  o[1].kind = "echo"
<1> HIDE DEF Sent
<1>1. 1 \in DOMAIN o
  OBVIOUS
<1> QED
  BY <1>1 DEF EchoedIn

(* The steps before the handler is chosen, and those of the HTTP/1 loop.   *)
LEMMA OpeningPhases ==
  ASSUME IInv, NEW c \in Conns, Phase(c), OutFaithful(c),
         \/ Accept(c) \/ AcceptFails(c) \/ RecvPreamble(c) \/ RecvFails(c)
         \/ H1Recv(c)
  PROVE  Phase(c)' /\ OutFaithful(c)'
<1>1. /\ TypeOK /\ pc[c] \in PCs /\ Len(log[c]) \in Nat
      /\ pc[c] \in {"backlog", "preamble"} => pos[c] = 0
  BY LogsAreSequences DEF IInv, TypeOK, FrameInHand
<1>2. log' = log /\ out' = out /\ collected' = collected
  BY DEF Accept, AcceptFails, RecvPreamble, RecvFails, H1Recv
<1>3. OutFaithful(c)'
  BY <1>2 DEF OutFaithful
<1> SUFFICES Phase(c)'
  BY <1>3
<1>4. CASE Accept(c)
  BY <1>1, <1>2, <1>4 DEF Accept, TypeOK, Phase, Waiting, Opening, Echoing, Answering,
     Finished
<1>5. CASE AcceptFails(c)
  BY <1>1, <1>2, <1>5 DEF AcceptFails, TypeOK, Phase, Waiting, Opening, Echoing,
     Answering, Finished, IsH1, IsH2
<1>6. CASE RecvPreamble(c)
  <2>1. Waiting(c) /\ pc[c] = "preamble"
    BY <1>6 DEF RecvPreamble, Phase, Waiting, Opening, Echoing, Answering, Finished
  <2>2. \/ pos'[c] = 1 /\ pc'[c] = "h2settings" /\ log[c][1].typ = "PREFACE"
        \/ pos'[c] = 0 /\ pc'[c] = "h1send"
    BY <1>6, <1>1 DEF RecvPreamble, TypeOK
  <2>3. CASE pos'[c] = 1 /\ pc'[c] = "h2settings" /\ log[c][1].typ = "PREFACE"
    BY <1>2, <2>1, <2>3 DEF Phase, Opening, Waiting
  <2>4. CASE pos'[c] = 0 /\ pc'[c] = "h1send"
    <3>1. EchoedIn(<<>>, 0)
      <4>1. Bodies(<<>>) = <<>> /\ [m \in 1..0 |-> m] = <<>>
        BY DEF Bodies
      <4> QED
        BY <4>1, FlattenEmpty DEF EchoedIn
    <3> QED
      BY <1>2, <2>1, <2>4, <3>1 DEF Phase, Echoing, Waiting
  <2> QED
    BY <2>2, <2>3, <2>4
<1>7. CASE RecvFails(c)
  <2>1. pc'[c] = "done" /\ pos' = pos /\ pc[c] \in {"preamble", "h1recv", "h2recv"}
    BY <1>1, <1>7 DEF RecvFails, TypeOK
  <2>2. Waiting(c) \/ Echoing(c) \/ Answering(c)
    BY <2>1 DEF Phase, Opening, Finished
  <2>3. CASE Waiting(c)
    BY <1>2, <2>1, <2>3 DEF Waiting, Phase, Finished, IsH1, IsH2
  <2>4. CASE Echoing(c)
    BY <1>2, <2>1, <2>4, EchoesAreH1 DEF Echoing, Phase, Finished, IsH2, OutFaithful
  <2>5. CASE Answering(c)
    BY <1>2, <2>1, <2>5 DEF Answering, Phase, Finished, IsH1, IsH2
  <2> QED
    BY <2>2, <2>3, <2>4, <2>5
<1>8. CASE H1Recv(c)
  <2>1. pc[c] = "h1recv" /\ pc'[c] \in {"done", "h1send"} /\ pos' = pos
    BY <1>1, <1>8 DEF H1Recv, TypeOK
  <2>2. Echoing(c)
    BY <2>1 DEF Phase, Waiting, Opening, Answering, Finished
  <2> QED
    BY <1>2, <2>1, <2>2, EchoesAreH1 DEF Echoing, Phase, Finished, IsH2, OutFaithful
<1> QED
  BY <1>4, <1>5, <1>6, <1>7, <1>8

LEMMA H1SendPhase ==
  ASSUME IInv, NEW c \in Conns, Phase(c), OutFaithful(c), H1Send(c)
  PROVE  Phase(c)' /\ OutFaithful(c)'
<1>1. TypeOK /\ pos[c] \in Nat /\ avail[c] \in Nat /\ pos[c] <= avail[c] /\ 0 \in Streams
  BY EchoAssumption DEF IInv, TypeOK
<1>2. PICK ok \in BOOLEAN : Emit(c, "echo", ok, 0, InHand(c))
  BY DEF H1Send
<1>3. /\ pc[c] = "h1send" /\ pc'[c] \in {"h1recv", "done"} /\ pos'[c] = avail[c]
      /\ log' = log
  BY <1>1 DEF H1Send, TypeOK
<1>4. InHand(c) \in Seq(Nat) /\ InHand(c) = [i \in 1..(avail[c] - pos[c]) |-> pos[c] + i]
  BY <1>1 DEF InHand
<1>5. \A whole \in BOOLEAN :
         FaithfulTo(log[c], [kind |-> "echo", ok |-> whole, at |-> pos[c] + 1, sid |-> 0,
                             body |-> InHand(c)])
  BY DEF FaithfulTo
<1>6. PICK r \in Sent : /\ r.kind = "echo" /\ r.body = InHand(c)
                        /\ out'[c] = Append(out[c], r)
                        /\ OutFaithful(c)'
  <2>1. Sends(c, "echo", 0, InHand(c))
    BY <1>1, <1>2, <1>3, <1>4, <1>5, EmitStep
  <2> QED
    BY <2>1 DEF Sends
<1>7. EchoedIn(out[c], pos[c]) /\ out[c] \in Seq(Sent)
  BY <1>3 DEF Phase, Waiting, Opening, Echoing, Answering, Finished, OutFaithful
<1>8. EchoedIn(out'[c], pos'[c])
  <2>1. r.body = [i \in 1..(avail[c] - pos[c]) |-> pos[c] + i]
    BY <1>4, <1>6
  <2>2. EchoedIn(Append(out[c], r), avail[c])
    BY <1>1, <1>6, <1>7, <2>1, EchoesMore, Zenon
  <2> QED
    BY <1>3, <1>6, <2>2
<1>9. ~IsH2(c)'
  BY <1>6, <1>8, EchoesAreH1 DEF IsH2, OutFaithful
<1> QED
  BY <1>3, <1>6, <1>8, <1>9 DEF Phase, Echoing, Finished

-----------------------------------------------------------------------------
(* What the steps of the HTTP/2 loop do to the frames held.                *)

(* The loop goes past unit p + 1: the streams it closes are emptied, and   *)
(* unless it was collected before it is not one to keep.                   *)
LEMMA GoesPast ==
  ASSUME NEW l, NEW p \in Nat, NEW q \in {p, p + 1}, NEW held, NEW rest,
         HoldsAll(held, l, q, p),
         \A s \in Streams : rest[s] = IF Closes(l[p + 1], s) THEN <<>> ELSE held[s],
         q = p => ~Kept(l[p + 1])
  PROVE  HoldsAll(rest, l, p + 1, p + 1)
<1> SUFFICES ASSUME NEW s \in Streams PROVE Holds(rest[s], Since(l, s, p + 1, p + 1))
  BY DEF HoldsAll
<1>1. CASE Closes(l[p + 1], s)
  <2>1. rest[s] = <<>> /\ Since(l, s, p + 1, p + 1) = {}
    BY <1>1, SinceClosed
  <2> QED
    BY <2>1 DEF Holds
<1>2. CASE ~Closes(l[p + 1], s)
  <2>1. rest[s] = held[s] /\ Holds(held[s], Since(l, s, q, p))
    BY <1>2 DEF HoldsAll
  <2>2. Since(l, s, p + 1, p + 1) = Since(l, s, p + 1, p)
    BY <1>2, SinceOpen
  <2>3. q = p => Since(l, s, p + 1, p) = Since(l, s, p, p)
    BY SinceMore
  <2>4. Since(l, s, p + 1, p + 1) = Since(l, s, q, p)
    BY <2>2, <2>3
  <2> QED
    BY <2>1, <2>4
<1> QED
  BY <1>1, <1>2

LEMMA HoldsMore ==
  ASSUME NEW entries \in Seq(Entry), NEW frames, Holds(entries, frames),
         NEW e \in Entry, \A m \in frames : m < e.n
  PROVE  Holds(Append(entries, e), frames \cup {e.n})
<1> DEFINE t == Append(entries, e)
<1>1. /\ Len(entries) \in Nat /\ DOMAIN entries = 1..Len(entries)
      /\ DOMAIN t = 1..Len(entries) \cup {Len(entries) + 1}
      /\ \A i \in 1..Len(entries) : t[i] = entries[i] /\ i < Len(entries) + 1
                                       /\ ~(Len(entries) + 1 < i)
      /\ t[Len(entries) + 1] = e
      /\ ~(Len(entries) + 1 < Len(entries) + 1)
  <2> HIDE DEF Entry
  <2> QED
    OBVIOUS
<1> HIDE DEF t
<1>2. {t[i].n : i \in DOMAIN t} = {entries[i].n : i \in DOMAIN entries} \cup {e.n}
  BY <1>1
<1>3. \A i \in 1..Len(entries) : entries[i].n \in frames
  BY <1>1 DEF Holds
<1>4. \A i, j \in DOMAIN t : i < j => t[i].n < t[j].n
  <2> SUFFICES ASSUME NEW i \in DOMAIN t, NEW j \in DOMAIN t, i < j
               PROVE  t[i].n < t[j].n
    OBVIOUS
  <2>1. i \in 1..Len(entries)
    BY <1>1
  <2>2. CASE j \in 1..Len(entries)
    BY <1>1, <2>1, <2>2 DEF Holds
  <2>3. CASE j = Len(entries) + 1
    BY <1>1, <1>3, <2>1, <2>3
  <2> QED
    BY <1>1, <2>2, <2>3
<1>5. Holds(t, frames \cup {e.n})
  BY <1>2, <1>4 DEF Holds
<1> QED
  BY <1>5 DEF t

(* collect_frame adds unit p + 1 to the frames of its stream. *)
LEMMA CollectsFrame ==
  ASSUME NEW l, NEW p \in Nat, NEW held \in [Streams -> Seq(Entry)], NEW more,
         HoldsAll(held, l, p, p), NEW e \in Entry, e.n = p + 1,
         Kept(l[p + 1]), l[p + 1].sid \in Streams,
         \A s \in Streams : more[s] = IF s = l[p + 1].sid THEN Append(held[s], e)
                                      ELSE held[s]
  PROVE  HoldsAll(more, l, p + 1, p)
<1> SUFFICES ASSUME NEW s \in Streams PROVE Holds(more[s], Since(l, s, p + 1, p))
  BY DEF HoldsAll
<1>1. Holds(held[s], Since(l, s, p, p)) /\ held[s] \in Seq(Entry)
  BY DEF HoldsAll
<1>2. \A m \in Since(l, s, p, p) : m < e.n
  BY DEF Since
<1>3. CASE s = l[p + 1].sid
  <2>1. Since(l, s, p + 1, p) = Since(l, s, p, p) \cup {e.n}
    BY <1>3, SinceMore
  <2>2. Holds(Append(held[s], e), Since(l, s, p, p) \cup {e.n})
    BY <1>1, <1>2, HoldsMore
  <2> QED
    BY <1>3, <2>1, <2>2
<1>4. CASE s # l[p + 1].sid
  <2>1. Since(l, s, p + 1, p) = Since(l, s, p, p)
    BY <1>4, SinceMore
  <2> QED
    BY <1>1, <1>4, <2>1
<1> QED
  BY <1>3, <1>4

(* No answer is due for a unit that ends nothing. *)
LEMMA NoAnswerDue ==
  ASSUME NEW l, NEW p \in Nat, NEW o, AnsweredIn(l, p, o), ~Ending(l[p + 1])
  PROVE  AnsweredIn(l, p + 1, o)
<1>1. {m \in 1..p + 1 : Ending(l[m])} = {m \in 1..p : Ending(l[m])}
  OBVIOUS
<1> QED
  BY <1>1 DEF AnsweredIn

(* The frames of stream s and of stream 0, as respond_and_close_stream     *)
(* puts them together: each once, and the stamps in the order of arrival.  *)
LEMMA RelevantInOrder ==
  ASSUME IInv, NEW c \in Conns, Answering(c), NEW s \in Streams \ {0},
         NEW entries, entries = collected[c][s] \o collected[c][0],
         NEW n, n = Len(entries)
  PROVE  /\ n \in Nat /\ DOMAIN entries = 1..n
         /\ \A i \in 1..n : entries[i] \in Entry
         /\ InOrder(entries)
         /\ {entries[i].n : i \in 1..n} =
              Since(log[c], s, Taken(c), pos[c]) \cup Since(log[c], 0, Taken(c), pos[c])
<1> DEFINE A == collected[c][s]
           B == collected[c][0]
           S == Since(log[c], s, Taken(c), pos[c])
           Z == Since(log[c], 0, Taken(c), pos[c])
<1>1. A \in Seq(Entry) /\ B \in Seq(Entry)
  BY EchoAssumption DEF IInv, TypeOK
<1>2. Holds(A, S) /\ Holds(B, Z)
  BY EchoAssumption DEF Answering, HoldsAll
<1>3. S \cap Z = {}
  BY DEF Since
<1>4. \A i \in DOMAIN A : A[i].n \in S
  <2> HIDE DEF A, S
  <2> QED
    BY <1>2 DEF Holds
<1>5. \A i \in DOMAIN B : B[i].n \in Z
  <2> HIDE DEF B, Z
  <2> QED
    BY <1>2 DEF Holds
<1>6. /\ \A i \in DOMAIN A, j \in DOMAIN A : A[i].n < A[j].n => A[i].stamp < A[j].stamp
      /\ \A i \in DOMAIN A, j \in DOMAIN B : A[i].n < B[j].n => A[i].stamp < B[j].stamp
      /\ \A i \in DOMAIN B, j \in DOMAIN A : B[i].n < A[j].n => B[i].stamp < A[j].stamp
      /\ \A i \in DOMAIN B, j \in DOMAIN B : B[i].n < B[j].n => B[i].stamp < B[j].stamp
  BY EchoAssumption DEF IInv, StampOrder
<1> HIDE DEF A, B, S, Z
<1>7. /\ Len(A) \in Nat /\ Len(B) \in Nat /\ DOMAIN A = 1..Len(A) /\ DOMAIN B = 1..Len(B)
      /\ n = Len(A) + Len(B) /\ n \in Nat /\ DOMAIN entries = 1..n
      /\ \A i \in 1..n : entries[i] = IF i <= Len(A) THEN A[i] ELSE B[i - Len(A)]
  <2>1. entries = A \o B
    BY DEF A, B
  <2> HIDE DEF Entry
  <2> QED
    BY <1>1, <2>1
<1>8. \A i \in 1..n : \/ i \in DOMAIN A /\ entries[i] = A[i]
                      \/ i - Len(A) \in DOMAIN B /\ entries[i] = B[i - Len(A)]
  <2> SUFFICES ASSUME NEW i \in 1..n
               PROVE  \/ i \in DOMAIN A /\ entries[i] = A[i]
                      \/ i - Len(A) \in DOMAIN B /\ entries[i] = B[i - Len(A)]
    OBVIOUS
  <2>1. i <= Len(A) => i \in 1..Len(A)
    BY <1>7
  <2>2. ~(i <= Len(A)) => i - Len(A) \in 1..Len(B)
    BY <1>7
  <2> QED
    BY <1>7, <2>1, <2>2
<1>9. /\ \A i \in DOMAIN A : A[i] \in Entry /\ A[i].n \in Nat
      /\ \A i \in DOMAIN B : B[i] \in Entry /\ B[i].n \in Nat
  <2>1. (\A i \in DOMAIN A : A[i] \in Entry) /\ (\A i \in DOMAIN B : B[i] \in Entry)
    BY <1>1
  <2>2. \A e \in Entry : e.n \in Nat
    BY DEF Entry
  <2> QED
    BY <2>1, <2>2
<1>10. /\ \A i, j \in DOMAIN A : A[i].n = A[j].n => i = j
       /\ \A i, j \in DOMAIN B : B[i].n = B[j].n => i = j
  <2>1. \A i, j \in DOMAIN A : i < j => A[i].n < A[j].n
    BY <1>2 DEF Holds
  <2>2. \A i, j \in DOMAIN B : i < j => B[i].n < B[j].n
    BY <1>2 DEF Holds
  <2>3. \A i \in DOMAIN A : i \in Nat
    BY <1>7
  <2>4. \A i \in DOMAIN B : i \in Nat
    BY <1>7
  <2> QED
    BY <1>9, <2>1, <2>2, <2>3, <2>4
<1>11. InOrder(entries)
  <2> SUFFICES ASSUME NEW i \in 1..n, NEW j \in 1..n
               PROVE  /\ entries[i].n = entries[j].n => i = j
                      /\ entries[i].n < entries[j].n => entries[i].stamp < entries[j].stamp
    BY <1>7 DEF InOrder
  <2>1. CASE i \in DOMAIN A /\ entries[i] = A[i] /\ j \in DOMAIN A /\ entries[j] = A[j]
    BY <1>6, <1>10, <2>1
  <2>2. CASE /\ i \in DOMAIN A /\ entries[i] = A[i]
             /\ j - Len(A) \in DOMAIN B /\ entries[j] = B[j - Len(A)]
    BY <1>3, <1>4, <1>5, <1>6, <2>2
  <2>3. CASE /\ j \in DOMAIN A /\ entries[j] = A[j]
             /\ i - Len(A) \in DOMAIN B /\ entries[i] = B[i - Len(A)]
    BY <1>3, <1>4, <1>5, <1>6, <2>3
  <2>4. CASE /\ i - Len(A) \in DOMAIN B /\ entries[i] = B[i - Len(A)]
             /\ j - Len(A) \in DOMAIN B /\ entries[j] = B[j - Len(A)]
    <3>1. entries[i].n = entries[j].n => i - Len(A) = j - Len(A)
      BY <1>10, <2>4
    <3>2. i - Len(A) = j - Len(A) => i = j
      BY <1>7
    <3> QED
      BY <1>6, <2>4, <3>1, <3>2
  <2> QED
    BY <1>8, <2>1, <2>2, <2>3, <2>4
<1>12. {entries[i].n : i \in 1..n} = {A[i].n : i \in DOMAIN A} \cup {B[i].n : i \in DOMAIN B}
  <2>1. \A i \in DOMAIN A : i \in 1..n /\ entries[i] = A[i]
    <3> SUFFICES ASSUME NEW i \in DOMAIN A
                 PROVE  i \in 1..n /\ entries[i] = A[i]
      OBVIOUS
    <3>1. i \in 1..Len(A)
      BY <1>7
    <3>2. i \in 1..n /\ i <= Len(A)
      BY <1>7, <3>1
    <3> QED
      BY <1>7, <3>2
  <2>2. \A i \in DOMAIN B : Len(A) + i \in 1..n /\ entries[Len(A) + i] = B[i]
    <3> SUFFICES ASSUME NEW i \in DOMAIN B
                 PROVE  Len(A) + i \in 1..n /\ entries[Len(A) + i] = B[i]
      OBVIOUS
    <3>1. i \in 1..Len(B)
      BY <1>7
    <3>2. Len(A) + i \in 1..n /\ ~(Len(A) + i <= Len(A)) /\ (Len(A) + i) - Len(A) = i
      BY <1>7, <3>1
    <3> QED
      BY <1>7, <3>2
  <2>3. \A i \in 1..n : \/ \E j \in DOMAIN A : entries[i].n = A[j].n
                        \/ \E j \in DOMAIN B : entries[i].n = B[j].n
    BY <1>8
  <2>4. \A j \in DOMAIN A : \E i \in 1..n : entries[i].n = A[j].n
    BY <2>1
  <2>5. \A j \in DOMAIN B : \E i \in 1..n : entries[i].n = B[j].n
    BY <2>2
  <2>6. \A x \in {entries[i].n : i \in 1..n} :
            x \in {A[i].n : i \in DOMAIN A} \cup {B[i].n : i \in DOMAIN B}
    <3> SUFFICES ASSUME NEW i \in 1..n
                 PROVE  entries[i].n \in {A[j].n : j \in DOMAIN A}
                                            \cup {B[j].n : j \in DOMAIN B}
      OBVIOUS
    <3>1. CASE \E j \in DOMAIN A : entries[i].n = A[j].n
      BY <3>1
    <3>2. CASE \E j \in DOMAIN B : entries[i].n = B[j].n
      BY <3>2
    <3> QED
      BY <2>3, <3>1, <3>2
  <2>7. \A x \in {A[i].n : i \in DOMAIN A} : x \in {entries[i].n : i \in 1..n}
    <3> SUFFICES ASSUME NEW j \in DOMAIN A PROVE A[j].n \in {entries[i].n : i \in 1..n}
      OBVIOUS
    <3>1. PICK i \in 1..n : entries[i].n = A[j].n
      BY <2>4
    <3> QED
      BY <3>1
  <2>8. \A x \in {B[i].n : i \in DOMAIN B} : x \in {entries[i].n : i \in 1..n}
    <3> SUFFICES ASSUME NEW j \in DOMAIN B PROVE B[j].n \in {entries[i].n : i \in 1..n}
      OBVIOUS
    <3>1. PICK i \in 1..n : entries[i].n = B[j].n
      BY <2>5
    <3> QED
      BY <3>1
  <2> QED
    BY <2>6, <2>7, <2>8
<1>13. {entries[i].n : i \in 1..n} = S \cup Z
  BY <1>2, <1>12 DEF Holds
<1> QED
  BY <1>7, <1>8, <1>9, <1>11, <1>13 DEF S, Z

-----------------------------------------------------------------------------
(* The steps of the HTTP/2 handler.                                        *)

LEMMA LoopIsHTTP2 ==
  ASSUME NEW c \in Conns, Phase(c), pc[c] \in {"h2parse", "h2frames", "h2count", "h2recv"}
  PROVE  Answering(c)
BY DEF Phase, Waiting, Opening, Echoing, Finished

(* A handler that ends has answered what it had answered. *)
LEMMA EndsInPhase ==
  ASSUME NEW c \in Conns, Answering(c), log' = log, pc'[c] = "done",
         pos'[c] = pos[c], out'[c] = out[c]
  PROVE  Phase(c)'
BY DEF Answering, Phase, Finished, IsH1, IsH2

LEMMA AdvancesInPhase ==
  ASSUME IInv, NEW c \in Conns, Answering(c), pos[c] < avail[c], Advance(c), log' = log,
         \A s \in Streams :
            collected'[c][s] = IF Closes(Frame(c), s) THEN <<>> ELSE collected[c][s],
         pc[c] = "h2count" \/ ~Kept(Frame(c)),
         IsH2(c)', AnsweredIn(log[c], pos[c] + 1, out'[c])
  PROVE  Phase(c)'
<1>1. TypeOK /\ pos[c] \in Nat
  BY DEF IInv, TypeOK
<1>2. pos'[c] = pos[c] + 1 /\ pc'[c] \in {"h2frames", "h2recv"}
  BY <1>1, AdvanceStep
<1>3. HoldsAll(collected[c], log[c], Taken(c), pos[c])
  BY DEF Answering
<1>4. /\ Taken(c) \in {pos[c], pos[c] + 1}
      /\ Taken(c) = pos[c] => ~Kept(log[c][pos[c] + 1])
  BY <1>1 DEF Taken, Frame
<1>5. \A s \in Streams : collected'[c][s] =
         IF Closes(log[c][pos[c] + 1], s) THEN <<>> ELSE collected[c][s]
  BY DEF Frame
<1>6. HoldsAll(collected'[c], log[c], pos[c] + 1, pos[c] + 1)
  BY <1>1, <1>3, <1>4, <1>5, GoesPast
<1>7. Taken(c)' = pos'[c]
  BY <1>2 DEF Taken
<1>8. HoldsAll(collected'[c], log'[c], Taken(c)', pos'[c]) /\ AnsweredIn(log'[c], pos'[c], out'[c])
  BY <1>2, <1>6, <1>7
<1> QED
  BY <1>2, <1>8 DEF Phase, Answering

(* Acknowledgements and pongs are no answers. *)
LEMMA ChatsInPhase ==
  ASSUME NEW c \in Conns, Answering(c), OutFaithful(c), NEW k, k # "stream",
         NEW s, NEW b, Sends(c, k, s, b)
  PROVE  OutFaithful(c)' /\ IsH2(c)' /\ AnsweredIn(log[c], pos[c], out'[c])
<1>1. PICK r \in Sent : /\ r.kind = k /\ out'[c] = Append(out[c], r) /\ OutFaithful(c)'
  BY DEF Sends
<1>2. out[c] \in Seq(Sent) /\ out[c] # <<>> /\ out[c][1].kind = "settings"
        /\ AnsweredIn(log[c], pos[c], out[c])
  BY DEF OutFaithful, Answering, IsH2
<1>3. Append(out[c], r)[1] = out[c][1] /\ Append(out[c], r) # <<>>
  BY <1>2, SentBefore
<1>4. AnsweredIn(log[c], pos[c], Append(out[c], r))
  BY <1>1, <1>2, AnswersAsBefore
<1> QED
  BY <1>1, <1>2, <1>3, <1>4 DEF IsH2

LEMMA H2SettingsPhase ==
  ASSUME IInv, NEW c \in Conns, Phase(c), OutFaithful(c), H2Settings(c)
  PROVE  Phase(c)' /\ OutFaithful(c)'
<1>1. TypeOK /\ pc'[c] = "h2parse" /\ log' = log /\ pos' = pos /\ collected' = collected
        /\ 0 \in Streams /\ <<>> \in Seq(Nat)
  BY EchoAssumption DEF H2Settings, IInv, TypeOK
<1>2. Opening(c)
  BY DEF H2Settings, Phase, Waiting, Echoing, Answering, Finished
<1>3. PICK ok \in BOOLEAN : Emit(c, "settings", ok, 0, <<>>)
  BY DEF H2Settings
<1>4. FaithfulTo(log[c], [kind |-> "settings", ok |-> ok, at |-> pos[c] + 1, sid |-> 0,
                          body |-> <<>>])
  BY DEF FaithfulTo
<1>5. Sends(c, "settings", 0, <<>>)
  BY <1>1, <1>3, <1>4, EmitStep
<1>6. PICK r \in Sent : r.kind = "settings" /\ out'[c] = Append(out[c], r) /\ OutFaithful(c)'
  BY <1>5 DEF Sends
<1>7. out[c] = <<>> /\ out[c] \in Seq(Sent) /\ pos[c] = 1 /\ log[c][1].typ = "PREFACE"
        /\ \A s \in Streams : collected[c][s] = <<>>
  BY <1>2 DEF Opening, OutFaithful
<1>8. Append(out[c], r)[1] = r /\ Append(out[c], r) # <<>>
  BY <1>7, SentBefore
<1>9. AnsweredIn(log[c], pos[c], out[c])
  <2>1. Answers(out[c]) = {}
    BY <1>7 DEF Answers
  <2>2. \A m \in 1..pos[c] : ~Ending(log[c][m])
    BY <1>7 DEF Ending
  <2>3. {out[c][i].at : i \in Answers(out[c])} = {} /\ {m \in 1..pos[c] : Ending(log[c][m])} = {}
    BY <2>1, <2>2
  <2> QED
    BY <2>1, <2>3 DEF AnsweredIn
<1>10. AnsweredIn(log[c], pos[c], Append(out[c], r))
  BY <1>6, <1>7, <1>9, AnswersAsBefore
<1>11. HoldsAll(collected[c], log[c], 1, 1)
  <2>1. ~Kept(log[c][1])
    BY <1>7 DEF Kept
  <2>2. \A s \in Streams : Since(log[c], s, 1, 1) = {}
    BY <2>1 DEF Since
  <2> QED
    BY <1>7, <2>2 DEF HoldsAll, Holds
<1>12. IsH2(c)'
  BY <1>6, <1>8 DEF IsH2
<1>13. Taken(c)' = 1
  BY <1>1, <1>7 DEF Taken
<1>14. /\ HoldsAll(collected'[c], log'[c], Taken(c)', pos'[c])
       /\ AnsweredIn(log'[c], pos'[c], out'[c])
  BY <1>1, <1>6, <1>7, <1>10, <1>11, <1>13
<1>15. Answering(c)'
  BY <1>1, <1>12, <1>14 DEF Answering
<1> QED
  BY <1>6, <1>15 DEF Phase

LEMMA ParsingPhases ==
  ASSUME IInv, NEW c \in Conns, Phase(c), OutFaithful(c),
         ParseGenericFrames(c) \/ ParseTornFrame(c) \/ H2Recv(c)
  PROVE  Phase(c)' /\ OutFaithful(c)'
<1>1. Answering(c)
  BY LoopIsHTTP2 DEF ParseGenericFrames, ParseTornFrame, H2Recv
<1>2. log' = log /\ out' = out /\ collected' = collected /\ pos' = pos
  BY DEF ParseGenericFrames, ParseTornFrame, H2Recv
<1>3. /\ pc[c] \in {"h2parse", "h2recv"}
      /\ pc'[c] \in {"h2frames", "h2recv", "h2parse", "done"}
  BY DEF ParseGenericFrames, ParseTornFrame, H2Recv, IInv, TypeOK
<1>4. OutFaithful(c)'
  BY <1>2 DEF OutFaithful
<1>5. CASE pc'[c] = "done"
  BY <1>1, <1>2, <1>4, <1>5, EndsInPhase
<1>6. CASE pc'[c] # "done"
  <2>1. Taken(c) = pos[c] /\ Taken(c)' = pos[c]
    BY <1>2, <1>3 DEF Taken
  <2>2. Answering(c)'
    BY <1>1, <1>2, <1>3, <1>6, <2>1 DEF Answering, IsH2
  <2> QED
    BY <1>4, <2>2 DEF Phase
<1> QED
  BY <1>5, <1>6

LEMMA CollectPhase ==
  ASSUME IInv, NEW c \in Conns, Phase(c), OutFaithful(c), Collect(c)
  PROVE  Phase(c)' /\ OutFaithful(c)'
<1> DEFINE e == [stamp |-> frame_counter, n |-> pos[c] + 1]
           f == Frame(c)
<1>1. /\ pc[c] = "h2frames" /\ pos[c] < avail[c] /\ f.sid \in Streams
      /\ e \in Entry /\ e.n = pos[c] + 1 /\ pos[c] \in Nat
      /\ collected[c] \in [Streams -> Seq(Entry)]
      /\ f = log[c][pos[c] + 1]
  BY LogsAreSequences DEF Collect, AtFrame, IInv, TypeOK, Entry, Frame
<1>2. Answering(c)
  BY <1>1, LoopIsHTTP2
<1>3. Kept(f)
  BY DEF Collect, AtFrame, Kept
<1>4. log' = log /\ out' = out /\ pos' = pos /\ pc'[c] = "h2count"
  BY DEF Collect, IInv, TypeOK
<1>5. \A s \in Streams : collected'[c][s] = IF s = f.sid THEN Append(collected[c][s], e)
                                            ELSE collected[c][s]
  BY <1>1 DEF Collect, IInv, TypeOK
<1>6. HoldsAll(collected[c], log[c], pos[c], pos[c])
  BY <1>1, <1>2 DEF Answering, Taken
<1> HIDE DEF e, f
<1>7. HoldsAll(collected'[c], log[c], pos[c] + 1, pos[c])
  BY <1>1, <1>3, <1>5, <1>6, CollectsFrame
<1>8. Taken(c)' = pos[c] + 1 /\ Kept(Frame(c))'
  BY <1>3, <1>4 DEF Taken, Frame, f
<1>9. Answering(c)'
  BY <1>2, <1>4, <1>7, <1>8 DEF Answering, IsH2
<1> QED
  BY <1>4, <1>9 DEF Phase, OutFaithful

LEMMA UncollectedPhases ==
  ASSUME IInv, NEW c \in Conns, Phase(c), OutFaithful(c),
         IgnoreFrame(c) \/ RstStream(c) \/ Ping(c) \/ GoAway(c)
  PROVE  Phase(c)' /\ OutFaithful(c)'
<1> DEFINE f == Frame(c)
<1>1. /\ pc[c] = "h2frames" /\ pos[c] < avail[c] /\ f.sid \in Streams /\ TypeOK
      /\ pos[c] \in Nat /\ log' = log /\ 0 \in Streams /\ <<>> \in Seq(Nat)
      /\ f = log[c][pos[c] + 1]
  <2>1. pc[c] = "h2frames" /\ pos[c] < avail[c] /\ log' = log
    BY DEF IgnoreFrame, RstStream, Ping, GoAway, AtFrame
  <2>2. f.sid \in Streams /\ TypeOK /\ pos[c] \in Nat
    BY <2>1, LogsAreSequences DEF IInv, TypeOK
  <2> QED
    BY <2>1, <2>2, EchoAssumption DEF Frame
<1>2. Answering(c) /\ IsH2(c) /\ AnsweredIn(log[c], pos[c], out[c])
  BY <1>1, LoopIsHTTP2 DEF Answering
<1>3. ~Kept(f) /\ ~Ending(f)
  BY DEF IgnoreFrame, RstStream, Ping, GoAway, AtFrame, Kept, Ending
<1>4. CASE Die(c)
  <2>1. pc'[c] = "done" /\ pos'[c] = pos[c] /\ out' = out
    BY <1>1, <1>4, DieStep
  <2> QED
    BY <1>1, <1>2, <2>1, EndsInPhase DEF OutFaithful
<1>5. CASE /\ Advance(c)
           /\ \A s \in Streams :
                 collected'[c][s] = IF Closes(f, s) THEN <<>> ELSE collected[c][s]
           /\ IsH2(c)' /\ AnsweredIn(log[c], pos[c], out'[c]) /\ OutFaithful(c)'
  <2>1. AnsweredIn(log[c], pos[c] + 1, out'[c])
    BY <1>1, <1>3, <1>5, NoAnswerDue
  <2> QED
    BY <1>1, <1>2, <1>3, <1>5, <2>1, AdvancesInPhase
<1>6. ASSUME IgnoreFrame(c) \/ Ping(c)
      PROVE  \A s \in Streams : ~Closes(f, s)
  BY <1>6 DEF IgnoreFrame, Ping, AtFrame, Closes, Ending
<1>7. CASE IgnoreFrame(c)
  <2>1. Advance(c) /\ out' = out /\ collected' = collected
    BY <1>7 DEF IgnoreFrame
  <2> QED
    BY <1>1, <1>2, <1>5, <1>6, <1>7, <2>1 DEF IsH2, OutFaithful
<1>8. CASE RstStream(c)
  <2>1. CASE CloseStream(c, f.sid) /\ Advance(c) /\ UNCHANGED out
    <3>1. \A s \in Streams : Closes(f, s) <=> s = f.sid
      BY <1>8 DEF RstStream, AtFrame, Closes
    <3>2. \A s \in Streams :
              collected'[c][s] = IF Closes(f, s) THEN <<>> ELSE collected[c][s]
      BY <1>1, <2>1, <3>1, CloseStreamStep
    <3> QED
      BY <1>1, <1>2, <1>5, <2>1, <3>2 DEF IsH2, OutFaithful
  <2> QED
    BY <1>4, <1>8, <2>1 DEF RstStream
<1>9. CASE Ping(c)
  <2>1. CASE /\ Emit(c, "pong", TRUE, 0, <<>>) /\ Advance(c)
             /\ UNCHANGED <<collected, streams_ending>>
    <3>1. FaithfulTo(log[c], [kind |-> "pong", ok |-> TRUE, at |-> pos[c] + 1, sid |-> 0,
                              body |-> <<>>])
      BY DEF FaithfulTo
    <3>2. Sends(c, "pong", 0, <<>>)
      BY <1>1, <2>1, <3>1, EmitStep
    <3>3. OutFaithful(c)' /\ IsH2(c)' /\ AnsweredIn(log[c], pos[c], out'[c])
      BY <1>2, <3>2, ChatsInPhase
    <3> QED
      BY <1>5, <1>6, <1>9, <2>1, <3>3
  <2> QED
    BY <1>4, <1>9, <2>1 DEF Ping
<1> QED
  BY <1>4, <1>7, <1>8, <1>9 DEF GoAway

(* The answer: the frames of the stream and of stream 0, in order.         *)
LEMMA AnswerIsFaithful ==
  ASSUME IInv, NEW c \in Conns, Answering(c), pc[c] = "h2count", NEW s \in Streams \ {0},
         NEW body, body = [i \in DOMAIN RelevantFrames(c, s) |-> RelevantFrames(c, s)[i].n]
  PROVE  /\ body \in Seq(Nat)
         /\ \A ok : FaithfulTo(log[c], [kind |-> "stream", ok |-> ok, at |-> pos[c] + 1,
                                        sid |-> s, body |-> body])
<1> DEFINE entries == collected[c][s] \o collected[c][0]
           n == Len(entries)
           place(k) == PlaceOf(entries, n, k)
           sorted == [k \in 1..n |-> entries[place(k)].n]
<1>1. /\ n \in Nat /\ DOMAIN entries = 1..n
      /\ \A i \in 1..n : entries[i] \in Entry
      /\ InOrder(entries)
      /\ {entries[i].n : i \in 1..n} =
            Since(log[c], s, Taken(c), pos[c]) \cup Since(log[c], 0, Taken(c), pos[c])
  <2> HIDE DEF entries, n
  <2> QED
    BY RelevantInOrder DEF entries, n
<1>2. body = sorted
  <2>1. RelevantFrames(c, s) =
          [k \in 1..n |-> entries[CHOOSE i \in 1..n : Rank(entries, i) = k]]
    BY <1>1 DEF RelevantFrames
  <2> HIDE DEF entries, n
  <2> QED
    BY <2>1 DEF sorted, PlaceOf
<1>3. Range(sorted) = {entries[i].n : i \in 1..n} /\ Increasing(sorted)
  <2>1. sorted = [k \in 1..n |-> entries[PlaceOf(entries, n, k)].n]
    OBVIOUS
  <2> HIDE DEF entries, n, sorted
  <2> QED
    BY <1>1, <2>1, SortRestores
<1>4. body \in Seq(Nat)
  <2>1. Range(sorted) \subseteq Nat
    <3>1. \A i \in 1..n : entries[i].n \in Nat
      BY <1>1 DEF Entry
    <3> HIDE DEF entries, n, sorted
    <3> QED
      BY <1>3, <3>1
  <2>2. \A k \in 1..n : sorted[k] \in Nat
    <3>1. \A k \in 1..n : sorted[k] \in Range(sorted)
      <4> HIDE DEF entries, n
      <4> QED
        BY DEF Range
    <3> QED
      BY <2>1, <3>1
  <2>3. sorted = [k \in 1..n |-> sorted[k]]
    <3> HIDE DEF entries, n, place
    <3> QED
      BY DEF sorted
  <2> HIDE DEF entries, n, sorted
  <2> QED
    BY <1>1, <1>2, <2>2, <2>3
<1>5. Taken(c) = pos[c] + 1 /\ pos[c] \in Nat
  BY DEF Taken, IInv, TypeOK
<1>6. ASSUME NEW ok
      PROVE  FaithfulTo(log[c], [kind |-> "stream", ok |-> ok, at |-> pos[c] + 1,
                                 sid |-> s, body |-> body])
  <2> DEFINE r == [kind |-> "stream", ok |-> ok, at |-> pos[c] + 1, sid |-> s, body |-> body]
  <2>1. r.body = body /\ r.sid = s /\ r.at = pos[c] + 1 /\ r.at - 1 = pos[c]
    BY <1>5
  <2> HIDE DEF entries, n, sorted, r
  <2>2. FaithfulTo(log[c], r)
    BY <1>1, <1>2, <1>3, <1>5, <2>1 DEF FaithfulTo
  <2> QED
    BY <2>2 DEF r
<1> QED
  BY <1>4, <1>6

LEMMA CountAndReactPhase ==
  ASSUME IInv, NEW c \in Conns, Phase(c), OutFaithful(c), CountAndReact(c)
  PROVE  Phase(c)' /\ OutFaithful(c)'
<1> DEFINE f == Frame(c)
<1>1. /\ pc[c] = "h2count" /\ pos[c] < avail[c] /\ f.sid \in Streams /\ TypeOK
      /\ pos[c] \in Nat /\ log' = log /\ 0 \in Streams
      /\ f = log[c][pos[c] + 1]
  <2>1. pc[c] = "h2count" /\ pos[c] < avail[c] /\ log' = log
    BY DEF CountAndReact, IInv, FrameInHand
  <2>2. f.sid \in Streams /\ TypeOK /\ pos[c] \in Nat
    BY <2>1, LogsAreSequences DEF IInv, TypeOK
  <2> QED
    BY <2>1, <2>2, EchoAssumption DEF Frame
<1>2. Answering(c) /\ IsH2(c) /\ AnsweredIn(log[c], pos[c], out[c]) /\ Kept(f)
  BY <1>1, LoopIsHTTP2 DEF Answering
<1>3. CASE Die(c)
  <2>1. pc'[c] = "done" /\ pos'[c] = pos[c] /\ out' = out
    BY <1>1, <1>3, DieStep
  <2> QED
    BY <1>1, <1>2, <2>1, EndsInPhase DEF OutFaithful
<1>4. CASE /\ ~Ending(f) /\ Advance(c) /\ UNCHANGED collected
           /\ IsH2(c)' /\ AnsweredIn(log[c], pos[c], out'[c]) /\ OutFaithful(c)'
  <2>1. AnsweredIn(log[c], pos[c] + 1, out'[c])
    BY <1>1, <1>4, NoAnswerDue
  <2>2. \A s \in Streams : ~Closes(f, s)
    BY <1>2, <1>4 DEF Closes, Kept
  <2>3. \A s \in Streams : collected'[c][s] = IF Closes(f, s) THEN <<>> ELSE collected[c][s]
    BY <1>4, <2>2
  <2> QED
    BY <1>1, <1>2, <1>4, <2>1, <2>3, AdvancesInPhase
<1>5. CASE Ending(f) /\ RespondAndCloseStream(c, f.sid)
  <2> DEFINE s == f.sid
             frames == RelevantFrames(c, s)
             body == [i \in DOMAIN frames |-> frames[i].n]
  <2>1. CASE /\ s # 0 /\ \E ok \in BOOLEAN : Emit(c, "stream", ok, s, body)
             /\ CloseStream(c, s) /\ Advance(c)
    <3>1. PICK ok \in BOOLEAN : Emit(c, "stream", ok, s, body)
      BY <2>1
    <3>2. s \in Streams \ {0}
      BY <1>1, <2>1
    <3>3. /\ body \in Seq(Nat)
          /\ FaithfulTo(log[c], [kind |-> "stream", ok |-> ok, at |-> pos[c] + 1,
                                 sid |-> s, body |-> body])
      <4> HIDE DEF f
      <4> QED
        BY <1>1, <1>2, <3>2, AnswerIsFaithful
    <3>4. Sends(c, "stream", s, body)
      <4> HIDE DEF body, f
      <4> QED
        BY <1>1, <3>1, <3>2, <3>3, EmitStep
    <3> HIDE DEF body
    <3>5. PICK r \in Sent : /\ r.kind = "stream" /\ r.at = pos[c] + 1
                            /\ out'[c] = Append(out[c], r) /\ OutFaithful(c)'
      BY <3>4 DEF Sends
    <3>6. out[c] \in Seq(Sent) /\ out[c] # <<>> /\ out[c][1].kind = "settings"
      BY <1>2 DEF IsH2, OutFaithful
    <3>7. Append(out[c], r)[1] = out[c][1] /\ Append(out[c], r) # <<>>
      BY <3>6, SentBefore
    <3>8. AnsweredIn(log[c], pos[c] + 1, Append(out[c], r))
      BY <1>1, <1>2, <1>5, <3>5, <3>6, AnswersMore
    <3>9. IsH2(c)'
      BY <3>5, <3>6, <3>7 DEF IsH2
    <3>10. \A t \in Streams : Closes(f, t) <=> t = s
      BY <1>5 DEF Closes
    <3>11. \A t \in Streams :
              collected'[c][t] = IF Closes(f, t) THEN <<>> ELSE collected[c][t]
      BY <1>1, <2>1, <3>10, CloseStreamStep
    <3> QED
      BY <1>1, <1>2, <2>1, <3>5, <3>8, <3>9, <3>11, AdvancesInPhase
  <2> QED
    BY <1>3, <1>5, <2>1 DEF RespondAndCloseStream
<1>6. CASE Advance(c) /\ UNCHANGED <<collected, out>> /\ ~Ending(f)
  BY <1>2, <1>4, <1>1, <1>6 DEF IsH2, OutFaithful
<1>7. CASE /\ ~Ending(f) /\ Emit(c, "ack", TRUE, 0, <<>>) /\ Advance(c)
           /\ UNCHANGED <<collected, streams_ending>>
  <2>1. FaithfulTo(log[c], [kind |-> "ack", ok |-> TRUE, at |-> pos[c] + 1, sid |-> 0,
                            body |-> <<>>])
    BY DEF FaithfulTo
  <2>2. <<>> \in Seq(Nat)
    OBVIOUS
  <2>3. Sends(c, "ack", 0, <<>>)
    BY <1>1, <1>7, <2>1, <2>2, EmitStep
  <2>4. OutFaithful(c)' /\ IsH2(c)' /\ AnsweredIn(log[c], pos[c], out'[c])
    BY <1>2, <2>3, ChatsInPhase
  <2> QED
    BY <1>4, <1>7, <2>4
<1>8. \/ Ending(f) /\ RespondAndCloseStream(c, f.sid)
      \/ ~Ending(f) /\ Advance(c) /\ UNCHANGED <<collected, out>>
      \/ /\ ~Ending(f) /\ Emit(c, "ack", TRUE, 0, <<>>) /\ Advance(c)
         /\ UNCHANGED <<collected, streams_ending>>
      \/ Die(c)
  BY DEF CountAndReact, Ending
<1> QED
  BY <1>3, <1>5, <1>6, <1>7, <1>8

-----------------------------------------------------------------------------
(* Together.                                                               *)

LEMMA InitAnswers == Init => AnswersInv
<1> SUFFICES ASSUME Init PROVE AnswersInv
  OBVIOUS
<1>1. <<>> \in Seq(Sent)
  OBVIOUS
<1>2. ASSUME NEW c \in Conns
      PROVE  Phase(c) /\ OutFaithful(c)
  <2>1. /\ out[c] = <<>> /\ pc[c] \in {"backlog", "done"}
        /\ \A s \in Streams : collected[c][s] = <<>>
    BY DEF Init
  <2> QED
    BY <1>1, <2>1 DEF Phase, Waiting, Finished, IsH1, IsH2, OutFaithful
<1> QED
  BY <1>2, InitInv DEF AnswersInv

LEMMA NextAnswers == AnswersInv /\ [Next]_vars => AnswersInv'
<1> SUFFICES ASSUME AnswersInv, [Next]_vars PROVE AnswersInv'
  OBVIOUS
<1>1. IInv /\ IInv' /\ TypeOK /\ \A d \in Conns : Phase(d) /\ OutFaithful(d)
  BY NextInv DEF AnswersInv, IInv
<1>2. CASE UNCHANGED vars
  <2>1. \A d \in Conns : Phase(d)' /\ OutFaithful(d)'
    BY <1>1, <1>2, StaysInPhase DEF vars
  <2> QED
    BY <1>1, <2>1 DEF AnswersInv
<1>3. ASSUME NEW c \in Conns, Accept(c) \/ AcceptFails(c) \/ RecvFails(c) \/ Thread(c)
      PROVE  AnswersInv'
  <2>1. Phase(c)' /\ OutFaithful(c)'
    BY <1>1, <1>3, OpeningPhases, H1SendPhase, H2SettingsPhase, ParsingPhases, CollectPhase,
       CountAndReactPhase, UncollectedPhases DEF Thread
  <2>2. \A d \in Conns \ {c} : Phase(d)' /\ OutFaithful(d)'
    BY <1>1, <1>3, OthersUntouched, StaysInPhase
  <2>3. \A d \in Conns : Phase(d)' /\ OutFaithful(d)'
    BY <2>1, <2>2
  <2> QED
    BY <1>1, <2>3 DEF AnswersInv
<1> QED
  BY <1>2, <1>3 DEF Next

(* Where each connection is, what it was sent and what it is owed.         *)
THEOREM AnswersInvariance == Spec => []AnswersInv
  BY InitAnswers, NextAnswers, PTL DEF Spec

(* respond_and_close_stream echoes exactly what the peer sent on the       *)
(* stream and on stream 0 since each was closed, in the order sent.        *)
THEOREM AnswersAreFaithful == Spec => []EchoFaithful
<1>1. AnswersInv => EchoFaithful
  <2> SUFFICES ASSUME AnswersInv, NEW c \in Conns, NEW i \in DOMAIN out[c],
                      out[c][i].kind = "stream"
               PROVE  /\ Range(out[c][i].body) = Owed(c, out[c][i].sid, out[c][i].at)
                      /\ Increasing(out[c][i].body)
    BY DEF EchoFaithful, Increasing
  <2> DEFINE r == out[c][i]
  <2>1. /\ Range(r.body) = Since(log[c], r.sid, r.at, r.at - 1)
                             \cup Since(log[c], 0, r.at, r.at - 1)
        /\ Increasing(r.body)
    BY DEF AnswersInv, OutFaithful, FaithfulTo
  <2> HIDE DEF r
  <2>2. Since(log[c], r.sid, r.at, r.at - 1) \cup Since(log[c], 0, r.at, r.at - 1)
          = Owed(c, r.sid, r.at)
    BY DEF Since, Owed
  <2> QED
    BY <2>1, <2>2 DEF r
<1> QED
  BY <1>1, AnswersInvariance, PTL

(* Every consumed frame that ends a stream is answered, once, in order.    *)
THEOREM EndingFramesAnswered == Spec => []EndsAnswered
<1>1. AnswersInv => EndsAnswered
  <2> SUFFICES ASSUME AnswersInv, NEW c \in Conns, IsH2(c)
               PROVE  AnsweredIn(log[c], pos[c], out[c])
    BY DEF EndsAnswered, AnsweredIn, Answers
  <2>1. Answering(c) \/ Finished(c)
    BY EchoesAreH1 DEF AnswersInv, Phase, Waiting, Opening, Echoing, IsH2, OutFaithful
  <2> QED
    BY <2>1 DEF Answering, Finished
<1> QED
  BY <1>1, AnswersInvariance, PTL

(* The HTTP/1 echoes, one after the other, are what the peer sent.         *)
THEOREM H1EchoesEverything == Spec => []H1EchoesAll
<1>1. AnswersInv => H1EchoesAll
  <2> SUFFICES ASSUME AnswersInv, NEW c \in Conns, IsH1(c)
               PROVE  EchoedIn(out[c], pos[c])
    BY DEF H1EchoesAll, EchoedIn, Bodies
  <2>1. Echoing(c) \/ Finished(c)
    BY DEF AnswersInv, Phase, Waiting, Opening, Answering, IsH1, IsH2
  <2> QED
    BY <2>1 DEF Echoing, Finished
<1> QED
  BY <1>1, AnswersInvariance, PTL
=============================================================================
