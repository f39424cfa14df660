----------------------------- MODULE EchoServer -----------------------------
(***************************************************************************)
(* tools/echo_server.py: the TCP server that every transducer of the       *)
(* Garden forwards to.  The main thread accepts; one thread per connection *)
(* echoes what it receives, as HTTP/1 responses or as HTTP/2 DATA frames.  *)
(* The threads share the global frame_counter, which stamps the collected  *)
(* frames so that a response can be sorted into arrival order.             *)
(*                                                                         *)
(* What a peer sends over the life of a connection is its log, a sequence  *)
(* of units: the HTTP/2 preface, or a frame, or (for an HTTP/1 handler,    *)
(* which never looks inside) any run of bytes.  avail[c] units have been   *)
(* returned by recvall, which takes any number of further ones, for they   *)
(* arrive when they arrive; pos[c] of them were consumed by the handler.   *)
(* So the bytes in hand are the units pos[c]+1 .. avail[c].                *)
(***************************************************************************)
EXTENDS Naturals, SequencesExt

CONSTANTS
    Conns,          \* the connections (and the thread that serves each)
    Streams,        \* HTTP/2 stream identifiers, 0 among them
    Logs,           \* what peers may send: a log for each connection made
    PayloadLimit,   \* frames that fit one DATA payload (2^24 - 1 bytes)
    UseTLS          \* --cert and --key were given

UnitTypes == {"PREFACE", "DATA", "HEADERS", "PRIORITY", "RST_STREAM",
              "SETTINGS", "PING", "GOAWAY", "CONTINUATION"}

(* es is the flag end_stream_or_ack, eh is end_headers, and full says that *)
(* the payload is at least the 8 bytes a PING must carry.  PRIORITY stands *)
(* for WINDOW_UPDATE too and CONTINUATION for PUSH_PROMISE and the         *)
(* unrecognized types, which the match statement treats alike.             *)
Unit == [typ : UnitTypes, sid : Streams, es : BOOLEAN, eh : BOOLEAN,
         full : BOOLEAN]

ASSUME EchoAssumption ==
    /\ Streams \subseteq Nat /\ 0 \in Streams
    /\ \A l \in Logs : /\ DOMAIN l \subseteq Conns
                       /\ \A c \in DOMAIN l : l[c] \in Seq(Unit)
    /\ PayloadLimit \in Nat
    /\ UseTLS \in BOOLEAN

VARIABLES
    listening,      \* the main thread is still in its accept loop
    pc,             \* where each connection's thread is
    log,            \* everything the peer sends, never changed
    avail,          \* how much of it recvall has returned
    pos,            \* how much of that the handler has consumed
    collected,      \* collected_frames: <<>> for a stream with no key
    streams_ending,
    frame_counter,  \* the global, shared by all threads
    out             \* everything the handler has sent or failed to send

vars == <<listening, pc, log, avail, pos, collected, streams_ending,
          frame_counter, out>>

PCs == {"backlog", "preamble", "h1send", "h1recv", "h2settings",
        "h2parse", "h2frames", "h2count", "h2recv", "done"}

(* An entry of collected_frames[sid]: the stamp and the frame, which is    *)
(* log[c][n].                                                              *)
Entry == [stamp : Nat, n : Nat]

Init ==
    /\ listening = TRUE
    /\ \E l \in Logs :      \* a connection nobody makes is as good as done
        /\ pc = [c \in Conns |-> IF c \in DOMAIN l THEN "backlog" ELSE "done"]
        /\ log = [c \in Conns |-> IF c \in DOMAIN l THEN l[c] ELSE <<>>]
    /\ avail = [c \in Conns |-> 0]
    /\ pos = [c \in Conns |-> 0]
    /\ collected = [c \in Conns |-> [s \in Streams |-> <<>>]]
    /\ streams_ending = [c \in Conns |-> {}]
    /\ frame_counter = 0
    /\ out = [c \in Conns |-> <<>>]

-----------------------------------------------------------------------------
(* main: accept, and start a thread.  The listening socket is wrapped by   *)
(* the TLS context, so the handshake runs inside accept, on the main       *)
(* thread, and its failure ends the loop.                                  *)

Accept(c) ==
    /\ listening /\ pc[c] = "backlog"
    /\ pc' = [pc EXCEPT ![c] = "preamble"]
    /\ UNCHANGED <<listening, log, avail, pos, collected,
                   streams_ending, frame_counter, out>>

AcceptFails(c) ==
    /\ UseTLS /\ listening /\ pc[c] = "backlog"
    /\ listening' = FALSE
    /\ pc' = [pc EXCEPT ![c] = "done"]
    /\ UNCHANGED <<log, avail, pos, collected, streams_ending,
                   frame_counter, out>>

(* handle_connection: what arrives before the first SOCKET_TIMEOUT decides *)
(* between HTTP/2 and HTTP/1; nothing at all is an HTTP/1 payload too.     *)
RecvPreamble(c) ==
    /\ pc[c] = "preamble"
    /\ \E k \in 0..Len(log[c]) :
        LET isH2 == k > 0 /\ log[c][1].typ = "PREFACE"
        IN  /\ avail' = [avail EXCEPT ![c] = k]
            /\ pos' = [pos EXCEPT ![c] = IF isH2 THEN 1 ELSE 0]
            /\ pc' = [pc EXCEPT ![c] = IF isH2 THEN "h2settings" ELSE "h1send"]
    /\ UNCHANGED <<listening, log, collected, streams_ending,
                   frame_counter, out>>

(* The peer resets the connection, at any time: recv raises in the middle  *)
(* of recvall, which drops what that call had read.  The HTTP/1 loop then  *)
(* breaks and closes; elsewhere the exception ends the thread.             *)
RecvFails(c) ==
    /\ pc[c] \in {"preamble", "h1recv", "h2recv"}
    /\ pc' = [pc EXCEPT ![c] = "done"]
    /\ UNCHANGED <<listening, log, avail, pos, collected,
                   streams_ending, frame_counter, out>>

-----------------------------------------------------------------------------
(* handle_h1_connection *)

(* Wrong: the buffer is not emptied between two payloads. *)
AllEverReceived(c) == [i \in 1..avail[c] |-> i]

InHand(c) == [i \in 1..(avail[c] - pos[c]) |-> pos[c] + i]

Emit(c, kind, ok, s, body) ==
    out' = [out EXCEPT ![c] = Append(@, [kind |-> kind, ok |-> ok,
                          at |-> pos[c] + 1, sid |-> s, body |-> body])]

H1Send(c) ==
    /\ pc[c] = "h1send"
    /\ \E ok \in BOOLEAN :
        /\ Emit(c, "echo", ok, 0, InHand(c))
        /\ pc' = [pc EXCEPT ![c] = IF ok THEN "h1recv" ELSE "done"]
    /\ pos' = [pos EXCEPT ![c] = avail[c]]
    /\ UNCHANGED <<listening, log, avail, collected, streams_ending,
                   frame_counter>>

(* Wrong: the wait for an idle peer is taken up again. *)
H1RecvForever(c) ==
    /\ pc[c] = "h1recv"
    /\ \E k \in pos[c]..Len(log[c]) :
        /\ avail' = [avail EXCEPT ![c] = k]
        /\ pc' = [pc EXCEPT ![c] = IF k = pos[c] THEN "h1recv" ELSE "h1send"]
    /\ UNCHANGED <<listening, log, pos, collected, streams_ending,
                   frame_counter, out>>

H1Recv(c) ==
    /\ pc[c] = "h1recv"
    /\ \E k \in pos[c]..Len(log[c]) :
        /\ avail' = [avail EXCEPT ![c] = k]
        /\ pc' = [pc EXCEPT ![c] = IF k = pos[c] THEN "done" ELSE "h1send"]
    /\ UNCHANGED <<listening, log, pos, collected, streams_ending,
                   frame_counter, out>>

-----------------------------------------------------------------------------
(* handle_h2_connection *)

H2Settings(c) ==
    /\ pc[c] = "h2settings"
    /\ \E ok \in BOOLEAN : Emit(c, "settings", ok, 0, <<>>)
    /\ pc' = [pc EXCEPT ![c] = "h2parse"]
    /\ UNCHANGED <<listening, log, avail, pos, collected,
                   streams_ending, frame_counter>>

AfterFrame(c) == IF pos[c] + 1 < avail[c] THEN "h2frames" ELSE "h2recv"

(* A preface where a frame is expected announces 0x505249 bytes.           *)
Unparseable(c) == \E i \in pos[c]+1..avail[c] : log[c][i].typ = "PREFACE"

(* Wrong: a last frame waits for bytes of another. *)
ParseNeedsMore(c) ==
    /\ pc[c] = "h2parse" /\ ~Unparseable(c)
    /\ pc' = [pc EXCEPT ![c] = IF pos[c] + 1 < avail[c] THEN "h2frames" ELSE "h2recv"]
    /\ UNCHANGED <<listening, log, avail, pos, collected,
                   streams_ending, frame_counter, out>>

ParseGenericFrames(c) ==
    /\ pc[c] = "h2parse" /\ ~Unparseable(c)
    /\ pc' = [pc EXCEPT ![c] = IF pos[c] < avail[c] THEN "h2frames" ELSE "h2recv"]
    /\ UNCHANGED <<listening, log, avail, pos, collected,
                   streams_ending, frame_counter, out>>

(* recvall's timeout fell inside the next unit: parse_generic_frames       *)
(* raises H2Error, and with it go the complete frames it was given.        *)
ParseTornFrame(c) ==
    /\ pc[c] = "h2parse" /\ (avail[c] < Len(log[c]) \/ Unparseable(c))
    /\ pc' = [pc EXCEPT ![c] = "done"]
    /\ UNCHANGED <<listening, log, avail, pos, collected,
                   streams_ending, frame_counter, out>>

(* After a FIN recvall returns b"" at once, and the loop goes round again. *)
H2Recv(c) ==
    /\ pc[c] = "h2recv"
    /\ \E k \in pos[c]..Len(log[c]) : avail' = [avail EXCEPT ![c] = k]
    /\ pc' = [pc EXCEPT ![c] = "h2parse"]
    /\ UNCHANGED <<listening, log, pos, collected, streams_ending,
                   frame_counter, out>>

Frame(c) == log[c][pos[c] + 1]

AtFrame(c, types) ==
    pc[c] = "h2frames" /\ pos[c] < avail[c] /\ Frame(c).typ \in types

Advance(c) ==
    /\ pos' = [pos EXCEPT ![c] = @ + 1]
    /\ pc' = [pc EXCEPT ![c] = AfterFrame(c)]

(* An exception that nothing catches: the thread ends. *)
Die(c) ==
    /\ pc' = [pc EXCEPT ![c] = "done"]
    /\ UNCHANGED <<pos, collected, streams_ending, out>>

(* Wrong: the stream stays among those that are ending. *)
CloseStreamHalf(c, s) ==
    /\ collected' = [collected EXCEPT ![c][s] = <<>>]
    /\ UNCHANGED streams_ending

(* close_stream: del raises KeyError for a stream that holds no frame. *)
CloseStream(c, s) ==
    /\ collected' = [collected EXCEPT ![c][s] = <<>>]
    /\ streams_ending' = [streams_ending EXCEPT ![c] = @ \ {s}]

(* collect_frame stamps the frame with the global it reads ...             *)
Collect(c) ==
    /\ AtFrame(c, {"DATA", "HEADERS", "SETTINGS", "CONTINUATION"})
    /\ collected' = [collected EXCEPT ![c][Frame(c).sid] =
                        Append(@, [stamp |-> frame_counter, n |-> pos[c] + 1])]
    /\ pc' = [pc EXCEPT ![c] = "h2count"]
    /\ UNCHANGED <<listening, log, avail, pos, streams_ending,
                   frame_counter, out>>

Ending(u) == u.es /\ (u.typ = "DATA" \/ (u.typ = "HEADERS" /\ u.eh))

(* Wrong: stream 0 goes last, whenever it arrived. *)
UnsortedFrames(c, s) == collected[c][s] \o collected[c][0]

(* sorted(...) is stable: the place of a frame is the number of those that *)
(* come no later.                                                          *)
NoLater(entries, j, i) ==
    \/ entries[j].stamp < entries[i].stamp
    \/ entries[j].stamp = entries[i].stamp /\ j <= i

Rank(entries, i) == Cardinality({j \in DOMAIN entries : NoLater(entries, j, i)})

RelevantFrames(c, s) ==
    LET entries == collected[c][s] \o collected[c][0]
    IN  [k \in DOMAIN entries |->
            entries[CHOOSE i \in DOMAIN entries : Rank(entries, i) = k]]

(* Wrong: an answer that could not be sent is computed again. *)
RespondUntilSent(c, s) ==
    LET frames == RelevantFrames(c, s)
    IN  \/ /\ s # 0 /\ Len(frames) <= PayloadLimit
           /\ \E ok \in BOOLEAN :
                /\ Emit(c, "stream", ok, s, [i \in DOMAIN frames |-> frames[i].n])
                /\ IF ok THEN CloseStream(c, s) /\ Advance(c)
                   ELSE /\ pc' = [pc EXCEPT ![c] = "h2frames"]
                        /\ UNCHANGED <<pos, collected, streams_ending>>
        \/ /\ s = 0 \/ Len(frames) > PayloadLimit
           /\ Die(c)

RespondAndCloseStream(c, s) ==
    \E frames \in {RelevantFrames(c, s)} :
        \/ /\ s # 0 /\ Len(frames) <= PayloadLimit
           /\ \E ok \in BOOLEAN :
                Emit(c, "stream", ok, s, [i \in DOMAIN frames |-> frames[i].n])
           /\ CloseStream(c, s)
           /\ Advance(c)
        \/ /\ s = 0 \/ Len(frames) > PayloadLimit
           /\ Die(c)

(* Wrong: the stamp plus one is stored, and another thread's update lost. *)
CountedFromStamp(c) == Last(collected[c][Frame(c).sid]).stamp + 1

(* ... and increments it in a second step, before which other threads may  *)
(* have read the same value.  Under the interpreter lock the increment is  *)
(* atomic: no thread switch falls between its load and its store.          *)
Counted(c) == frame_counter + 1

CountAndReact(c) ==
    /\ pc[c] = "h2count"
    /\ frame_counter' = Counted(c)
    /\ LET f == Frame(c)
       IN  \/ Ending(f) /\ RespondAndCloseStream(c, f.sid)
           \/ /\ f.typ = "HEADERS" /\ f.es /\ ~f.eh
              /\ streams_ending' = [streams_ending EXCEPT ![c] = @ \cup {f.sid}]
              /\ Advance(c)
              /\ UNCHANGED <<collected, out>>
           \/ /\ f.typ = "SETTINGS" /\ ~f.es
              /\ \/ Emit(c, "ack", TRUE, 0, <<>>) /\ Advance(c)
                    /\ UNCHANGED <<collected, streams_ending>>
                 \/ Die(c)
           \/ /\ f.typ \in {"DATA", "HEADERS"} => ~f.es
              /\ f.typ = "SETTINGS" => f.es
              /\ Advance(c)
              /\ UNCHANGED <<collected, streams_ending, out>>
    /\ UNCHANGED <<listening, log, avail>>

IgnoreFrame(c) ==
    /\ \/ AtFrame(c, {"PRIORITY"})
       \/ AtFrame(c, {"PING"}) /\ Frame(c).es
    /\ Advance(c)
    /\ UNCHANGED <<listening, log, avail, collected, streams_ending,
                   frame_counter, out>>

RstStream(c) ==
    /\ AtFrame(c, {"RST_STREAM"})
    /\ LET s == Frame(c).sid
       IN  \/ /\ collected[c][s] # <<>>
              /\ CloseStream(c, s) /\ Advance(c) /\ UNCHANGED out
           \/ collected[c][s] = <<>> /\ Die(c)
    /\ UNCHANGED <<listening, log, avail, frame_counter>>

Ping(c) ==
    /\ AtFrame(c, {"PING"}) /\ ~Frame(c).es
    /\ \/ /\ Frame(c).full
          /\ Emit(c, "pong", TRUE, 0, <<>>) /\ Advance(c)
          /\ UNCHANGED <<collected, streams_ending>>
       \/ Die(c)      \* a short payload, or sendall raised
    /\ UNCHANGED <<listening, log, avail, frame_counter>>

GoAway(c) ==
    /\ AtFrame(c, {"GOAWAY"})
    /\ Die(c)
    /\ UNCHANGED <<listening, log, avail, frame_counter>>

-----------------------------------------------------------------------------
Thread(c) ==
    \/ RecvPreamble(c)
    \/ H1Send(c) \/ H1Recv(c)
    \/ H2Settings(c) \/ ParseGenericFrames(c) \/ ParseTornFrame(c) \/ H2Recv(c)
    \/ Collect(c) \/ CountAndReact(c)
    \/ IgnoreFrame(c) \/ RstStream(c) \/ Ping(c) \/ GoAway(c)

Next ==
    \E c \in Conns :
        Accept(c) \/ AcceptFails(c) \/ RecvFails(c) \/ Thread(c)

(* The scheduler runs every thread that can run, and recvall returns after *)
(* SOCKET_TIMEOUT at the latest; nothing is assumed of the peers, which    *)
(* need not send anything more, nor reset the connection.                  *)
Fairness == \A c \in Conns : WF_vars(Accept(c)) /\ WF_vars(Thread(c))

Spec == Init /\ [][Next]_vars

FairSpec == Spec /\ Fairness
-----------------------------------------------------------------------------
(* What out holds is the subject of EchoFaithful, EndsAnswered and         *)
(* H1EchoesAll below.                                                      *)
TypeOK ==
    /\ listening \in BOOLEAN
    /\ pc \in [Conns -> PCs]
    /\ log \in [Conns -> Seq(Unit)]
    /\ avail \in [Conns -> Nat]
    /\ pos \in [Conns -> Nat]
    /\ \A c \in Conns : pos[c] <= avail[c] /\ avail[c] <= Len(log[c])
    /\ collected \in [Conns -> [Streams -> Seq(Entry)]]
    /\ streams_ending \in [Conns -> SUBSET Streams]
    /\ frame_counter \in Nat
    /\ DOMAIN out = Conns

(* The first thing each handler sends tells the two apart. *)
IsH1(c) == out[c] # <<>> /\ out[c][1].kind = "echo"
IsH2(c) == out[c] # <<>> /\ out[c][1].kind = "settings"

(* However the threads interleave on frame_counter, the stamps of one      *)
(* connection's frames order them as they arrived, so that sorting by      *)
(* stamp (echo_server.py:53) restores the arrival order.                   *)
StampOrder ==
    \A c \in Conns, s, t \in Streams :
        \A i \in DOMAIN collected[c][s], j \in DOMAIN collected[c][t] :
            LET e == collected[c][s][i]
                f == collected[c][t][j]
            IN  e.n < f.n => e.stamp < f.stamp

(* Every stream remembered as waiting for the end of its headers still     *)
(* holds frames: close_stream forgets a stream in both places.             *)
EndingStreamsHoldFrames ==
    \A c \in Conns : \A s \in streams_ending[c] : collected[c][s] # <<>>

(* Why StampOrder is kept.  The stamps a connection holds are below        *)
(* frame_counter, except that of a frame collected and not yet counted,    *)
(* which is the latest; and no frame ahead of the handler is held.         *)
StampsCounted ==
    \A c \in Conns, s \in Streams : \A i \in DOMAIN collected[c][s] :
        LET e == collected[c][s][i]
        IN  /\ e.stamp <= frame_counter
            /\ e.n <= pos[c] => e.stamp < frame_counter
            /\ e.n <= pos[c] + 1
            /\ e.n = pos[c] + 1 => pc[c] \in {"h2count", "done"}

(* Nothing is consumed before the handler is chosen; while a frame is      *)
(* handled it is in hand, and its stream holds it.                         *)
FrameInHand ==
    \A c \in Conns :
        /\ pc[c] \in {"backlog", "preamble"} => pos[c] = 0
        /\ pc[c] \in {"h2frames", "h2count"} => pos[c] < avail[c]
        /\ pc[c] = "h2count" => collected[c][Frame(c).sid] # <<>>

IInv == TypeOK /\ StampsCounted /\ FrameInHand /\ StampOrder
            /\ EndingStreamsHoldFrames

Kept(u) == u.typ \in {"DATA", "HEADERS", "SETTINGS", "CONTINUATION"}

Closes(u, s) == u.sid = s /\ (u.typ = "RST_STREAM" \/ Ending(u))

(* What the peer is owed when its frame n ends stream s: the frames of s   *)
(* and of stream 0 since each was last closed.                             *)
Owed(c, s, n) ==
    {m \in 1..n :
        /\ Kept(log[c][m]) /\ log[c][m].sid \in {s, 0}
        /\ \A l \in m..n-1 : ~Closes(log[c][l], log[c][m].sid)}

(* An HTTP/2 response echoes exactly what the peer sent on that stream and *)
(* on stream 0, in the order sent: nothing of another connection, nothing  *)
(* of an earlier use of the stream, nothing twice.                         *)
EchoFaithful ==
    \A c \in Conns : \A i \in DOMAIN out[c] :
        LET r == out[c][i]
        IN  r.kind = "stream" =>
                /\ Range(r.body) = Owed(c, r.sid, r.at)
                /\ \A k, l \in DOMAIN r.body : k < l => r.body[k] < r.body[l]

(* Among the frames an HTTP/2 handler has consumed, those that end a       *)
(* stream are answered (or the answer was tried), each once and in order.  *)
EndsAnswered ==
    \A c \in Conns : IsH2(c) =>
        LET answers == {i \in DOMAIN out[c] : out[c][i].kind = "stream"}
        IN  /\ {out[c][i].at : i \in answers} = {m \in 1..pos[c] : Ending(log[c][m])}
            /\ \A i, j \in answers : i < j => out[c][i].at < out[c][j].at

(* The bodies of the HTTP/1 echoes, one after the other, are the bytes the *)
(* peer sent, however the timeouts cut them into payloads.                 *)
H1EchoesAll ==
    \A c \in Conns : IsH1(c) =>
        FlattenSeq([i \in DOMAIN out[c] |-> out[c][i].body])
            = [m \in 1..pos[c] |-> m]

(* An HTTP/1 thread does not outlive its peer: once nothing more arrives   *)
(* within SOCKET_TIMEOUT it closes the socket and ends.                    *)
H1Ends ==
    \A c \in Conns : pc[c] \in {"h1send", "h1recv"} ~> pc[c] = "done"

LongestLog == Max(UNION {{Len(l[c]) : c \in DOMAIN l} : l \in Logs})

(* A complete frame that recvall has returned and that ends its stream is  *)
(* answered, unless an earlier unit ended the handler.                     *)
EndEventuallyAnswered ==
    \A c \in Conns : \A n \in 2..LongestLog :
        (IsH2(c) /\ pos[c] < n /\ n <= avail[c] /\ Ending(log[c][n]))
            ~> \/ \E i \in DOMAIN out[c] : out[c][i].kind = "stream"
                                           /\ out[c][i].at = n
               \/ pc[c] = "done"
=============================================================================
