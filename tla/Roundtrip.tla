----------------------------- MODULE Roundtrip ------------------------------
(***************************************************************************)
(* One exchange of the Garden with each of several servers: connect, send  *)
(* the pieces of the payload and receive after each, until a timeout, the  *)
(* end of the stream or an exception; then parse what came, if the caller  *)
(* asked for that (targets.py: parsed_roundtrip, unparsed_roundtrip,       *)
(* raw_roundtrip; util.py: roundtrip, recvall).  Fanout runs them.  A      *)
(* server is known by its place in the list of the call, so that one that  *)
(* is named twice is two of them, with a connection each.                  *)
(*                                                                         *)
(* A server is external: it emits units of output when it likes, each      *)
(* stamped here with the number of pieces it had been sent, the network    *)
(* delays them but keeps their order, and it may close or reset.           *)
(***************************************************************************)
EXTENDS Naturals, SequencesExt

CONSTANT Calls      \* the calls of fanout that may be made

(* How many servers, which of them have requires_tls, the pieces of the    *)
(* payload (none when a transducer left none), whether what they answer is *)
(* parsed, and a bound: how many units of output a server emits.  No call  *)
(* has more servers than some call has.                                    *)
ASSUME RoundtripAssumption ==
    /\ \A c \in Calls : /\ {c.servers, c.pieces, c.maxout} \subseteq Nat
                        /\ c.tls \subseteq 1..c.servers /\ c.parses \in BOOLEAN
    /\ \E c \in Calls : \A d \in Calls : d.servers <= c.servers

Servers == 1..Max({c.servers : c \in Calls})

VARIABLES
    call,       \* the one made
    pc,         \* where each server's roundtrip is
    sent,       \* pieces of the payload handed to the socket
    out,        \* the units the server emitted, as their stamps
    arrived,    \* how many of them reached the client's socket
    fin,        \* "open", "fin" (closed in order) or "rst"
    read,       \* how many of them recv returned
    mark,       \* read when the current recvall began
    result      \* the pieces: sequences of unit positions

rtvars == <<call, pc, sent, out, arrived, fin, read, mark, result>>

Talking == {"send", "recv", "postamble"}
Received == {"done", "cut"}         \* "cut": the list so far, after an exception
Returned == {"returned"}
Raised == {"refused", "error", "unparsable"}
PCs == {"idle", "connect", "handshake"} \cup Talking \cup Received \cup Returned \cup Raised

RTInit ==
    /\ call \in Calls
    /\ pc = [s \in Servers |-> "idle"]
    /\ sent = [s \in Servers |-> 0]
    /\ out = [s \in Servers |-> <<>>]
    /\ arrived = [s \in Servers |-> 0]
    /\ fin = [s \in Servers |-> "open"]
    /\ read = [s \in Servers |-> 0]
    /\ mark = [s \in Servers |-> 0]
    /\ result = [s \in Servers |-> <<>>]

Goto(s, to) == pc' = [pc EXCEPT ![s] = to]

AfterReceiving(s) == IF sent[s] < call.pieces THEN "send" ELSE "postamble"

-----------------------------------------------------------------------------
(* The call begins (on whatever thread runs it). *)
Begin(s) ==
    /\ pc[s] = "idle" /\ Goto(s, "connect")
    /\ UNCHANGED <<call, sent, out, arrived, fin, read, mark, result>>

(* create_connection: a refusal is raised again under the server's name,   *)
(* any other OSError (no route, no such name) as it is.                    *)
Connect(s) ==
    /\ pc[s] = "connect"
    /\ \/ Goto(s, IF s \in call.tls THEN "handshake" ELSE AfterReceiving(s))
       \/ Goto(s, "refused") \/ Goto(s, "error")
    /\ UNCHANGED <<call, sent, out, arrived, fin, read, mark, result>>

(* ssl_wrap runs before settimeout and outside roundtrip's try: it waits   *)
(* for the server as long as that takes, and its failure is raised.        *)
Handshake(s) ==
    /\ pc[s] = "handshake"
    /\ Goto(s, AfterReceiving(s)) \/ Goto(s, "error")
    /\ UNCHANGED <<call, sent, out, arrived, fin, read, mark, result>>

(* Wrong: the next piece goes out before the answers to this one.          *)
SendWithoutReceiving(s) ==
    /\ pc[s] = "send"
    /\ \/ /\ sent' = [sent EXCEPT ![s] = @ + 1]
          /\ Goto(s, IF sent[s] + 1 < call.pieces THEN "send" ELSE "recv")
       \/ Goto(s, "cut") /\ UNCHANGED sent
    /\ UNCHANGED <<call, out, arrived, fin, read, mark, result>>

Send(s) ==
    /\ pc[s] = "send"
    /\ \/ sent' = [sent EXCEPT ![s] = @ + 1] /\ Goto(s, "recv")
       \/ Goto(s, "cut") /\ UNCHANGED sent
    /\ UNCHANGED <<call, out, arrived, fin, read, mark, result>>

(* One recv call of recvall returns some of what has arrived.              *)
Recv(s) ==
    /\ pc[s] \in {"recv", "postamble"}
    /\ \E n \in read[s] + 1 .. arrived[s] : read' = [read EXCEPT ![s] = n]
    /\ UNCHANGED <<call, pc, sent, out, arrived, fin, mark, result>>

(* Wrong: bytes that came after the last piece was answered are dropped.   *)
NoPostamble(s, piece) ==
    IF pc[s] = "recv" THEN Append(result[s], piece) ELSE result[s]

(* recvall's bytes become a piece; an empty postamble is left out.         *)
Collected(s, piece) ==
    IF pc[s] = "recv" \/ piece # <<>> THEN Append(result[s], piece)
                                      ELSE result[s]

(* Wrong: only the end of the stream ends recvall. *)
RecvallEndsAtEOF(s) ==
    /\ pc[s] \in {"recv", "postamble"} /\ read[s] = arrived[s]
    /\ fin[s] = "fin"
    /\ result' = [result EXCEPT ![s] =
            Collected(s, [i \in 1..(read[s] - mark[s]) |-> mark[s] + i])]
    /\ mark' = [mark EXCEPT ![s] = read[s]]
    /\ Goto(s, IF pc[s] = "recv" THEN AfterReceiving(s) ELSE "done")
    /\ UNCHANGED <<call, sent, out, arrived, fin, read>>

(* recvall ends: recv returns b"" at the end of the stream, or times out   *)
(* with nothing to return.  recvall does not tell the two apart.           *)
RecvallEnds(s) ==
    /\ pc[s] \in {"recv", "postamble"} /\ read[s] = arrived[s]
    /\ result' = [result EXCEPT ![s] =
            Collected(s, [i \in 1..(read[s] - mark[s]) |-> mark[s] + i])]
    /\ mark' = [mark EXCEPT ![s] = read[s]]
    /\ Goto(s, IF pc[s] = "recv" THEN AfterReceiving(s) ELSE "done")
    /\ UNCHANGED <<call, sent, out, arrived, fin, read>>

(* A reset ends the roundtrip with the pieces it has; what the current     *)
(* recvall had read is lost.                                               *)
RecvRaises(s) ==
    /\ pc[s] \in {"recv", "postamble"} /\ fin[s] = "rst"
    /\ Goto(s, "cut")
    /\ UNCHANGED <<call, sent, out, arrived, fin, read, mark, result>>

(* The pieces are the item's, or are parsed (Responses says into what): a  *)
(* body that is no gzip, or a chunk too long, raises.                      *)
Parse(s) ==
    /\ pc[s] \in Received
    /\ \/ Goto(s, "returned")
       \/ call.parses /\ FlattenSeq(result[s]) # <<>> /\ Goto(s, "unparsable")
    /\ UNCHANGED <<call, sent, out, arrived, fin, read, mark, result>>

Client(s) ==
    \/ Connect(s) \/ Handshake(s) \/ Send(s)
    \/ Recv(s) \/ RecvallEnds(s) \/ RecvRaises(s) \/ Parse(s)

-----------------------------------------------------------------------------
(* The server and the network. *)

Emit(s) ==
    /\ pc[s] \in Talking /\ fin[s] = "open" /\ Len(out[s]) < call.maxout
    /\ out' = [out EXCEPT ![s] = Append(@, sent[s])]
    /\ UNCHANGED <<call, pc, sent, arrived, fin, read, mark, result>>

Deliver(s) ==
    /\ pc[s] \in Talking /\ arrived[s] < Len(out[s])
    /\ arrived' = [arrived EXCEPT ![s] = @ + 1]
    /\ UNCHANGED <<call, pc, sent, out, fin, read, mark, result>>

Hangup(s) ==
    /\ pc[s] \in Talking /\ fin[s] = "open"
    /\ \E how \in {"fin", "rst"} : fin' = [fin EXCEPT ![s] = how]
    /\ UNCHANGED <<call, pc, sent, out, arrived, read, mark, result>>

Peer(s) == Emit(s) \/ Deliver(s) \/ Hangup(s)

Positions(n) == [i \in 1..n |-> i]

(* The pieces, joined (targets.py:174, 242), are what recv returned, in    *)
(* order, once each; only an exception may cut bytes already read.         *)
NothingReadIsLost ==
    \A s \in Servers :
        /\ FlattenSeq(result[s]) = Positions(mark[s])
        /\ pc[s] = "done" => mark[s] = read[s]

(* A late answer may move to a later piece, but piece i never holds the    *)
(* answer to something sent after it: what is printed next to a piece of   *)
(* the payload was caused by that piece or an earlier one.                 *)
PieceAnswersEarlierData ==
    \A s \in Servers : \A i \in DOMAIN result[s] :
        \A j \in DOMAIN result[s][i] : out[s][result[s][i][j]] <= i

(* With a server that does not require TLS, a roundtrip that began ends,   *)
(* whatever the server does, for it emits finitely much.  The loop over an *)
(* origin's answers ends too (Responses); that of a transducer need not,   *)
(* and a call for which it does not is none of Calls.                      *)
RoundtripEnds ==
    \A s \in Servers :
        (pc[s] = "connect" /\ s \notin call.tls) ~> pc[s] \in Returned \cup Raised
=============================================================================
