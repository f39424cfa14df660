----------------------------- MODULE Responses ------------------------------
(***************************************************************************)
(* tools/targets.py: how the bytes read from a server are cut into         *)
(* answers, by Origin.parsed_roundtrip (requests as JSON, or error         *)
(* responses) and by Transducer.unparsed_roundtrip (the bodies, which an   *)
(* echo server filled with the requests it was sent).                      *)
(*                                                                         *)
(* The bytes are a sequence of units, and a slice of them is the units     *)
(* from one place to another; `remaining` is the slice that begins at the  *)
(* place `at`.  A unit is one of                                           *)
(*   - a message, an HTTP/1 response: its code, whether a Content-Length   *)
(*     says where it ends, and what its body is;                           *)
(*   - raising, a message for whose body parse_body raises something else  *)
(*     than a ValueError: false or torn gzip, or a chunk size re refuses;  *)
(*   - frames, an HTTP/2 DATA frame holding a request as JSON;             *)
(*   - bare, such JSON without a status line, and html, an error page      *)
(*     without one, as HTTP/0.9 has them;                                  *)
(*   - junk, bytes that are none of these and have no empty line.          *)
(* One action is one turn of the loop.                                     *)
(***************************************************************************)
EXTENDS Integers, Sequences

CONSTANTS
    Streams,        \* what may have been read
    MaxPieces       \* the bound on a list that would grow for ever

Units ==
    [kind : {"message"}, code : {200, 400}, framed : BOOLEAN, body : {"json", "text", "html"}]
        \cup [kind : {"raising", "frames", "bare", "html", "junk"}]

ASSUME ResponsesAssumption ==
    /\ Streams \subseteq Seq(Units)
    /\ MaxPieces \in Nat

Roles == {"origin", "transducer"}

VARIABLES
    role,           \* which of the two functions runs
    http2, http09,  \* the server's quirks allows_http_2 and allows_http_0_9
    stream,         \* all that was read
    at,             \* where `remaining` begins
    response,       \* a transducer's last parsed response, 0 for None
    newAt,          \* where a transducer's `new_remaining` begins, 0 if unset
    answers,        \* `result` or `pieces`: slices of the stream
    pc              \* "loop", "returned" or "raised"

vars == <<role, http2, http09, stream, at, response, newAt, answers, pc>>
input == <<role, http2, http09, stream>>

Init ==
    /\ role \in Roles
    /\ http2 \in BOOLEAN /\ http09 \in BOOLEAN
    /\ stream \in Streams
    /\ at = 1 /\ response = 0 /\ newAt = 0
    /\ answers = <<>>
    /\ pc = "loop"

End == Len(stream) + 1
Slice(first, next) == [first |-> first, next |-> next]

-----------------------------------------------------------------------------
(* parse_response: without framing the body is all that follows.           *)
Parses(i) == stream[i].kind = "message"
After(i) == IF stream[i].framed THEN i + 1 ELSE End

(* parse_response_json of a body: other bytes behind the JSON spoil it.    *)
JSONBody(i) == stream[i].body = "json" /\ (stream[i].framed \/ i = Len(stream))

(* What the loop reads of a unit without trying anything else.             *)
Usable(i) == Parses(i) /\ (stream[i].code # 200 \/ JSONBody(i))

(* parse_generic_frames of all from i, one frame having the JSON.          *)
OneJSONFrame(i) == i = Len(stream) /\ stream[i].kind = "frames"

(* strip_http_0_9_headers of all from i goes to the first empty line,      *)
(* wherever it is: what is left begins in the unit j.                      *)
HasHeaders(i) == stream[i].kind \in {"message", "raising"}
Stripped(i, j) ==
    /\ j \in i .. Len(stream)
    /\ \/ HasHeaders(j) /\ \A k \in i .. j - 1 : ~HasHeaders(k)
       \/ j = i /\ \A k \in i .. Len(stream) : ~HasHeaders(k)
Body(i) == IF Parses(i) THEN stream[i].body ELSE stream[i].kind

(* Then parse_response_json of it, or parse_http_0_9_response.             *)
BareJSON(i) == Stripped(i, Len(stream)) /\ Body(Len(stream)) \in {"json", "bare"}
ErrorPage(i, j) == Stripped(i, j) /\ Body(j) = "html"
NoErrorPage == \A j \in DOMAIN stream : ~ErrorPage(at, j)

InLoop(r) == pc = "loop" /\ role = r /\ at < End

(* The loop is over: nothing remains.                                      *)
Return ==
    /\ pc = "loop" /\ at = End
    /\ pc' = "returned"
    /\ UNCHANGED <<input, at, response, newAt, answers>>

(* Neither loop catches what is no ValueError: the function returns        *)
(* nothing, and what it had collected is lost.                             *)
Raise ==
    /\ pc = "loop" /\ at < End /\ stream[at].kind = "raising"
    /\ pc' = "raised"
    /\ UNCHANGED <<input, at, response, newAt, answers>>

-----------------------------------------------------------------------------
(* Origin.parsed_roundtrip                                                 *)

(* Wrong: what follows a response is dropped.                              *)
OriginReadsOne ==
    /\ InLoop("origin") /\ Usable(at)
    /\ answers' = Append(answers, Slice(at, After(at)))
    /\ at' = End
    /\ UNCHANGED <<input, response, newAt, pc>>

(* Wrong: a rejected response is read again.                               *)
OriginRereads ==
    /\ InLoop("origin") /\ Usable(at)
    /\ answers' = Append(answers, Slice(at, After(at)))
    /\ at' = IF stream[at].code # 200 /\ answers = <<>> THEN at ELSE After(at)
    /\ UNCHANGED <<input, response, newAt, pc>>

OriginReads ==
    /\ InLoop("origin") /\ Usable(at)
    /\ answers' = Append(answers, Slice(at, After(at)))
    /\ at' = After(at)
    /\ UNCHANGED <<input, response, newAt, pc>>

OriginReadsHTTP2 ==
    /\ InLoop("origin") /\ ~Usable(at) /\ stream[at].kind # "raising"
    /\ http2 /\ OneJSONFrame(at)
    /\ answers' = Append(answers, Slice(at, End))
    /\ at' = End
    /\ UNCHANGED <<input, response, newAt, pc>>

Unread == InLoop("origin") /\ ~Usable(at) /\ stream[at].kind # "raising" /\ ~(http2 /\ OneJSONFrame(at))

(* The break comes before the append: the request is lost.                 *)
OriginBreaks ==
    /\ Unread /\ http09 /\ BareJSON(at)
    /\ pc' = "returned"
    /\ UNCHANGED <<input, at, response, newAt, answers>>

OriginReadsHTTP09 ==
    /\ Unread /\ http09 /\ ~BareJSON(at)
    /\ \E i \in DOMAIN stream :
          ErrorPage(at, i) /\ answers' = Append(answers, Slice(i, End))
    /\ at' = End
    /\ UNCHANGED <<input, response, newAt, pc>>

(* Wrong: the loop tries again with the same bytes.                        *)
OriginRetries ==
    /\ Unread /\ ~(http09 /\ BareJSON(at)) /\ (http09 => NoErrorPage)
    /\ UNCHANGED vars

(* All that remains is given up, whole responses behind it included.       *)
OriginGivesUp ==
    /\ Unread /\ ~(http09 /\ BareJSON(at)) /\ (http09 => NoErrorPage)
    /\ at' = End
    /\ UNCHANGED <<input, response, newAt, answers, pc>>

-----------------------------------------------------------------------------
(* Transducer.unparsed_roundtrip                                           *)

(* Wrong: a transducer's first response is taken for the only one.         *)
TransducerReadsOne ==
    /\ InLoop("transducer") /\ Parses(at)
    /\ Len(answers) < MaxPieces
    /\ response' = at /\ newAt' = End
    /\ answers' = Append(answers, Slice(at, After(at)))
    /\ at' = newAt'
    /\ UNCHANGED <<input, pc>>

(* A body, or of an error the response itself.                             *)
TransducerReads ==
    /\ InLoop("transducer") /\ Parses(at)
    /\ Len(answers) < MaxPieces
    /\ response' = at /\ newAt' = After(at)
    /\ answers' = Append(answers, Slice(at, After(at)))
    /\ at' = newAt'
    /\ UNCHANGED <<input, pc>>

TransducerReadsHTTP09 ==
    /\ InLoop("transducer") /\ ~Parses(at) /\ stream[at].kind # "raising"
    /\ response = 0
    /\ \E i \in DOMAIN stream :
          Stripped(at, i) /\ answers' = Append(answers, Slice(i, End))
    /\ pc' = "returned"
    /\ UNCHANGED <<input, at, response, newAt>>

(* The ValueError is swallowed; the rest of the turn uses the response and *)
(* the remainder of an earlier turn, and `remaining` stays what it is.     *)
TransducerReadsAgain ==
    /\ InLoop("transducer") /\ ~Parses(at) /\ stream[at].kind # "raising"
    /\ response # 0
    /\ Len(answers) < MaxPieces
    /\ answers' = Append(answers, IF stream[response].code = 200
                                    THEN Slice(response, newAt) ELSE Slice(at, newAt))
    /\ at' = newAt
    /\ UNCHANGED <<input, response, newAt, pc>>

Origin == OriginReads \/ OriginReadsHTTP2 \/ OriginBreaks \/ OriginReadsHTTP09 \/ OriginGivesUp
Transducer == TransducerReads \/ TransducerReadsHTTP09 \/ TransducerReadsAgain

Next == Return \/ Raise \/ Origin \/ Transducer

Spec == Init /\ [][Next]_vars

(* The loops run until they return, raise or exhaust memory.               *)
FairSpec == Spec /\ WF_vars(Next)

-----------------------------------------------------------------------------
ResponsesTypeOK ==
    /\ role \in Roles /\ http2 \in BOOLEAN /\ http09 \in BOOLEAN
    /\ stream \in Seq(Units)
    /\ at \in 1 .. End /\ response \in 0 .. Len(stream) /\ newAt \in 0 .. End
    /\ answers \in Seq([first : 1 .. End, next : 1 .. End])
    /\ pc \in {"loop", "returned", "raised"}

(* The bytes up to and including i are responses that say where they end.  *)
Framed(i) == \A k \in 1 .. i : Parses(k) /\ stream[k].framed

(* Of the responses a transducer relays, each body is one piece, in order, *)
(* cut where the response ends, up to the first bytes that do not parse.   *)
PiecesAreBodies ==
    role = "transducer" =>
        \A i \in DOMAIN answers :
            Framed(i - 1) /\ i < End /\ Parses(i) => answers[i] = Slice(i, After(i))

(* A transducer that returns has left out no such response.                *)
NoBodyLost ==
    role = "transducer" /\ pc = "returned" =>
        \A i \in DOMAIN stream : Framed(i - 1) /\ Parses(i) => i \in DOMAIN answers

(* unparsed_roundtrip relays every body once, in order, and all of them up *)
(* to the first bytes that do not parse (targets.py:233-259).              *)
BodiesAreRelayed == PiecesAreBodies /\ NoBodyLost

(* Every answer of an origin is a slice of its own, behind the ones before *)
(* it: no response is read twice, nor two as one.                          *)
AnswersDisjoint ==
    role = "origin" =>
        /\ \A i \in DOMAIN answers : answers[i].first < answers[i].next
        /\ \A i, j \in DOMAIN answers : i < j => answers[i].next <= answers[j].first

(* All in front of i was read, and says where it ends.                     *)
Reached(i) == \A k \in 1 .. i - 1 : Usable(k) /\ stream[k].framed

(* A request over HTTP/0.9, parsed, is dropped by the `break` in front of  *)
(* the append (targets.py:197-199).                                        *)
Dropped(i) == ~Usable(i) /\ ~(http2 /\ OneJSONFrame(i)) /\ http09 /\ BareJSON(i)

(* What the loop parses of all from i begins in the unit j.                *)
Parsed(i, j) ==
    \/ j = i /\ (Usable(i) \/ (http2 /\ OneJSONFrame(i)))
    \/ j = Len(stream) /\ Dropped(i)
    \/ /\ ~Usable(i) /\ ~(http2 /\ OneJSONFrame(i))
       /\ http09 /\ ~BareJSON(i) /\ ErrorPage(i, j)

Reported(j) == \E a \in DOMAIN answers : answers[a].first = j

(* Of what an origin parses, by any of the three ways, behind nothing that *)
(* it could not read, the function reports all when it returns but for one *)
(* case, a request over HTTP/0.9, which it never reports.  It fails to     *)
(* return, and loses what it had collected, only at a response that        *)
(* parse_body raises for (http1.py:287, 301).                              *)
NoAnswerLost ==
    role = "origin" =>
        /\ pc = "returned" =>
              \A i, j \in DOMAIN stream :
                  Reached(i) /\ Parsed(i, j) => (Reported(j) <=> ~Dropped(i))
        /\ pc = "raised" =>
              \E i \in DOMAIN stream : Reached(i) /\ stream[i].kind = "raising"

(* Whatever an origin sends, reading it ends.                              *)
OriginEnds == role = "origin" ~> pc # "loop"

-----------------------------------------------------------------------------
(* targets.py:241: "Collects response bodies into a list."  No response is *)
(* in the list twice.                                                      *)
OneBodyPerResponse ==
    role = "transducer" =>
        \A i, j \in DOMAIN answers : i < j => answers[i].next <= answers[j].first
=============================================================================
