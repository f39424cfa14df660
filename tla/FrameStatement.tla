--------------------------- MODULE FrameStatement ---------------------------
(***************************************************************************)
(* The statement of the REPL's h2frames command (repl.py: the three        *)
(* parse_h2..._statement functions): HTTP/2 frames written as              *)
(*     [ type headers flags { end_stream } id 1 payload 'x' ] pri [ ... ]  *)
(* The functions share one iterator over the tokens, so that the parser is *)
(* at one place of the grammar after each token.  A token is lower-cased   *)
(* before it is looked at, and stands here for all its spellings.          *)
(***************************************************************************)
EXTENDS Integers, SequencesExt

CONSTANTS
    Number,         \* the integers that tokens write, without leading zeros
    Unencodable     \* tokens that are no latin1 text or no escaped string


Types ==
    [data |-> 0, headers |-> 1, priority |-> 2, rst_stream |-> 3, settings |-> 4,
     push_promise |-> 5, ping |-> 6, goaway |-> 7, window_update |-> 8, continuation |-> 9]

Flags ==
    [end_stream |-> 0, ack |-> 0, end_headers |-> 2, padded |-> 3, priority |-> 5]

(* No word of the statement is a number.                                   *)
ASSUME StatementAssumption ==
    /\ \A t \in DOMAIN Number : Number[t] \in Int
    /\ DOMAIN Number \cap (DOMAIN Types \cup DOMAIN Flags \cup {"}"}) = {}

FlagBits == 0..7
Octets == 0..255
MaxStreamId == 2147483647

(* The preface is listed among the frames. *)
Pri == [typ |-> 256, flags |-> {}, reserved |-> FALSE, id |-> 0, payload |-> ""]

(* No type yet, and the defaults of all that is optional. *)
NewFrame == [typ |-> -1, flags |-> {}, reserved |-> FALSE, id |-> 0, payload |-> ""]

Places == {"outside", "frame", "type", "flags", "flag", "id", "payload"}
Refusals == {"REPLParseError", "H2Error"}

(* at: what the next token is read as, or how the parse ended before it.   *)
Start == [at |-> "outside", frame |-> NewFrame, frames |-> <<>>]

Goto(p, place) == [p EXCEPT !.at = place]
Refuse(p) == Goto(p, "REPLParseError")
Set(p, field, value) == [p EXCEPT !.at = "frame", !.frame[field] = value]

(* Wrong: what the frame before said holds until it is said anew.          *)
OpenedAsLeft(p) == [p EXCEPT !.at = "frame", !.frame.typ = -1]

Opened(p) == [p EXCEPT !.at = "frame", !.frame = NewFrame]

(* The frame is built at its "]", and checks its stream identifier.        *)
Closed(p) ==
    IF p.frame.typ = -1 THEN Refuse(p)
    ELSE IF p.frame.id \notin 0..MaxStreamId THEN Goto(p, "H2Error")
    ELSE [p EXCEPT !.at = "outside", !.frames = Append(@, p.frame)]

Outside(p, t) ==
    IF t = "pri" THEN [p EXCEPT !.frames = Append(@, Pri)]
    ELSE IF t = "[" THEN Opened(p) ELSE Refuse(p)

(* A token that begins no clause is passed over; a clause given again      *)
(* replaces the earlier one.                                               *)
InFrame(p, t) ==
    CASE t \in {"type", "flags", "payload"} -> Goto(p, t)
      [] t \in {"id", "stream_id"} -> Goto(p, "id")
      [] t = "reserved" -> Set(p, "reserved", TRUE)
      [] t = "]" -> Closed(p)
      [] OTHER -> p

TypeClause(p, t) ==
    IF t \in DOMAIN Types THEN Set(p, "typ", Types[t])
    ELSE IF t \in DOMAIN Number /\ Number[t] \in Octets THEN Set(p, "typ", Number[t])
    ELSE Refuse(p)

FlagsOpened(p, t) ==
    IF t = "{" THEN [p EXCEPT !.at = "flag", !.frame.flags = {}] ELSE Refuse(p)

FlagClause(p, t) ==
    IF t = "}" THEN Goto(p, "frame")
    ELSE IF t \in DOMAIN Flags THEN [p EXCEPT !.frame.flags = @ \cup {Flags[t]}]
    ELSE IF t \in DOMAIN Number /\ Number[t] \in FlagBits
         THEN [p EXCEPT !.frame.flags = @ \cup {Number[t]}]
    ELSE Refuse(p)

IdClause(p, t) == IF t \in DOMAIN Number THEN Set(p, "id", Number[t]) ELSE Refuse(p)

PayloadClause(p, t) == IF t \in Unencodable THEN Refuse(p) ELSE Set(p, "payload", t)

Read(p, t) ==
    CASE p.at = "outside" -> Outside(p, t)
      [] p.at = "frame" -> InFrame(p, t)
      [] p.at = "type" -> TypeClause(p, t)
      [] p.at = "flags" -> FlagsOpened(p, t)
      [] p.at = "flag" -> FlagClause(p, t)
      [] p.at = "id" -> IdClause(p, t)
      [] p.at = "payload" -> PayloadClause(p, t)
      [] p.at \in Refusals -> p

(* The tokens may end only outside a frame.                                *)
AtEnd(p) == IF p.at \in {"outside"} \cup Refusals THEN p ELSE Refuse(p)

Statement(tokens) ==
    LET P[n \in 0..Len(tokens)] == IF n = 0 THEN Start ELSE Read(P[n - 1], tokens[n])
    IN  AtEnd(P[Len(tokens)])
-----------------------------------------------------------------------------
(* The frames that may be sent, as far as there are tokens for their       *)
(* numbers, and how a user who wants some of them writes them, leaving out *)
(* what need not be said; numbers stand for types and flags too.           *)

Writable ==
    LET numbers == Range(Number)
    IN  {Pri} \cup [typ : numbers \cap Octets, flags : SUBSET (numbers \cap FlagBits),
                    reserved : BOOLEAN, id : {0} \cup (numbers \cap 0..MaxStreamId),
                    payload : STRING \ Unencodable]

Token(n) == CHOOSE t \in DOMAIN Number : Number[t] = n

Unless(default, clause) == IF default THEN <<>> ELSE clause

WrittenFlags(flags) ==
    <<"flags", "{">> \o [i \in 1..Cardinality(flags) |-> Token(SetToSeq(flags)[i])] \o <<"}">>

WrittenFrame(f) ==
    <<"[", "type", Token(f.typ)>>
        \o Unless(f.flags = {}, WrittenFlags(f.flags))
        \o Unless(~f.reserved, <<"reserved">>)
        \o Unless(f.id = 0, <<"id", Token(f.id)>>)
        \o Unless(f.payload = "", <<"payload", f.payload>>)
        \o <<"]">>

Written(frames) ==
    FlattenSeq([i \in DOMAIN frames |->
                    IF frames[i] = Pri THEN <<"pri">> ELSE WrittenFrame(frames[i])])
=============================================================================
