----------------------------- MODULE Http2Frames ----------------------------
(***************************************************************************)
(* tools/http2.py: HTTP/2 frames.  A program builds frames, typed ones     *)
(* that their constructors check or generic ones that hold anything, and   *)
(* writes them to a connection; what another program has received of them  *)
(* when recvall times out is parsed into generic frames, and each of these *)
(* into a typed frame, if it is a valid one.                               *)
(*                                                                         *)
(* An octet is a number below 256.  Numbers of 31 and 32 bits are words of *)
(* four octets, so that none overflows; an option (int | None) is a        *)
(* sequence of at most one element; H2Flags is the set of the bits that    *)
(* are set; a setting is its six octets.                                   *)
(***************************************************************************)
EXTENDS Naturals, SequencesExt

CONSTANT Programs       \* the sequences of frames a program may build

DATA == 0
HEADERS == 1
PRIORITY == 2
RST_STREAM == 3
SETTINGS == 4
PUSH_PROMISE == 5
PING == 6
GOAWAY == 7
WINDOW_UPDATE == 8
CONTINUATION == 9

EndStreamOrAck == 0
EndHeaders == 2
Padded == 3
Priority == 5

Octet == 0..255
OctetsOf(n) == {o \in Seq(Octet) : Len(o) = n}
Word == OctetsOf(4)
StreamId == {w \in Word : w[1] < 128}
NoWord == <<0, 0, 0, 0>>

(* What is not None, and what may be.                                      *)
Present(S) == {o \in Seq(S) : Len(o) = 1}
Optional(S) == {o \in Seq(S) : Len(o) <= 1}

(* The highest bit of a word is a flag of its own in some fields, and      *)
(* reserved in the others.                                                 *)
Top(w) == w[1] >= 128
Low(w) == [w EXCEPT ![1] = @ % 128]
WithTop(b, w) == IF b THEN [w EXCEPT ![1] = @ + 128] ELSE w

FlagsOctet(flags) ==
    LET b(i) == IF i \in flags THEN 1 ELSE 0
    IN  128 * b(7) + 64 * b(6) + 32 * b(5) + 16 * b(4) + 8 * b(3) + 4 * b(2) + 2 * b(1) + b(0)
FlagsOf(octet) == {i \in 0..7 : (octet \div 2^i) % 2 = 1}
FlagIf(flag, b) == IF b THEN {flag} ELSE {}

Zeros(n) == [i \in 1..n |-> 0]

(* itertools.islice, which stops where the data does. *)
Islice(d, from, to) == SubSeq(d, from, IF to <= Len(d) THEN to ELSE Len(d))

-----------------------------------------------------------------------------
(* H2GenericFrame *)

Generic(typ, flags, reserved, id, payload) ==
    [typ |-> typ, flags |-> flags, reserved |-> reserved, stream_id |-> id,
     payload |-> payload]

IsGeneric(f) == "payload" \in DOMAIN f

Payload == {o \in Seq(Octet) : Len(o) < 2^24}

GenericFrame ==
    [typ : Octet, flags : SUBSET (0..7), reserved : BOOLEAN, stream_id : StreamId,
     payload : Payload]

ToBytes(g) ==
    LET n == Len(g.payload)
    IN  <<n \div 65536, (n \div 256) % 256, n % 256, g.typ, FlagsOctet(g.flags)>>
            \o WithTop(g.reserved, g.stream_id) \o g.payload

PayloadLength(d) == d[1] * 65536 + d[2] * 256 + d[3]

(* Wrong: a payload may be shorter than announced. *)
HeaderIsThere(d) == Len(d) >= 9

(* H2GenericFrame.parse raises H2Error on anything less. *)
FrameIsThere(d) == Len(d) >= 9 /\ Len(d) >= 9 + PayloadLength(d)

(* Wrong: the reserved bit is dropped. *)
ParsedUnreserved(d) ==
    Generic(d[4], FlagsOf(d[5]), FALSE, Low(SubSeq(d, 6, 9)),
            Islice(d, 10, 9 + PayloadLength(d)))

Parsed(d) ==
    Generic(d[4], FlagsOf(d[5]), Top(SubSeq(d, 6, 9)), Low(SubSeq(d, 6, 9)),
            Islice(d, 10, 9 + PayloadLength(d)))

-----------------------------------------------------------------------------
(* The typed frames: from_h2frame, __post_init__ and to_generic.           *)

Paddable == {DATA, HEADERS, PUSH_PROMISE}
OnStream == {DATA, HEADERS, PRIORITY, RST_STREAM, PUSH_PROMISE, CONTINUATION}
OnConnection == {SETTINGS, PING, GOAWAY}

HasPadding(g) == g.typ \in Paddable /\ Padded \in g.flags
HasPriority(g) == g.typ = HEADERS /\ Priority \in g.flags

(* payload_prefix_len: the octets ahead of the data or the fragment. *)
Ahead(g) == (IF HasPadding(g) THEN 1 ELSE 0) + (IF HasPriority(g) THEN 5 ELSE 0)
                + (IF g.typ = PUSH_PROMISE THEN 4 ELSE 0)

PadLength(g) == IF HasPadding(g) THEN <<g.payload[1]>> ELSE <<>>
PadOctets(pad_length) == IF pad_length = <<>> THEN 0 ELSE pad_length[1]

SizeFits(g) ==
    LET n == Len(g.payload)
    IN  /\ g.typ \in Paddable => n >= Ahead(g)
        /\ g.typ = PRIORITY => n = 5
        /\ g.typ \in {RST_STREAM, WINDOW_UPDATE} => n = 4
        /\ g.typ = SETTINGS => n % 6 = 0
        /\ g.typ = GOAWAY => n >= 8

(* bslice asserts that what is left for the fragment is not negative, and  *)
(* an AssertionError is no H2Error.                                        *)
Overpadded(g) ==
    /\ HasPadding(g) /\ SizeFits(g)
    /\ Ahead(g) + PadOctets(PadLength(g)) > Len(g.payload)

Fragment(g) ==
    SubSeq(g.payload, Ahead(g) + 1, Len(g.payload) - PadOctets(PadLength(g)))

(* Wrong: the exclusive bit stays in the stream dependency. *)
UnmaskedPriority(octets) ==
    [exclusive |-> <<Top(octets)>>, stream_dependency |-> <<SubSeq(octets, 1, 4)>>,
     weight |-> <<octets[5]>>]

PriorityOf(octets) ==
    [exclusive |-> <<Top(octets)>>, stream_dependency |-> <<Low(SubSeq(octets, 1, 4))>>,
     weight |-> <<octets[5]>>]

NoPriority == [exclusive |-> <<>>, stream_dependency |-> <<>>, weight |-> <<>>]

(* from_h2frame of each type. *)
DataFrame(g) ==
    [typ |-> DATA, stream_id |-> g.stream_id, end_stream |-> EndStreamOrAck \in g.flags,
     pad_length |-> PadLength(g), data |-> Fragment(g)]

PriorityIn(g) ==
    IF HasPriority(g) THEN PriorityOf(SubSeq(g.payload, Ahead(g) - 4, Ahead(g)))
                      ELSE NoPriority

HeadersFrame(g) ==
    LET p == PriorityIn(g)
    IN  [typ |-> HEADERS, stream_id |-> g.stream_id, end_stream |-> EndStreamOrAck \in g.flags,
         end_headers |-> EndHeaders \in g.flags, pad_length |-> PadLength(g),
         exclusive |-> p.exclusive, stream_dependency |-> p.stream_dependency,
         weight |-> p.weight, field_block_fragment |-> Fragment(g)]

PriorityFrame(g) ==
    LET p == PriorityOf(g.payload)
    IN  [typ |-> PRIORITY, stream_id |-> g.stream_id, exclusive |-> p.exclusive,
         stream_dependency |-> p.stream_dependency, weight |-> p.weight]

RstStreamFrame(g) ==
    [typ |-> RST_STREAM, stream_id |-> g.stream_id, error_code |-> g.payload]

SettingsFrame(g) ==
    [typ |-> SETTINGS, ack |-> EndStreamOrAck \in g.flags,
     settings |-> [i \in 1..(Len(g.payload) \div 6) |-> SubSeq(g.payload, 6*i - 5, 6*i)]]

PushPromiseFrame(g) ==
    [typ |-> PUSH_PROMISE, stream_id |-> g.stream_id, end_headers |-> EndHeaders \in g.flags,
     pad_length |-> PadLength(g),
     promised_stream_id |-> Low(SubSeq(g.payload, Ahead(g) - 3, Ahead(g))),
     field_block_fragment |-> Fragment(g)]

PingFrame(g) ==
    [typ |-> PING, ack |-> EndStreamOrAck \in g.flags, opaque_data |-> g.payload]

GoAwayFrame(g) ==
    [typ |-> GOAWAY, last_stream_id |-> Low(SubSeq(g.payload, 1, 4)),
     error_code |-> SubSeq(g.payload, 5, 8),
     additional_debug_data |-> SubSeq(g.payload, 9, Len(g.payload))]

WindowUpdateFrame(g) ==
    [typ |-> WINDOW_UPDATE, stream_id |-> g.stream_id,
     window_size_increment |-> Low(g.payload)]

ContinuationFrame(g) ==
    [typ |-> CONTINUATION, stream_id |-> g.stream_id,
     end_headers |-> EndHeaders \in g.flags, field_block_fragment |-> g.payload]

Typed(g) ==
    CASE g.typ = DATA -> DataFrame(g)
      [] g.typ = HEADERS -> HeadersFrame(g)
      [] g.typ = PRIORITY -> PriorityFrame(g)
      [] g.typ = RST_STREAM -> RstStreamFrame(g)
      [] g.typ = SETTINGS -> SettingsFrame(g)
      [] g.typ = PUSH_PROMISE -> PushPromiseFrame(g)
      [] g.typ = PING -> PingFrame(g)
      [] g.typ = GOAWAY -> GoAwayFrame(g)
      [] g.typ = WINDOW_UPDATE -> WindowUpdateFrame(g)
      [] g.typ = CONTINUATION -> ContinuationFrame(g)

(* check_priority compares the three by a chain of !=, which holds only if *)
(* the weight is the odd one out.                                          *)
PriorityRefused(t) ==
    /\ (t.exclusive = <<>>) # (t.weight = <<>>)
    /\ (t.weight = <<>>) # (t.stream_dependency = <<>>)

(* The property `priority` of a HEADERS frame. *)
WholePriority(t) == t.exclusive # <<>> /\ t.stream_dependency # <<>> /\ t.weight # <<>>

Constructible(t) ==
    /\ t.typ \in OnStream => t.stream_id # NoWord
    /\ t.typ = HEADERS => ~PriorityRefused(t)
    /\ t.typ = SETTINGS => ~(t.ack /\ t.settings # <<>>)
    /\ t.typ = PUSH_PROMISE => t.promised_stream_id # NoWord
    /\ t.typ = PING => Len(t.opaque_data) = 8
    /\ t.typ = WINDOW_UPDATE => t.window_size_increment # NoWord

PriorityOctets(t) ==
    WithTop(t.exclusive[1], t.stream_dependency[1]) \o t.weight

InPadding(t, octets) == t.pad_length \o octets \o Zeros(PadOctets(t.pad_length))

(* Wrong: the pad length comes behind the priority. *)
PriorityFirst(t) ==
    (IF WholePriority(t) THEN PriorityOctets(t) ELSE <<>>)
        \o InPadding(t, t.field_block_fragment)

HeadersPayload(t) ==
    InPadding(t, (IF WholePriority(t) THEN PriorityOctets(t) ELSE <<>>)
                    \o t.field_block_fragment)

(* to_generic of each type. *)
PaddedIf(t) == FlagIf(Padded, t.pad_length # <<>>)

DataToGeneric(t) ==
    Generic(DATA, PaddedIf(t) \cup FlagIf(EndStreamOrAck, t.end_stream), FALSE, t.stream_id,
            InPadding(t, t.data))

HeadersToGeneric(t) ==
    Generic(HEADERS, PaddedIf(t) \cup FlagIf(EndStreamOrAck, t.end_stream)
                        \cup FlagIf(EndHeaders, t.end_headers)
                        \cup FlagIf(Priority, WholePriority(t)),
            FALSE, t.stream_id, HeadersPayload(t))

PriorityToGeneric(t) == Generic(PRIORITY, {}, FALSE, t.stream_id, PriorityOctets(t))

RstStreamToGeneric(t) == Generic(RST_STREAM, {}, FALSE, t.stream_id, t.error_code)

SettingsToGeneric(t) ==
    Generic(SETTINGS, FlagIf(EndStreamOrAck, t.ack), FALSE, NoWord, FlattenSeq(t.settings))

PushPromiseToGeneric(t) ==
    Generic(PUSH_PROMISE, PaddedIf(t) \cup FlagIf(EndHeaders, t.end_headers), FALSE,
            t.stream_id, InPadding(t, t.promised_stream_id \o t.field_block_fragment))

PingToGeneric(t) ==
    Generic(PING, FlagIf(EndStreamOrAck, t.ack), FALSE, NoWord, t.opaque_data)

GoAwayToGeneric(t) ==
    Generic(GOAWAY, {}, FALSE, NoWord,
            t.last_stream_id \o t.error_code \o t.additional_debug_data)

WindowUpdateToGeneric(t) ==
    Generic(WINDOW_UPDATE, {}, FALSE, t.stream_id, t.window_size_increment)

ContinuationToGeneric(t) ==
    Generic(CONTINUATION, FlagIf(EndHeaders, t.end_headers), FALSE, t.stream_id,
            t.field_block_fragment)

TypedToGeneric(t) ==
    CASE t.typ = DATA -> DataToGeneric(t)
      [] t.typ = HEADERS -> HeadersToGeneric(t)
      [] t.typ = PRIORITY -> PriorityToGeneric(t)
      [] t.typ = RST_STREAM -> RstStreamToGeneric(t)
      [] t.typ = SETTINGS -> SettingsToGeneric(t)
      [] t.typ = PUSH_PROMISE -> PushPromiseToGeneric(t)
      [] t.typ = PING -> PingToGeneric(t)
      [] t.typ = GOAWAY -> GoAwayToGeneric(t)
      [] t.typ = WINDOW_UPDATE -> WindowUpdateToGeneric(t)
      [] t.typ = CONTINUATION -> ContinuationToGeneric(t)

ToGeneric(f) == IF IsGeneric(f) THEN f ELSE TypedToGeneric(f)

(* The fields of the typed frames, which the dataclasses declare and whose *)
(* ranges __post_init__ checks.                                            *)
DataFields ==
    [typ : {DATA}, stream_id : StreamId, end_stream : BOOLEAN, pad_length : Optional(Octet),
     data : Seq(Octet)]

HeadersFields ==
    [typ : {HEADERS}, stream_id : StreamId, end_stream : BOOLEAN, end_headers : BOOLEAN,
     pad_length : Optional(Octet), exclusive : Optional(BOOLEAN),
     stream_dependency : Optional(StreamId), weight : Optional(Octet),
     field_block_fragment : Seq(Octet)]

PriorityFields ==
    [typ : {PRIORITY}, stream_id : StreamId, exclusive : Present(BOOLEAN),
     stream_dependency : Present(StreamId), weight : Present(Octet)]

RstStreamFields == [typ : {RST_STREAM}, stream_id : StreamId, error_code : Word]

SettingsFields == [typ : {SETTINGS}, ack : BOOLEAN, settings : Seq(OctetsOf(6))]

PushPromiseFields ==
    [typ : {PUSH_PROMISE}, stream_id : StreamId, end_headers : BOOLEAN,
     pad_length : Optional(Octet), promised_stream_id : StreamId,
     field_block_fragment : Seq(Octet)]

PingFields == [typ : {PING}, ack : BOOLEAN, opaque_data : Seq(Octet)]

GoAwayFields ==
    [typ : {GOAWAY}, last_stream_id : StreamId, error_code : Word,
     additional_debug_data : Seq(Octet)]

WindowUpdateFields ==
    [typ : {WINDOW_UPDATE}, stream_id : StreamId, window_size_increment : StreamId]

ContinuationFields ==
    [typ : {CONTINUATION}, stream_id : StreamId, end_headers : BOOLEAN,
     field_block_fragment : Seq(Octet)]

TypedFrame ==
    DataFields \cup HeadersFields \cup PriorityFields \cup RstStreamFields
        \cup SettingsFields \cup PushPromiseFields \cup PingFields \cup GoAwayFields
        \cup WindowUpdateFields \cup ContinuationFields

(* A frame too long for a generic one raises an H2Error in to_generic.     *)
ASSUME ProgramsAssumption ==
    Programs \subseteq
        Seq(GenericFrame \cup {t \in TypedFrame : TypedToGeneric(t).payload \in Payload})

(* specialize: a frame of an unknown type, or one that from_h2frame or the *)
(* constructor refuses with an H2Error, is returned as it is.              *)
IsValid(g) ==
    /\ g.typ \in DATA..CONTINUATION
    /\ g.typ \in OnConnection => g.stream_id = NoWord
    /\ SizeFits(g)
    /\ Constructible(Typed(g))

Specialize(g) == IF IsValid(g) THEN Typed(g) ELSE g
-----------------------------------------------------------------------------
VARIABLES
    built,      \* the frames written to the connection
    data,       \* the octets of them that recvall returned
    at,         \* how many of these the parser has consumed
    frames,     \* the generic frames parsed from them
    typed,      \* the frames specialized so far
    pc          \* where the receiving program is, or what it raised

vars == <<built, data, at, frames, typed, pc>>

Sent(n) == FlattenSeq([i \in 1..n |-> ToBytes(ToGeneric(built[i]))])

Init ==
    /\ built \in {p \in Programs :
                    \A i \in DOMAIN p : IsGeneric(p[i]) \/ Constructible(p[i])}
    /\ data = <<>> /\ at = 0 /\ frames = <<>> /\ typed = <<>>
    /\ pc = "receive"

(* recvall returns what came before its timeout. *)
Receive ==
    /\ pc = "receive"
    /\ LET sent == Sent(Len(built))
       IN  \E k \in 0..Len(sent) : data' = SubSeq(sent, 1, k)
    /\ pc' = "parse"
    /\ UNCHANGED <<built, at, frames, typed>>

Rest == SubSeq(data, at + 1, Len(data))

(* parse_generic_frames: a turn of its loop, its end at the end of the     *)
(* data, and the H2Error that takes the frames parsed so far with it.      *)
ParseFrame ==
    /\ pc = "parse" /\ at < Len(data) /\ FrameIsThere(Rest)
    /\ frames' = Append(frames, Parsed(Rest))
    /\ at' = at + 9 + Len(Parsed(Rest).payload)
    /\ UNCHANGED <<built, data, typed, pc>>

ParseRaises ==
    /\ pc = "parse" /\ at < Len(data) /\ ~FrameIsThere(Rest)
    /\ frames' = <<>>
    /\ pc' = "H2Error"
    /\ UNCHANGED <<built, data, at, typed>>

ParseEnds ==
    /\ pc = "parse" /\ at >= Len(data)
    /\ pc' = "specialize"
    /\ UNCHANGED <<built, data, at, frames, typed>>

(* parse_frames: specialize each in turn. *)
SpecializeFrame ==
    /\ pc = "specialize" /\ Len(typed) < Len(frames)
    /\ LET g == frames[Len(typed) + 1]
       IN  /\ ~Overpadded(g)
           /\ typed' = Append(typed, Specialize(g))
    /\ UNCHANGED <<built, data, at, frames, pc>>

SpecializeRaises ==
    /\ pc = "specialize" /\ Len(typed) < Len(frames)
    /\ Overpadded(frames[Len(typed) + 1])
    /\ typed' = <<>>
    /\ pc' = "AssertionError"
    /\ UNCHANGED <<built, data, at, frames>>

SpecializeEnds ==
    /\ pc = "specialize" /\ Len(typed) = Len(frames)
    /\ pc' = "done"
    /\ UNCHANGED <<built, data, at, frames, typed>>

Next ==
    \/ Receive
    \/ ParseFrame \/ ParseRaises \/ ParseEnds
    \/ SpecializeFrame \/ SpecializeRaises \/ SpecializeEnds

Spec == Init /\ [][Next]_vars
-----------------------------------------------------------------------------
(* H2GenericFrame represents any frame, valid or not (http2.py:264): the   *)
(* octets of the parsed frames are the octets that were consumed.          *)
FramesAreTheData ==
    pc # "H2Error" =>
        FlattenSeq([i \in DOMAIN frames |-> ToBytes(frames[i])]) = SubSeq(data, 1, at)

(* What is received is refused if and only if its end fell inside a frame  *)
(* (http2.py:278-291); frames are found wherever they were written, also   *)
(* those that no typed frame can represent.                                *)
OnlyATearIsRefused ==
    LET boundaries == {Len(Sent(n)) : n \in 0..Len(built)}
    IN  /\ pc = "H2Error" => Len(data) \notin boundaries
        /\ pc \in {"specialize", "done"} => Len(data) \in boundaries

(* The frames a program built with a typed constructor are, at the other   *)
(* end, the same typed frames (to_generic and from_h2frame of http2.py,    *)
(* lines 354-783), but for a priority that was given in part, and none of  *)
(* them ends the program.                                                  *)
BuiltFramesComeBack ==
    /\ pc = "AssertionError" => \E i \in DOMAIN frames : IsGeneric(built[i])
    /\ pc = "done" =>
        \A i \in DOMAIN typed :
            \/ IsGeneric(built[i])
            \/ built[i].typ = HEADERS /\ ~WholePriority(built[i])
                    /\ typed[i] = [built[i] EXCEPT !.exclusive = <<>>,
                                      !.stream_dependency = <<>>, !.weight = <<>>]
            \/ typed[i] = built[i]

(* Whatever a peer sent, the typed frame is one that its constructor would *)
(* take, and stands for as many octets as it came in: padding, priority    *)
(* and fragment are cut out of the payload with nothing left over or taken *)
(* twice (http2.py:254-479 and 595-657).  Writing it out and reading it    *)
(* again yields the same frame: only reserved bits, unused flags and the   *)
(* octets of the padding are lost, and those once.                         *)
SpecializedForGood ==
    \A i \in DOMAIN typed :
        LET again == ToGeneric(typed[i])
        IN  /\ IsGeneric(typed[i]) \/ Constructible(typed[i])
            /\ Len(again.payload) = Len(frames[i].payload)
            /\ ~Overpadded(again) /\ Specialize(again) = typed[i]
=============================================================================
