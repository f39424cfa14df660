--------------------------- MODULE MCHttp2Frames ----------------------------
(* Instances of Http2Frames: one frame of every kind, alone or with one or *)
(* two others around it.                                                   *)
EXTENDS Http2Frames

Id1 == <<0, 0, 0, 1>>
IdMax == <<127, 255, 255, 255>>

Pads == {<<>>, <<0>>, <<2>>}
Octets == {<<>>, <<7>>, <<3, 8>>}
Priorities ==
    {[exclusive |-> e, stream_dependency |-> d, weight |-> w] :
        e \in {<<>>, <<TRUE>>, <<FALSE>>}, d \in {<<>>, <<IdMax>>}, w \in {<<>>, <<255>>}}

TypedFrames ==
    {[typ |-> DATA, stream_id |-> i, end_stream |-> b, pad_length |-> p, data |-> o] :
        i \in {NoWord, Id1, IdMax}, b \in BOOLEAN, p \in Pads, o \in Octets}
    \cup
    {[typ |-> HEADERS, stream_id |-> Id1, end_stream |-> b, end_headers |-> h,
      pad_length |-> p, field_block_fragment |-> o] @@ q :
        b, h \in BOOLEAN, p \in Pads, o \in Octets, q \in Priorities}
    \cup {[typ |-> PRIORITY, stream_id |-> IdMax] @@ q :
            q \in {r \in Priorities : WholePriority(r)}}
    \cup {[typ |-> RST_STREAM, stream_id |-> Id1, error_code |-> <<255, 0, 0, 8>>]}
    \cup {[typ |-> SETTINGS, ack |-> b, settings |-> s] : b \in BOOLEAN,
            s \in {<<>>, <<<<0, 1, 255, 0, 0, 0>>, <<0, 2, 0, 0, 0, 9>>>>}}
    \cup {[typ |-> PUSH_PROMISE, stream_id |-> Id1, end_headers |-> h, pad_length |-> p,
           promised_stream_id |-> i, field_block_fragment |-> o] :
            h \in BOOLEAN, p \in Pads, i \in {NoWord, IdMax}, o \in Octets}
    \cup {[typ |-> PING, ack |-> b, opaque_data |-> Zeros(n)] : b \in BOOLEAN, n \in {7, 8}}
    \cup {[typ |-> GOAWAY, last_stream_id |-> i, error_code |-> Id1,
           additional_debug_data |-> o] : i \in {NoWord, IdMax}, o \in Octets}
    \cup {[typ |-> WINDOW_UPDATE, stream_id |-> i, window_size_increment |-> w] :
            i \in {NoWord, Id1}, w \in {NoWord, IdMax}}
    \cup {[typ |-> CONTINUATION, stream_id |-> Id1, end_headers |-> h,
           field_block_fragment |-> o] : h \in BOOLEAN, o \in Octets}

(* Payloads as short and as long as the cases of from_h2frame tell apart,  *)
(* with the first octet read as a pad length or as the top of a word.      *)
Payloads ==
    {<<>>} \cup {<<o>> \o Zeros(n) : o \in {0, 1, 3, 128, 255}, n \in {0, 1, 3, 4, 5, 6, 7, 8, 11}}

GenericFrames ==
    {Generic(t, fl, r, i, p) :
        t \in 0..10, fl \in {{}, {Padded}, {Priority}, {Padded, Priority}, 0..7},
        r \in BOOLEAN, i \in {NoWord, Id1}, p \in Payloads}

Neighbour == Generic(HEADERS, {Padded}, TRUE, Id1, <<1, 5, 0>>)

MCPrograms ==
    {<<f>> : f \in TypedFrames \cup GenericFrames}
        \cup {<<Neighbour, f, Neighbour>> : f \in TypedFrames}
=============================================================================
