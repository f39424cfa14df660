---------------------------- MODULE MCEchoServer ----------------------------
(* An instance of EchoServer: what the peers of two connections send.      *)
EXTENDS EchoServer

CONSTANTS c1, c2

U(t, s, es, eh) == [typ |-> t, sid |-> s, es |-> es, eh |-> eh, full |-> TRUE]

TwoStreams == {0, 1}

Preface == U("PREFACE", 0, FALSE, FALSE)

(* Two threads race on frame_counter, on streams 1 and 0: one is answered  *)
(* with as many frames as a payload may hold, one would need a longer one. *)
Race ==
    LET d == U("DATA", 1, FALSE, FALSE)
        s == U("SETTINGS", 0, TRUE, FALSE)
        e == U("DATA", 1, TRUE, FALSE)
    IN  c1 :> <<Preface, d, s, e>> @@ c2 :> <<Preface, s, d, d, e>>

(* One connection, and every case of the match statement.                  *)
AllUnits ==
    {Preface} \cup
    {U("DATA", s, es, FALSE) : s \in {0, 1}, es \in BOOLEAN} \cup
    {U("HEADERS", 1, es, eh) : es, eh \in BOOLEAN} \cup
    {U("SETTINGS", 0, es, FALSE) : es \in BOOLEAN} \cup
    {U("RST_STREAM", s, FALSE, FALSE) : s \in {0, 1}} \cup
    {U("CONTINUATION", 1, FALSE, TRUE), U("PRIORITY", 1, FALSE, FALSE),
     U("PING", 0, FALSE, FALSE), U("PING", 0, TRUE, FALSE),
     [U("PING", 0, FALSE, FALSE) EXCEPT !.full = FALSE],
     U("GOAWAY", 0, FALSE, FALSE)}

(* Units that end or refill a stream. *)
LastUnits ==
    {U("DATA", 1, TRUE, FALSE), U("HEADERS", 1, TRUE, TRUE),
     U("RST_STREAM", 1, FALSE, FALSE), U("SETTINGS", 0, FALSE, FALSE)}

(* Behind these nothing is read any more, or nothing if no frame is held.  *)
ThreadEnds == {u \in AllUnits : u.typ \in {"PREFACE", "GOAWAY"} \/ ~u.full}
NotFirst == ThreadEnds \cup {u \in AllUnits : u.typ \in {"RST_STREAM", "PING"}}

(* Two units of any kind behind the preface and a third, and HTTP/1 bytes. *)
FrameLogs ==
    {<<Preface>> \o l : l \in SeqOf(AllUnits, 2)}
        \cup {<<Preface, u, v, w>> :
                u \in AllUnits \ NotFirst, v \in AllUnits \ ThreadEnds, w \in LastUnits}
        \cup SeqOf({Preface, U("DATA", 1, TRUE, FALSE), U("SETTINGS", 0, FALSE, FALSE)}, 3)

AloneOrRacing == {c1 :> l : l \in FrameLogs} \cup {Race}
=============================================================================
