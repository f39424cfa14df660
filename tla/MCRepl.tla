------------------------------- MODULE MCRepl -------------------------------
(* An instance of Repl: two origins of which one knows HTTP/2, one that is *)
(* not running, a transducer and a service that is neither; and lines that *)
(* lead each command to each kind of input there is.                       *)
EXTENDS Repl

Service(name, role, running, external, http2) ==
    [name |-> name, role |-> role, running |-> running, external |-> external,
     address |-> external, http2 |-> http2]

MCServices ==
    <<Service("a", "origin", TRUE, FALSE, FALSE), Service("b", "origin", FALSE, TRUE, TRUE),
      Service("c", "origin", FALSE, FALSE, TRUE), Service("d", "none", TRUE, FALSE, FALSE),
      Service("t", "transducer", TRUE, FALSE, FALSE)>>

MCNumber ==
    [t \in {"0", "1", "3", "6", "300", "2147483647", "-1"} |->
        CASE t = "0" -> 0 [] t = "1" -> 1 [] t = "3" -> 3 [] t = "6" -> 6
          [] t = "300" -> 300 [] t = "2147483647" -> 2147483647 [] t = "-1" -> -1]

MCUnencodable == {"\\u20ac"}

MCFrames ==
    {Pri} \cup
    [typ : {0, 6}, flags : {{}, {0, 3}}, reserved : BOOLEAN, id : {0, 1, 2147483647},
     payload : {"", "x"}]

Bland == [NewFrame EXCEPT !.typ = 6]

MCWanted == {<<f, g>> : f \in MCFrames, g \in {Pri, Bland}} \cup {<<Bland, f>> : f \in MCFrames}

-----------------------------------------------------------------------------
Bare == {<<c>> : c \in Keywords \cup {"exit", "what"}}

Sent == {<<"payload", "x">>, <<"payload", "x", "x">>, <<"payload", "\\u20ac">>,
         <<"h2frames", "pri">>}

Named ==
    {<<c>> \o names : c \in {"grid", "fanout", "h2fanout"},
                      names \in {<<"b", "a">>, <<"b", "b", "a">>, <<"t">>, <<"c">>}}
        \cup {<<c>> \o names : c \in {"transduce", "utf"},
                               names \in {<<"t">>, <<"t", "t">>, <<"a">>, <<"d">>}}
        \cup {<<"cluster", "b">>, <<"uf", "b", "b">>, <<"uf", "t">>}

Commands == {<<>>} \cup Bare \cup Sent \cup Named

Piped(s) == FlattenSeq([i \in DOMAIN s |-> IF i = 1 THEN s[i] ELSE <<"|">> \o s[i]])

Statements ==
    {<<"h2frames">> \o Written(frames) : frames \in MCWanted}
        \cup {<<"h2frames">> \o tokens : tokens \in
                {<<"x">>, <<"[">>, <<"[", "]">>, <<"[", "type">>, <<"[", "type", "300">>,
                 <<"[", "type", "x">>, <<"[", "flags", "x">>, <<"[", "flags", "{">>,
                 <<"[", "flags", "{", "x">>, <<"[", "id", "x">>, <<"[", "id">>,
                 <<"[", "payload">>, <<"[", "payload", "\\u20ac">>,
                 <<"[", "type", "ping", "id", "-1", "]">>,
                 <<"[", "type", "ping", "flags", "{", "ack", "}", "x", "]", "pri">>}}

MCLines ==
    Statements
        \cup {Piped(<<x, y>>) : x, y \in Commands}
        \cup {Piped(<<x, y, z>>) : x \in Sent, y, z \in Commands}
        \cup {Piped(<<<<"payload", "x">>, x, y, z>>) :
                  x \in {<<"transduce", "t">>, <<"h2fanout", "b">>, <<"h2frames", "pri">>},
                  y, z \in Commands \ {<<>>}}
        \cup {Piped(<<x, y>>) \o <<";">> \o Piped(<<z>>) : x \in Sent, y \in Bare, z \in Named}
=============================================================================
