------------------------------ MODULE MCQuirks ------------------------------
(* Two servers; each differs from a plain one in one or two ways.          *)
EXTENDS Quirks

MCNames == {"host", "x-a", "x_a", "a-b", "a_b", "test", "content-length", "content_length"}
MCTranslated ==
    [n \in MCNames |-> CASE n = "x-a" -> "x_a" [] n = "a-b" -> "a_b"
                         [] n = "content-length" -> "content_length" [] OTHER -> n]
MCLengths == {"content-length", "content_length"}

Plain == [accepts |-> Methods \cup OtherMethods, reports |-> "own", strict |-> FALSE,
          hostless |-> FALSE, oneShot |-> FALSE, needsLength |-> FALSE, no10 |-> FALSE,
          on09 |-> "400", speaks2 |-> FALSE, silent |-> FALSE, renames |-> FALSE, joins |-> FALSE,
          adds |-> {}, removes |-> {}, trashes |-> {}, reads |-> "c"]

DiffersIn(b, field, value) == [b EXCEPT ![field] = value]

Ways == {<<"accepts", {"GET", "POST"}>>, <<"accepts", {"GET", "DELETE", "POST", "GET#", "0"}>>,
         <<"accepts", {"GET", "DELETE", "POST", "SLUDGE", "0"}>>,
         <<"accepts", {"GET", "DELETE", "POST", "SLUDGE", "GET#"}>>,
         <<"reports", "none">>, <<"reports", "1.1">>, <<"strict", TRUE>>, <<"hostless", TRUE>>,
         <<"oneShot", TRUE>>, <<"needsLength", TRUE>>, <<"no10", TRUE>>, <<"silent", TRUE>>,
         <<"on09", "full">>, <<"on09", "raw">>, <<"on09", "505">>, <<"speaks2", TRUE>>,
         <<"renames", TRUE>>, <<"joins", TRUE>>, <<"adds", {"x-a"}>>, <<"adds", {"test"}>>,
         <<"removes", {"x-a"}>>, <<"trashes", {"host"}>>, <<"reads", "d">>}

OneWay == {DiffersIn(Plain, w[1], w[2]) : w \in Ways} \cup {Plain}
TwoWays == OneWay \cup {DiffersIn(DiffersIn(Plain, v[1], v[2]), w[1], w[2]) : v, w \in Ways}

Pairs(one, other) == {[s \in {"s1", "s2"} |-> IF s = "s1" THEN b1 ELSE b2] : b1 \in one, b2 \in other}

PlainPairs == Pairs(OneWay, OneWay)

TwoWaysPairs == Pairs(TwoWays, OneWay)
=============================================================================
