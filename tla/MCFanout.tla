------------------------------ MODULE MCFanout ------------------------------
(* An instance of Fanout: three servers of which one has TLS and a payload *)
(* of no pieces, for the pool; one server, with TLS or without, and three  *)
(* pieces, for the roundtrip; two servers and a piece; and no server.      *)
(* Answers are parsed, but for one call of one server.                     *)
EXTENDS Fanout

MCCalls ==
    {[servers |-> 3, tls |-> {3}, pieces |-> 0, maxout |-> 1, parses |-> TRUE],
     [servers |-> 2, tls |-> {}, pieces |-> 1, maxout |-> 1, parses |-> TRUE],
     [servers |-> 0, tls |-> {}, pieces |-> 1, maxout |-> 0, parses |-> TRUE]}
        \cup {[servers |-> 1, tls |-> t, pieces |-> 3, maxout |-> 4, parses |-> t = {}] :
                    t \in SUBSET {1}}
=============================================================================
