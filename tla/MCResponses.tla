---------------------------- MODULE MCResponses -----------------------------
(* Instances of Responses: streams of up to three units.  The body of an   *)
(* error response is never looked at, except as an error page.             *)
EXTENDS Responses

MCUnits == {u \in Units : u.kind = "message" /\ u.code = 400 => u.body = "html"}

Streams2 == {<<>>} \cup {<<u>> : u \in MCUnits} \cup {<<u, v>> : u, v \in MCUnits}
Streams3 == Streams2 \cup {<<u, v, w>> : u, v, w \in MCUnits}
=============================================================================
