------------------------------- MODULE MCGrid -------------------------------
(***************************************************************************)
(* Line-ups for Grid: profiles of quirks as quirks.yml has them, each with *)
(* answers chosen so that every excuse and every verdict occurs.           *)
(***************************************************************************)
EXTENDS Grid

MCNames == {"host", "x-a", "x_a", "content-length"}
MCTranslated == [n \in MCNames |-> IF n = "x-a" THEN "x_a" ELSE n]
MCLengths == {"content-length"}

Plain == [noPersistence |-> FALSE, allows09 |-> FALSE, needsLength |-> FALSE,
          allowsNoHost |-> FALSE, refused |-> {}, added |-> {}, removed |-> {},
          trashed |-> {}, translates |-> FALSE, joins |-> FALSE, joiner |-> 0]

Profile(name) ==
    CASE name = "plain"      -> Plain
      [] name = "joins"      -> [Plain EXCEPT !.joins = TRUE]
      [] name = "translates" -> [Plain EXCEPT !.translates = TRUE]
      [] name = "adds"       -> [Plain EXCEPT !.added = {"x-a", "content-length"}]
      [] name = "waitress"   -> [Plain EXCEPT !.translates = TRUE, !.removed = {"x-a"}]
      [] name = "single"     -> [Plain EXCEPT !.noPersistence = TRUE]
      [] name = "old"        -> [Plain EXCEPT !.allows09 = TRUE]
      [] name = "strict"     -> [Plain EXCEPT !.needsLength = TRUE, !.refused = {"GET"}]
      [] name = "lax"        -> [Plain EXCEPT !.allowsNoHost = TRUE]

Headers(given) == [n \in MCNames |-> IF n \in DOMAIN given THEN given[n] ELSE <<>>]
Request(method, given) ==
    [kind |-> "request", valid |-> TRUE, method |-> method, version |-> "1.1",
     content |-> "c", headers |-> Headers(given)]
Response(code) == [kind |-> "response", code |-> code]

Host == "host" :> <<<<9>>>>
Answer(name) ==
    CASE name = "get"      -> Request("GET", Host)
      [] name = "ab"       -> Request("GET", Host @@ ("x_a" :> <<<<1>>, <<2>>>>))
      [] name = "ba"       -> Request("GET", Host @@ ("x_a" :> <<<<2>>, <<1>>>>))
      [] name = "joined"   -> Request("GET", Host @@ ("x_a" :> <<<<1, 0, 2>>>>))
      [] name = "joined21" -> Request("GET", Host @@ ("x_a" :> <<<<2, 0, 1>>>>))
      [] name = "hyphen"   -> Request("GET", Host @@ ("x-a" :> <<<<1>>>>))
      [] name = "score"    -> Request("GET", Host @@ ("x_a" :> <<<<1>>>>))
      [] name = "trashed"  -> Request("GET", Host @@ ("x_a" :> <<<<2>>>>))
      [] name = "length"   -> Request("GET", Host @@ ("content-length" :> <<<<0>>>>))
      [] name = "post"     -> Request("POST", Host)
      [] name = "nohost"   -> Request("POST", <<>>)
      [] name = "versionless" -> [Request("GET", Host) EXCEPT !.version = ""]
      [] name = "0.9"      -> [Request("GET", <<>>) EXCEPT !.version = "0.9"]
      [] name = "invalid"  -> [Request("GET", Host) EXCEPT !.valid = FALSE]
      [] name = "400"      -> Response(400)
      [] name = "411"      -> Response(411)
      [] name = "200"      -> Response(200)

(* n servers, each with at most max answers.                               *)
LineupsOf(n, profiles, answers, max) ==
    [1 .. n -> [server : {Profile(p) : p \in profiles},
                pts : BoundedSeq({Answer(a) : a \in answers}, max)]]

(* Streams of two answers, cut short by a server without persistence.      *)
Pairs == LineupsOf(2, {"plain", "joins", "waitress", "single"},
                   {"ba", "joined", "hyphen", "invalid", "400", "200"}, 2)

(* A third server, in whose comparisons the others' answers are sorted.    *)
Trios == LineupsOf(3, {"plain", "joins", "strict", "old"},
                   {"ba", "joined", "0.9", "invalid", "411"}, 1)

(* Every quirk against every answer.                                       *)
Excuses == LineupsOf(2, {"plain", "joins", "translates", "adds", "waitress", "single",
                         "old", "strict", "lax"},
                     {"get", "ab", "ba", "joined", "hyphen", "score", "trashed", "length",
                      "post", "nohost", "versionless", "0.9", "invalid", "400", "411", "200"}, 1)

AllLineups == Pairs \cup Trios \cup Excuses

JoinedLineups == LineupsOf(2, {"plain", "joins"}, {"ab", "ba", "joined", "joined21"}, 1)
=============================================================================
