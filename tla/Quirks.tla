------------------------------- MODULE Quirks -------------------------------
(***************************************************************************)
(* tools/probe_quirks.py: finding out in which benign ways each server     *)
(* differs from others, and quirks.yml, which hands the result to the next *)
(* process (targets.py) and to the comparison of answers (Diff).           *)
(*                                                                         *)
(* The servers are external: what one does with a request is a behaviour,  *)
(* a record of the ways in which it may differ that the probes ask about.  *)
(* A probe is a request, and what it finds is computed from the answers.   *)
(***************************************************************************)
EXTENDS Diff

CONSTANTS
    Servers,
    Behaviours,     \* what the servers may do, each of them
    MaxProbes       \* bound: how often the script is run

Methods == {"GET", "DELETE", "POST"}            \* METHODS
OtherMethods == {"SLUDGE", "GET#", "0"}         \* what else the probes send

(* accepts: methods; strict: only its own name as Host; hostless: 1.1      *)
(* without Host; oneShot: one answer per connection; needsLength: in POST; *)
(* reports: the version sent, none, or always 1.1; no10: rejects HTTP/1.0; *)
(* on09: what it does with HTTP/0.9, answering with or without a status    *)
(* line or rejecting it; speaks2: HTTP/2 to who begins with its preface;   *)
(* silent: rejects by closing; renames: "-" to "_"; joins: duplicates come *)
(* joined; adds, removes, trashes: headers so called; reads: the content   *)
(* it sees in a request behind another, which alone is not benign.         *)
BehaviourType ==
    [accepts : SUBSET (Methods \cup OtherMethods), reports : {"own", "none", "1.1"},
     strict : BOOLEAN, hostless : BOOLEAN, oneShot : BOOLEAN, needsLength : BOOLEAN,
     no10 : BOOLEAN, on09 : {"full", "raw", "400", "505"}, speaks2 : BOOLEAN, silent : BOOLEAN, renames : BOOLEAN, joins : BOOLEAN,
     adds : SUBSET Names, removes : SUBSET Names, trashes : SUBSET Names,
     reads : {"c", "d"}]

ASSUME QuirksAssumption ==
    /\ Behaviours \subseteq [Servers -> BehaviourType]
    /\ {"host", "a-b", "a_b", "test", "x-a", "content-length"} \subseteq Names
    /\ MaxProbes \in Nat

VARIABLES
    behaviour,      \* each server's, for good
    file,           \* quirks.yml: <<>>, empty, or <<each server's quirks>>
    loaded,         \* each Server object's quirks
    phase,          \* where main is
    diagnosis,      \* what diagnose_quirks returned: <<>>, or an outcome and quirks
    probes          \* how often it has run

vars == <<behaviour, file, loaded, phase, diagnosis, probes>>

-----------------------------------------------------------------------------
(* Requests, and what a server makes of them.                              *)

Comma == "," 

Ask(method, version, given) ==
    [method |-> method, version |-> version,
     headers |-> [n \in Names |-> IF n \in DOMAIN given THEN given[n] ELSE <<>>]]

HostA == "host" :> <<<<"a">>>>

(* adjust_host_header rewrites the Host lines there are.                   *)
Adjusted(s, q, quirks) ==
    IF quirks.strict
      THEN [q EXCEPT !.headers["host"] = [i \in DOMAIN @ |-> <<s>>]]
      ELSE q

(* The codes of the reasons b has to reject q; it gives the least.         *)
RefusedWith(b, s, q) ==
    LET host == q.headers["host"]
        reasons == {<<405, q.method \notin b.accepts>>,
                    <<400, q.version = "0.9" /\ b.on09 = "400">>,
                    <<505, q.version = "0.9" /\ b.on09 = "505">>,
                    <<505, b.no10 /\ q.version = "1.0">>,
                    <<400, host = <<>> /\ ~b.hostless /\ q.version = "1.1">>,
                    <<400, b.strict /\ host \notin {<<>>, <<<<s>>>>}>>,
                    <<411, b.needsLength /\ q.method = "POST" /\ q.headers["content-length"] = <<>>>>}
    IN  {r[1] : r \in {r \in reasons : r[2]}}

Understood(b, q, isFirst) ==
    LET passed == [n \in Names |-> IF n \in b.removes THEN <<>>
                                   ELSE IF n \in b.trashes /\ q.headers[n] # <<>> THEN <<<<"trash">>>>
                                   ELSE q.headers[n]]
        added == [n \in Names |-> IF n \in b.adds /\ passed[n] = <<>> THEN <<<<"added">>>> ELSE passed[n]]
        joined == [n \in Names |-> IF b.joins THEN Joined(added[n], Comma) ELSE added[n]]
        renamed == [n \in Names |-> FoldSet(LAMBDA m, all : all \o joined[m], <<>>,
                                            {m \in Names : Translated[m] = n})]
    IN  [kind |-> "request", valid |-> TRUE, method |-> q.method,
         content |-> IF isFirst THEN "c" ELSE b.reads,
         version |-> CASE b.reports = "own" -> q.version [] b.reports = "none" -> ""
                       [] b.reports = "1.1" -> "1.1",
         headers |-> IF b.renames THEN renamed ELSE joined]

(* A stream is answered up to the first request that is rejected.  What    *)
(* HTTP/0.9 gives without a status line parsed_roundtrip drops.            *)
Answers(b, s, stream, quirks) ==
    LET q == [i \in DOMAIN stream |-> Adjusted(s, stream[i], quirks)]
        refused == {i \in DOMAIN q : RefusedWith(b, s, q[i]) # {}}
        last == IF refused = {} THEN Len(q) ELSE Min(refused)
        answer(i) == IF q[i].version = "0.9" /\ b.on09 = "raw" THEN <<>>
                     ELSE IF i \notin refused THEN <<Understood(b, q[i], i = 1)>>
                     ELSE IF b.silent THEN <<>>
                     ELSE <<[kind |-> "response", code |-> Min(RefusedWith(b, s, q[i]))]>>
        all == FlattenSeq([i \in 1 .. last |-> answer(i)])
    IN  IF b.oneShot /\ all # <<>> THEN <<all[1]>> ELSE all

-----------------------------------------------------------------------------
(* The probes of one server, by the Server object's quirks as they are.    *)

Probe(s, stream) == Answers(behaviour[s], s, stream, loaded[s])

Get(given) == Ask("GET", "1.1", given)
IsOneRequest(pts) == Len(pts) = 1 /\ IsRequest(pts[1])

(* requires_specific_host_header and fails_sanity_check alike.             *)
Fails(s) == ~IsOneRequest(Probe(s, <<Get(HostA)>>))

(* The first line of what "GET /" gives is not empty and has no "400".     *)
AllowsHttp09(s) ==
    \/ behaviour[s].on09 \in {"full", "raw"}
    \/ ~behaviour[s].silent /\ behaviour[s].on09 # "400"

(* What the preface gives parses as frames; so does nothing at all.        *)
AllowsHttp2(s) == behaviour[s].speaks2 \/ behaviour[s].silent

(* Wrong: two answers are taken for one too many.                          *)
TwoAnswersAreTooMany(s) == Len(Probe(s, <<Get(HostA), Get(HostA)>>)) # 1

DoesntSupportPersistence(s) ==
    LET pts == Probe(s, <<Get(HostA), Get(HostA)>>)
    IN  Len(pts) # 2 \/ \E i \in DOMAIN pts : ~IsRequest(pts[i])

AllowsMissingHost(s) == IsOneRequest(Probe(s, <<Get(<<>>)>>))

Accepted(s, method) == IsOneRequest(Probe(s, <<Ask(method, "1.1", HostA)>>))

HasWhitelist(s) == ~Accepted(s, "SLUDGE")
Whitelist(s) == {m \in Methods : Accepted(s, m)}

(* A character is blacklisted by a response, not by silence.               *)
Blacklisted(s) == \E i \in DOMAIN Probe(s, <<Ask("GET#", "1.1", HostA)>>) :
                     IsResponse(Probe(s, <<Ask("GET#", "1.1", HostA)>>)[i])

RefusedMethods(s) ==
    IF HasWhitelist(s) THEN (Methods \cup OtherMethods) \ Whitelist(s)
    ELSE IF Blacklisted(s) THEN {"GET#"} ELSE {}

Renames(s) == Probe(s, <<Get(HostA @@ ("a-b" :> <<<<"test">>>>))>>)[1].headers["a_b"] # <<>>

NamesIn(pts) == {n \in Names : \E i \in DOMAIN pts : IsRequest(pts[i]) /\ pts[i].headers[n] # <<>>}

AddedHeaders(s) ==
    (NamesIn(Probe(s, <<Get(HostA)>>)) \ {"host"})
        \cup (IF ~HasWhitelist(s) \/ "DELETE" \in Whitelist(s)
                THEN NamesIn(Probe(s, <<Ask("DELETE", "1.1", HostA)>>)) \ {"host"} ELSE {})
        \cup (IF AllowsMissingHost(s) THEN NamesIn(Probe(s, <<Get(<<>>)>>)) ELSE {})

(* The names of given whose value does not come back, under the name the   *)
(* server is known to translate it to; recorded as they were sent.         *)
NotReturned(s, given) ==
    {n \in DOMAIN given :
        LET returned == Probe(s, <<Get(HostA @@ given)>>)[1].headers
            name == IF Renames(s) THEN Translated[n] ELSE n
        IN  \A i \in DOMAIN returned[name] : returned[name][i] # given[n][1]}

RemovedHeaders(s) == NotReturned(s, "x-a" :> <<<<"x">>>>) \cup NotReturned(s, "content-length" :> <<<<"0">>>>)
TrashedHeaders(s) == NotReturned(s, HostA)

(* Wrong: the 411 of a server that wants a length counts as acceptance.    *)
RequiresLengthBySilence(s) == Probe(s, <<Ask("POST", "1.1", HostA)>>) = <<>>

RequiresLength(s) == ~IsOneRequest(Probe(s, <<Ask("POST", "1.1", HostA)>>))

JoinsDuplicates(s) ==
    Len(Probe(s, <<Get(HostA @@ ("test" :> <<<<"1">>, <<"2">>>>))>>)[1].headers["test"]) = 1

(* What makes diagnose_quirks raise: an answer that a probe is not ready   *)
(* for.  The other probes send what the sanity check has seen accepted.    *)
ProbeRaises(s) ==
    LET with == Probe(s, <<Ask("GET", "1.0", HostA)>>)
        without == Probe(s, <<Ask("GET", "1.0", <<>>)>>)
        pts == IF Len(with) = 1 THEN with ELSE without
    IN  \/ Fails(s)
        \/ pts # <<>> /\ IsResponse(pts[1])
        \/ ~HasWhitelist(s) /\ Len(Probe(s, <<Ask("0", "1.1", HostA)>>)) # 1
        \/ ~HasWhitelist(s) /\ ~Accepted(s, "DELETE")

NoQuirks == [strict |-> FALSE, noPersistence |-> FALSE, allowsNoHost |-> FALSE, refused |-> {},
             translates |-> FALSE, added |-> {}, removed |-> {}, trashed |-> {},
             needsLength |-> FALSE, joins |-> FALSE, joiner |-> "", allows09 |-> FALSE, allows2 |-> FALSE]

(* Wrong: the server is asked again, now that its Host is adjusted.        *)
DiagnoseHostsAgain(s) ==
    [strict |-> Fails(s), noPersistence |-> DoesntSupportPersistence(s),
     allowsNoHost |-> AllowsMissingHost(s), refused |-> RefusedMethods(s),
     translates |-> Renames(s), added |-> AddedHeaders(s), removed |-> RemovedHeaders(s),
     trashed |-> TrashedHeaders(s), needsLength |-> RequiresLength(s),
     joins |-> JoinsDuplicates(s), joiner |-> IF JoinsDuplicates(s) THEN Comma ELSE "",
     allows09 |-> AllowsHttp09(s), allows2 |-> AllowsHttp2(s)]

DiagnoseQuirks(s) ==
    [strict |-> loaded[s].strict, noPersistence |-> DoesntSupportPersistence(s),
     allowsNoHost |-> AllowsMissingHost(s), refused |-> RefusedMethods(s),
     translates |-> Renames(s), added |-> AddedHeaders(s), removed |-> RemovedHeaders(s),
     trashed |-> TrashedHeaders(s), needsLength |-> RequiresLength(s),
     joins |-> JoinsDuplicates(s), joiner |-> IF JoinsDuplicates(s) THEN Comma ELSE "",
     allows09 |-> AllowsHttp09(s), allows2 |-> AllowsHttp2(s)]

-----------------------------------------------------------------------------
(* main                                                                    *)

Empty == <<>>
QuirksIn(yml) == IF yml = Empty THEN [s \in Servers |-> NoQuirks] ELSE yml[1]

Init ==
    /\ behaviour \in Behaviours
    /\ file = Empty
    /\ loaded = QuirksIn(file)
    /\ phase = "idle"
    /\ diagnosis = [s \in Servers |-> <<>>]
    /\ probes = 0

(* The shell empties a file the output is redirected to before targets.py  *)
(* reads it; garden.sh has the output written to another file.             *)
Start ==
    /\ phase = "idle" /\ probes < MaxProbes
    /\ probes' = probes + 1
    /\ file' \in {Empty, file}
    /\ loaded' = QuirksIn(file')
    /\ diagnosis' = [s \in Servers |-> <<>>]
    /\ phase' = "hosts"
    /\ UNCHANGED behaviour

(* Every server is asked before the first is marked.                       *)
RequireHosts ==
    /\ phase = "hosts"
    /\ loaded' = [s \in Servers |-> [loaded[s] EXCEPT !.strict = Fails(s)]]
    /\ phase' = "sanity"
    /\ UNCHANGED <<behaviour, file, diagnosis, probes>>

CheckSanity ==
    /\ phase = "sanity"
    /\ phase' = IF \E s \in Servers : Fails(s) THEN "idle" ELSE "diagnose"
    /\ UNCHANGED <<behaviour, file, loaded, diagnosis, probes>>

(* One thread of the pool.                                                 *)
Diagnose(s) ==
    /\ phase = "diagnose" /\ diagnosis[s] = <<>>
    /\ diagnosis' = [diagnosis EXCEPT ![s] = IF ProbeRaises(s) THEN <<"raise", NoQuirks>>
                                                  ELSE <<"quirks", DiagnoseQuirks(s)>>]
    /\ UNCHANGED <<behaviour, file, loaded, phase, probes>>

Diagnosed == phase = "diagnose" /\ \A s \in Servers : diagnosis[s] # <<>>
Raised == \E s \in Servers : diagnosis[s][1] = "raise"

(* One exception, and nothing is printed of any server.                    *)
Abort ==
    /\ Diagnosed /\ Raised
    /\ phase' = "idle"
    /\ UNCHANGED <<behaviour, file, loaded, diagnosis, probes>>

(* The file is written by the shell or moved into place by garden.sh.      *)
PrintQuirks ==
    /\ Diagnosed /\ ~Raised
    /\ file' = <<[s \in Servers |-> diagnosis[s][2]]>>
    /\ phase' = "idle"
    /\ UNCHANGED <<behaviour, loaded, diagnosis, probes>>

Next ==
    \/ Start \/ RequireHosts \/ CheckSanity
    \/ \E s \in Servers : Diagnose(s)
    \/ Abort \/ PrintQuirks

Spec == Init /\ [][Next]_vars

-----------------------------------------------------------------------------
(* What the quirks are for: the next process compares the answers of the   *)
(* same servers by them.                                                   *)

(* Payloads that differ in what the probes ask about.                      *)
Payloads ==
    LET get == Get(HostA)
        one == {get, Get(<<>>), Get(HostA @@ ("x-a" :> <<<<"x">>>>)), Get("x-a" :> <<<<"x">>>>),
                Get(HostA @@ ("x-a" :> <<<<"y">>, <<"x">>>>)), Get(HostA @@ ("a-b" :> <<<<"test">>>>)),
                Get(HostA @@ ("test" :> <<<<"1">>, <<"2">>>>)), Ask("GET", "1.0", HostA),
                Ask("GET", "1.0", <<>>), Ask("POST", "1.1", HostA),
                Ask("POST", "1.1", HostA @@ ("content-length" :> <<<<"0">>>>))}
               \cup {Ask(m, "1.1", HostA) : m \in {"DELETE"} \cup OtherMethods}
    IN  {<<q>> : q \in one} \cup {<<q, get>> : q \in one} \cup {<<Ask("GET", "0.9", <<>>)>>}

AnswersTo(stream) == [s \in Servers |-> Answers(behaviour[s], s, stream, file[1][s])]
Judged(pts, s1, s2) == CategorizeDiscrepancy(pts[s1], pts[s2], file[1][s1], file[1][s2])

(* Asked without adjustment, s does not take a Host that is not its own.   *)
NeedsItsOwnHost(s) == ~IsOneRequest(Answers(behaviour[s], s, <<Get(HostA)>>, NoQuirks))

(* A refusal by any other code than 400 is taken for an answer to HTTP/0.9 *)
(* (probe_quirks.py:69), and a connection closed at the preface for        *)
(* HTTP/2 (103-104).                                                       *)
PassesFor09(s) == behaviour[s].on09 = "505" /\ ~behaviour[s].silent
PassesFor2(s) == behaviour[s].silent

(* Whatever probe printed it, from whatever earlier file, a quirks.yml has *)
(* every server (eager_pmap raises at probe_quirks.py:336 what one probe   *)
(* raised, and nothing is printed), says which want a Host of their own,   *)
(* though the probes themselves were adjusted (327-336), and says which    *)
(* protocols each accepts, with the two ways above, and no others, to be   *)
(* recorded as accepting one that it does not.                             *)
RecordedAsItIs ==
    file # Empty =>
        /\ DOMAIN file[1] = Servers
        /\ \A s \in Servers :
            /\ file[1][s].strict = NeedsItsOwnHost(s)
            /\ file[1][s].allows09 = (behaviour[s].on09 \in {"full", "raw"} \/ PassesFor09(s))
            /\ file[1][s].allows2 = (behaviour[s].speaks2 \/ PassesFor2(s))

(* A server that rejects by closing, or whose HTTP/0.9 is dropped, is at   *)
(* worst reported for the length of its stream: diff.py:74 comes before    *)
(* the excuses.                                                            *)
Quiet(s) == behaviour[s].silent \/ behaviour[s].on09 = "raw"

Benign(s1, s2) ==
    IF Quiet(s1) \/ Quiet(s2)
      THEN {"OK", "RESPONSE_DISCREPANCY", "STREAM_DISCREPANCY"}
      ELSE {"OK", "RESPONSE_DISCREPANCY"}

(* The server named second is the one that accepts an HTTP/0.9 request:    *)
(* diff.py:82 asks whether it allows that, and not the other.              *)
AsksTheWrongOne(stream, s1, s2) ==
    stream[1].version = "0.9" /\ file[1][s2].allows09 /\ ~file[1][s1].allows09

(* Benign differences that are reported all the same, the payload telling: *)
(* a server that answers every version with its own (recorded at           *)
(* probe_quirks.py:265 and loaded at targets.py:137, but diff.py never     *)
(* looks), one that wants letters in a method (279; targets.py does not    *)
(* load it), one that refuses HTTP/0.9 and passes for accepting it, or     *)
(* answers it with a request that has no version, and one that renames a   *)
(* header it adds, which is recorded under a name diff.py renames again.   *)
ReportedAllTheSame(s, stream) ==
    LET b == behaviour[s]
    IN  \/ b.reports = "1.1" /\ \E i \in DOMAIN stream : stream[i].version # "1.1"
        \/ "SLUDGE" \in b.accepts /\ "0" \notin b.accepts /\ stream[1].method = "0"
        \/ PassesFor09(s) /\ stream[1].version = "0.9"
        \/ b.on09 = "full" /\ b.reports = "none" /\ stream[1].version = "0.9"
        \/ b.renames /\ \E n \in b.adds : Translated[n] # n

(* Whatever two servers' benign differences, their quirks as probed make   *)
(* the comparison of their answers ignore them: what each probe of         *)
(* probe_quirks.py records is what diff.py needs to excuse the payload,    *)
(* but for the HTTP/0.9 request and the five cases above.                  *)
BenignIgnored ==
    phase = "idle" /\ file # Empty =>
        \A stream \in Payloads :
            LET pts == AnswersTo(stream)
            IN  \A s1, s2 \in Servers :
                    /\ s1 # s2 /\ behaviour[s1].reads = behaviour[s2].reads
                    /\ ~AsksTheWrongOne(stream, s1, s2)
                    /\ \A s \in {s1, s2} : ~ReportedAllTheSame(s, stream)
                    => Judged(pts, s1, s2) \in Benign(s1, s2)

(* "If one server parsed a request as HTTP/0.9, and the other doesn't      *)
(* allow 0.9, that's okay" (diff.py:79), whichever is named first.         *)
RefusalOf09Ignored ==
    phase = "idle" /\ file # Empty =>
        LET pts == AnswersTo(<<Ask("GET", "0.9", <<>>)>>)
        IN  \A s1, s2 \in Servers :
                /\ Len(pts[s1]) = 1 /\ IsRequest(pts[s1][1])
                /\ Len(pts[s2]) = 1 /\ IsResponse(pts[s2][1]) /\ ~file[1][s2].allows09
                => Judged(pts, s1, s2) = "OK" /\ Judged(pts, s2, s1) = "OK"

AnsweredInFull(pts, stream) ==
    Len(pts) = Len(stream) /\ \A i \in DOMAIN pts : IsRequest(pts[i])

(* No probe takes too much for a quirk: two servers that answer both       *)
(* requests of a stream and read the second differently are reported,      *)
(* whatever else was found about them (diff.py:62-64 drops all but the     *)
(* first answer of a server said not to support persistence).              *)
RealDiscrepanciesShown ==
    phase = "idle" /\ file # Empty =>
        \A stream \in {p \in Payloads : Len(p) > 1} :
            LET pts == AnswersTo(stream)
            IN  \A s1, s2 \in Servers :
                    /\ behaviour[s1].reads # behaviour[s2].reads
                    /\ AnsweredInFull(pts[s1], stream) /\ AnsweredInFull(pts[s2], stream)
                    => Judged(pts, s1, s2) # "OK"
=============================================================================
