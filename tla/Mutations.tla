----------------------------- MODULE Mutations -----------------------------
(* tools/mutations.py: mutate(), which makes one random change to a payload, *)
(* a list of streams, and the thirteen changes it chooses from.  The five    *)
(* that work on requests read the stream with parse_request_stream of        *)
(* tools/http1.py and write every request of it anew.                        *)
(*                                                                           *)
(* The text of a stream is a sequence of units, each a whole line with its   *)
(* line end.  What the code does byte by byte (an edit, a Content-Length,    *)
(* the length of a chunk, a cut) is done here unit by unit.  The parser is   *)
(* the code's, down to a request line that runs over line ends: the pattern  *)
(* only asks for two words and white space.                                  *)
EXTENDS Integers, Sequences, SequencesExt, FiniteSets, FiniteSetsExt

CONSTANTS
    Payloads,   \* the payloads mutate is first called with
    Inserted,   \* the units a byte edit may write
    MaxCalls,   \* bound: how often the result is mutated again
    MaxUnits    \* bound: a longer payload is not mutated again

VARIABLES
    payload,    \* s, the list of streams
    mutations,  \* the mutations that are left in this call; all, between calls
    pc,         \* "called", "returned", or the exception that came out
    calls,      \* how many calls there were
    applied     \* the mutation that returned, its argument, the stream and request it took
vars == <<payload, mutations, pc, calls, applied>>

-----------------------------------------------------------------------------
(* The units.  "GET / \r\n" has no version; a header without a name is the   *)
(* line ": \r\n".                                                            *)
Line(method, version) == <<"line", method, version>>
Length(n)   == <<"length", n>>         \* Content-Length; -1 for what is no number
Coding(c)   == <<"coding", c>>         \* Transfer-Encoding
GzipHeader  == <<"content-encoding">>  \* Content-Encoding: gzip
Header(k)   == <<"header", k>>         \* any other header, with a value
EmptyHeader == <<"empty">>             \* Test, whose value is empty
Nameless    == <<"nameless">>
Eol         == <<"eol">>
Size(n)     == <<"size", n>>           \* the line before a chunk
Data        == <<"data">>              \* a line of one word
Zipped      == <<"zipped">>            \* what gzip makes of two lines of data

Headers(u) == u[1] \in {"length", "coding", "content-encoding", "header", "empty"}

Words(u) ==
    CASE u[1] = "eol"  -> 0
      [] u[1] = "line" -> IF u[3] = "none" THEN 2 ELSE 3
      [] u[1] \in {"size", "data", "zipped", "empty", "nameless"} -> 1
      [] OTHER -> 2

METHODS == {"GET", "PUT"}
SEED_HEADERS == {Length(0), Coding("chunked"), Coding("identity"), Nameless,
                  EmptyHeader, Header("connection")}

-----------------------------------------------------------------------------
(* tools/http1.py.  Positions are in the text of the whole stream.           *)

Fails(error) == [error |-> error, value |-> <<>>, next |-> 0]
Gives(value, next) == [error |-> "none", value |-> value, next |-> next]
Then(r, Go(_)) == IF r.error = "none" THEN Go(r) ELSE r
Prepend(front, r) == [r EXCEPT !.value = front \o @]

\* The first unit from i on that is not an empty line.
AfterBlank(s, i) == Min({j \in i..Len(s) : s[j] # Eol} \cup {Len(s) + 1})

\* What the pattern of the request line matches at i: the position after it,
\* or 0.  With a version it is one line; without, all the white space that
\* follows the two words belongs to it, empty lines too.
AfterRequestLine(s, i) ==
    LET Second(j) == IF j <= Len(s) /\ Words(s[j]) = 1 THEN AfterBlank(s, j + 1) ELSE 0
    IN  CASE Words(s[i]) = 3 -> i + 1
          [] Words(s[i]) = 2 -> AfterBlank(s, i + 1)
          [] Words(s[i]) = 1 -> Second(AfterBlank(s, i + 1))
          [] OTHER -> 0

\* The first empty line from i on, 0 if there is none.
BlankLine(s, i) ==
    LET after == {j \in i..Len(s) : s[j] = Eol} IN IF after = {} THEN 0 ELSE Min(after)

ParseHeaders(s, i) ==
    LET UpTo(end) ==
            IF end = 0 \/ \E j \in i..end - 1 : ~Headers(s[j])
            THEN Fails("ValueError")
            ELSE Gives(SubSeq(s, i, end - 1), end + 1)
    IN  UpTo(BlankLine(s, i))

\* The loop over the chunks, from the one at i on.
ParseChunks(s, i) ==
    LET Chunk[j \in 1..Len(s) + 1] ==
            LET Upto(end) ==
                    IF end > Len(s) \/ s[end] # Eol THEN Fails("ValueError")
                    ELSE IF end = j + 1 THEN Gives(<<>>, end + 1)
                    ELSE Prepend(SubSeq(s, j + 1, end - 1), Chunk[end + 1])
            IN  IF j > Len(s) \/ s[j][1] # "size"
                THEN Fails("ValueError")
                ELSE Upto(j + s[j][2] + 1)
    IN  Chunk[i]

\* gzip.decompress: of nothing it makes nothing.
Decompress(body, next) ==
    IF Range(body) \subseteq {Zipped}
    THEN Gives([j \in 1..2 * Len(body) |-> Data], next)
    ELSE Fails("BadGzipFile")

\* parse_body, of a request.  The last Content-Length counts, and it counts
\* for as much as there is left.
ParseBody(headers, s, i) ==
    LET lengths == SelectSeq(headers, LAMBDA u : u[1] = "length")
        zipped  == GzipHeader \in Range(headers)
        Taken(next) ==
            IF zipped THEN Decompress(SubSeq(s, i, next - 1), next) ELSE Gives(SubSeq(s, i, next - 1), next)
        chunked == Coding("chunked") \in Range(headers)
    IN  CASE Length(-1) \in Range(headers) \/ (chunked /\ zipped) -> Fails("ValueError")
          [] chunked /\ ~zipped -> ParseChunks(s, i)
          [] lengths = <<>> /\ ~chunked -> Gives(<<>>, i)
          [] OTHER -> Taken(Min({i + Last(lengths)[2], Len(s) + 1}))

ParseRequest(s, i) ==
    IF AfterRequestLine(s, i) = 0 THEN Fails("ValueError")
    ELSE Then(ParseHeaders(s, AfterRequestLine(s, i)), LAMBDA headers :
         Then(ParseBody(headers.value, s, headers.next), LAMBDA body :
              Gives([method  |-> IF s[i][1] = "line" THEN s[i][2] ELSE "word",
                     version |-> IF Words(s[i]) = 3 THEN s[i][3] ELSE "0.9",
                     headers |-> headers.value,
                     body    |-> body.value], body.next)))

\* Stops at what is no request; an exception other than ValueError comes out.
ParseRequestStream(s) ==
    LET From[i \in 1..Len(s) + 1] ==
            LET Rest(first) ==
                    IF first.error = "ValueError" THEN Gives(<<>>, i)
                    ELSE Then(first, LAMBDA r : Prepend(<<r.value>>, From[r.next]))
            IN  IF i > Len(s) THEN Gives(<<>>, i) ELSE Rest(ParseRequest(s, i))
    IN  From[1]

-----------------------------------------------------------------------------
(* Writing requests.  What is random makes a set of texts; the extension a   *)
(* chunk may carry changes nothing for a reader and is left out.             *)

RandomlyChunk(data) ==
    LET n == Len(data)
        Cut[i \in 0..n] ==
            IF i = n THEN {<<>>}
            ELSE UNION {{<<Size(j - i)>> \o SubSeq(data, i + 1, j) \o <<Eol>> \o more :
                             more \in Cut[j]} : j \in i + 1..n}
        trailers == IF n = 0 THEN {<<>>} ELSE {<<>>, <<Header("trailer-is")>>}
    IN  {chunks \o <<Size(0)>> \o trailer \o <<Eol>> : chunks \in Cut[0], trailer \in trailers}

\* Wrong: the body as it was read, without the framing.
BodyAsRead(r) == {r.body}

\* Any Transfer-Encoding has the body chunked.
UnparsedBody(r) ==
    IF \E j \in DOMAIN r.headers : r.headers[j][1] = "coding"
    THEN RandomlyChunk(r.body)
    ELSE {r.body}

UnparseRequest(r) ==
    {<<Line(r.method, r.version)>> \o r.headers \o <<Eol>> \o body : body \in UnparsedBody(r)}

\* b"".join(map(_unparse_request, ...))
UnparseAll(requests) ==
    LET Upto[n \in 0..Len(requests)] ==
            IF n = 0 THEN {<<>>}
            ELSE {a \o b : a \in Upto[n - 1], b \in UnparseRequest(requests[n])}
    IN  Upto[Len(requests)]

-----------------------------------------------------------------------------
(* The mutations.  Each gives the set of its outcomes: a payload, the        *)
(* AssertionError of a mutation that does not apply, or another exception    *)
(* that came out of the parser.  List positions count from 0 here, as in     *)
(* the code.                                                                 *)

Returned(p, stream, request) == [error |-> "none", payload |-> p, stream |-> stream, request |-> request]
Asserts == [error |-> "AssertionError"]
Raises(error) == [error |-> error]
Else(outcomes) == IF outcomes = {} THEN {Asserts} ELSE outcomes

\* r[:idx] + new + r[idx + dropped:]
Splice(r, idx, dropped, new) == SubSeq(r, 1, idx) \o new \o SubSeq(r, idx + dropped + 1, Len(r))

Total(s) == Len(FlattenSeq(s))

\* Wrong: an insertion overwrites what it is put before.
EditOverwriting(s, idx, dropped, new) ==
    LET before(k) == Total(SubSeq(s, 1, k - 1))
        at == {k \in DOMAIN s : before(k) <= idx /\ idx < before(k + 1)}
    IN  Else({Returned([s EXCEPT ![k] = Splice(@, idx - before(k), 1, new)], k, 0) : k \in at})

\* The stream that holds the idx-th unit of all, edited there.  None holds
\* the place after the last.
Edit(s, idx, dropped, new) ==
    LET before(k) == Total(SubSeq(s, 1, k - 1))
        at == {k \in DOMAIN s : before(k) <= idx /\ idx < before(k + 1)}
    IN  Else({Returned([s EXCEPT ![k] = Splice(@, idx - before(k), dropped, new)], k, 0) : k \in at})

DeleteByte(s) ==
    Else(UNION {Edit(s, idx, 1, <<>>) : idx \in 0..Total(s) - 1})
ReplaceByte(s) ==
    Else(UNION {Edit(s, idx, 1, <<u>>) : idx \in 0..Total(s) - 1, u \in Inserted})
InsertByte(s) ==
    Else(UNION {Edit(s, idx, 0, <<u>>) : idx \in 0..Total(s), u \in Inserted})
InsertMeaningfulByte(s) ==
    Else(UNION {Edit(s, idx, 0, <<Eol>>) : idx \in 0..Total(s)})

ConcatRequests(s) ==
    Else({Returned(Splice(s, idx, 2, <<s[idx + 1] \o s[idx + 2]>>), idx + 1, 0) : idx \in 0..Len(s) - 2})

\* Both halves are inserted at idx, so the second comes first.
ShiftBoundaries(s) ==
    LET combined(idx) == s[idx + 1] \o s[idx + 2]
        halves(idx, boundary) == <<SubSeq(combined(idx), boundary + 1, Len(combined(idx))),
                                   SubSeq(combined(idx), 1, boundary)>>
    IN  Else(UNION {{Returned(Splice(s, idx, 2, halves(idx, boundary)), idx + 1, 0) :
                         boundary \in 0..Len(combined(idx))} : idx \in 0..Len(s) - 2})

SplitRequest(s) ==
    LET halves(r, spot) == <<SubSeq(r, 1, spot), SubSeq(r, spot + 1, Len(r))>>
    IN  Else(UNION {Else({Returned(Splice(s, i, 1, halves(s[i + 1], spot)), i + 1, 0) :
                              spot \in 1..Len(s[i + 1]) - 1}) : i \in 0..Len(s) - 1})

DuplicateRequest(s) ==
    Else({Returned(Splice(s, i, 0, <<s[i + 1]>>), i + 1, 0) : i \in 0..Len(s) - 1})

\* Wrong: deletes the last stream, too.
DeleteAnyRequest(s) ==
    Else({Returned(Splice(s, i, 1, <<>>), i + 1, 0) : i \in 0..Len(s) - 1})

DeleteRequest(s) ==
    Else({Returned(Splice(s, i, 1, <<>>), i + 1, 0) : i \in {j \in 0..Len(s) - 1 : Len(s) >= 2}})

\* Reads one stream, changes one of its requests, and writes all of them.
\* Changed(r) is the set of the changed requests, empty when r admits none.
ChangeRequest(s, Changed(_)) ==
    LET OfRequest(k, requests, r, rest) ==
            {Returned([s EXCEPT ![k] = text \o rest], k, r) :
                 text \in UNION {UnparseAll([requests EXCEPT ![r] = new]) : new \in Changed(requests[r])}}
        OfStream(k, parsed) ==
            IF parsed.error # "none" THEN {Raises(parsed.error)}
            ELSE Else(UNION {Else(OfRequest(k, parsed.value, r, SubSeq(s[k], parsed.next, Len(s[k])))) :
                                 r \in DOMAIN parsed.value})
    IN  Else(UNION {OfStream(k, ParseRequestStream(s[k])) : k \in DOMAIN s})

DeleteHeader(s) ==
    ChangeRequest(s, LAMBDA r :
        {[r EXCEPT !.headers = Splice(@, idx, 1, <<>>)] : idx \in 0..Len(r.headers) - 1})

\* The new header also takes the place of the one at idx.
InsertHeader(s) ==
    ChangeRequest(s, LAMBDA r :
        {[r EXCEPT !.headers = Splice(@, idx, 1, <<header>>)] :
             idx \in 0..Len(r.headers), header \in SEED_HEADERS})

ReplaceHeader(s) ==
    ChangeRequest(s, LAMBDA r :
        {[r EXCEPT !.headers = Splice(@, idx, 1, <<header>>)] :
             idx \in 0..Len(r.headers) - 1, header \in SEED_HEADERS})

ReplaceMethod(s) ==
    ChangeRequest(s, LAMBDA r : {[r EXCEPT !.method = method] : method \in METHODS})

ByteEdits == {"_delete_random_byte", "_replace_random_byte", "_insert_random_byte",
              "_insert_random_meaningful_byte"}
HeaderEdits == {"_delete_random_header", "_insert_random_header", "_replace_random_header"}
Mutators == ByteEdits \cup HeaderEdits \cup
    {"_replace_method", "_concat_random_requests", "_shift_random_request_boundaries",
     "_delete_random_request", "_split_random_request", "_duplicate_random_request"}

Outcomes(m, s) ==
    CASE m = "_delete_random_byte"              -> DeleteByte(s)
      [] m = "_replace_random_byte"             -> ReplaceByte(s)
      [] m = "_insert_random_byte"              -> InsertByte(s)
      [] m = "_insert_random_meaningful_byte"   -> InsertMeaningfulByte(s)
      [] m = "_concat_random_requests"          -> ConcatRequests(s)
      [] m = "_shift_random_request_boundaries" -> ShiftBoundaries(s)
      [] m = "_delete_random_header"            -> DeleteHeader(s)
      [] m = "_insert_random_header"            -> InsertHeader(s)
      [] m = "_replace_random_header"           -> ReplaceHeader(s)
      [] m = "_replace_method"                  -> ReplaceMethod(s)
      [] m = "_delete_random_request"           -> DeleteRequest(s)
      [] m = "_split_random_request"            -> SplitRequest(s)
      [] m = "_duplicate_random_request"        -> DuplicateRequest(s)

-----------------------------------------------------------------------------
(* mutate(s)                                                                 *)

NothingApplied == [mutation |-> "none", from |-> <<>>, stream |-> 0, request |-> 0]

Init ==
    /\ payload \in Payloads
    /\ mutations = Mutators
    /\ pc = "called"
    /\ calls = 1
    /\ applied = NothingApplied

\* The mutation that was chosen applies: mutate returns.
Apply(m, o) ==
    /\ o.error = "none"
    /\ payload' = o.payload
    /\ applied' = [mutation |-> m, from |-> payload, stream |-> o.stream, request |-> o.request]
    /\ pc' = "returned"
    /\ mutations' = Mutators
    /\ UNCHANGED calls

\* It does not, or not where it tried: it is off the list.
GiveUp(m, o) ==
    /\ o = Asserts
    /\ mutations' = mutations \ {m}
    /\ UNCHANGED <<payload, pc, calls, applied>>

\* mutate catches no other exception.
Escape(o) ==
    /\ o.error \notin {"none", "AssertionError"}
    /\ pc' = o.error
    /\ UNCHANGED <<payload, mutations, calls, applied>>

Choose ==
    /\ pc = "called"
    /\ \E m \in mutations : \E o \in Outcomes(m, payload) :
           Apply(m, o) \/ GiveUp(m, o) \/ Escape(o)

\* random.choice of an empty list.
NoneLeft ==
    /\ pc = "called"
    /\ mutations = {}
    /\ pc' = "IndexError"
    /\ UNCHANGED <<payload, mutations, calls, applied>>

\* The caller mutates the result again.
CallAgain ==
    /\ pc = "returned"
    /\ calls < MaxCalls
    /\ Total(payload) <= MaxUnits
    /\ pc' = "called"
    /\ calls' = calls + 1
    /\ applied' = NothingApplied
    /\ UNCHANGED <<payload, mutations>>

Mutate == Choose \/ NoneLeft

Next == Mutate \/ CallAgain

Spec == Init /\ [][Next]_vars

-----------------------------------------------------------------------------
(* Properties.                                                               *)

\* mutate runs out of mutations only for a payload without streams, and it
\* never makes one; the only other exception is that of a body that is said to
\* be gzip and is not, which parse_request_stream lets through.
RaisesOnlyFor ==
    /\ pc = "IndexError" => payload = <<>> /\ calls = 1
    /\ pc = "BadGzipFile" =>
           \E k \in DOMAIN payload : {GzipHeader, Eol} \subseteq Range(payload[k])

\* A mutation of bytes or streams makes the one change it is named for: a unit
\* less, more or another in one stream, two streams made one, one made two, a
\* stream less or twice.  All other streams stay as they are and where they are.
\* A boundary that is shifted is the exception: the two streams are cut anew
\* elsewhere, and also come out in the wrong order, the back half in front
\* (mutations.py:226-227; 238-239 insert the halves of a split the other way).
OneChange(m, s, t) ==
    LET Without(p, k) == SubSeq(p, 1, k - 1) \o SubSeq(p, k + 1, Len(p))
        \* From k on t has `new` streams for `old` of s, and elsewhere it is s.
        Elsewhere(k, old, new) ==
            /\ SubSeq(t, 1, k - 1) = SubSeq(s, 1, k - 1)
            /\ SubSeq(t, k + new, Len(t)) = SubSeq(s, k + old, Len(s))
    IN  CASE m = "_delete_random_byte" ->
               /\ Total(t) = Total(s) - 1
               /\ \E k \in DOMAIN s : \E i \in DOMAIN s[k] : t = [s EXCEPT ![k] = Without(@, i)]
          [] m = "_replace_random_byte" ->
               /\ Len(t) = Len(s)
               /\ \A k \in DOMAIN s : Len(t[k]) = Len(s[k])
               /\ Cardinality({i \in 1..Total(s) : FlattenSeq(s)[i] # FlattenSeq(t)[i]}) <= 1
          [] m \in {"_insert_random_byte", "_insert_random_meaningful_byte"} ->
               \E k \in DOMAIN t : \E i \in DOMAIN t[k] : s = [t EXCEPT ![k] = Without(@, i)]
          [] m = "_concat_random_requests" ->
               \E k \in 1..Len(s) - 1 : Elsewhere(k, 2, 1) /\ t[k] = s[k] \o s[k + 1]
          [] m = "_split_random_request" ->
               \E k \in DOMAIN s : /\ Elsewhere(k, 1, 2) /\ s[k] = t[k] \o t[k + 1]
                                  /\ t[k] # <<>> /\ t[k + 1] # <<>>
          [] m = "_delete_random_request" -> \E k \in DOMAIN s : t = Without(s, k)
          [] m = "_duplicate_random_request" ->
               \E k \in 1..Len(t) - 1 : t[k] = t[k + 1] /\ s = Without(t, k)
          [] m = "_shift_random_request_boundaries" ->
               \E k \in 1..Len(s) - 1 : Elsewhere(k, 2, 2) /\ s[k] \o s[k + 1] = t[k + 1] \o t[k]
          [] OTHER -> TRUE

OneChangeAtATime ==
    pc = "returned" => OneChange(applied.mutation, applied.from, payload)

\* A mutation of a header or a method writes every request of the stream anew,
\* yet it changes only the one it chose: those before it are read again as they
\* were, and in its own headers one place differs.  Not so for requests whose
\* bodies are written in another form than they were read in (any
\* Transfer-Encoding but chunked; gzip, which is written unpacked, so that the
\* text cannot be read at all), nor past a trailer, which the writer appends to
\* chunks and the reader takes for an error.
ReadAgain(r) ==
    /\ GzipHeader \notin Range(r.headers)
    /\ Coding("identity") \notin Range(r.headers)

OnePlace(m, h, g) ==
    IF m = "_replace_method" THEN g = h
    ELSE \/ m # "_delete_random_header" /\ \E i \in DOMAIN h : \E u \in SEED_HEADERS : g = [h EXCEPT ![i] = u]
         \/ m = "_insert_random_header" /\ \E u \in SEED_HEADERS : g = Append(h, u)
         \/ m = "_delete_random_header" /\ \E i \in DOMAIN h : g = Splice(h, i - 1, 1, <<>>)

OthersAreReadAgain(m, r, old, again) ==
    LET new == again.value
        Unharmed(n) == \A j \in 1..n : ReadAgain(old[j])
    IN  again.error = "none" =>
           /\ \A j \in 1..r - 1 : Unharmed(j) => j <= Len(new) /\ new[j] = old[j]
           /\ Unharmed(r - 1) /\ r <= Len(new) => OnePlace(m, old[r].headers, new[r].headers)

OthersStand ==
    LET k == applied.stream IN
    pc = "returned" /\ applied.request > 0 =>
        /\ \A j \in DOMAIN payload \ {k} : payload[j] = applied.from[j]
        /\ Header("trailer-is") \notin Range(payload[k]) =>
               OthersAreReadAgain(applied.mutation, applied.request,
                   ParseRequestStream(applied.from[k]).value, ParseRequestStream(payload[k]))
=============================================================================
