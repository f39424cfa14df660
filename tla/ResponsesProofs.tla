-------------------------- MODULE ResponsesProofs ---------------------------
(***************************************************************************)
(* How responses are cut, for every stream of any length.  The argument    *)
(* follows `remaining`: behind `at` nothing has been reported, and before  *)
(* it nothing that could be parsed was passed over.                        *)
(***************************************************************************)
EXTENDS Responses, TLAPS

Slices == [first : 1 .. End, next : 1 .. End]

Typed ==
    /\ role \in Roles /\ http2 \in BOOLEAN /\ http09 \in BOOLEAN
    /\ stream \in Seq(Units)
    /\ at \in 1 .. End /\ response \in 0 .. Len(stream) /\ newAt \in 0 .. End
    /\ answers \in Seq(Slices)
    /\ pc \in {"loop", "returned", "raised"}

(* A transducer that has parsed a response has its remainder.              *)
RemainderKept == role = "transducer" /\ response # 0 => newAt \in 1 .. End /\ at = newAt

(* All of an origin's answers lie before `remaining`.                      *)
AnswersBehind ==
    role = "origin" =>
        \A i \in DOMAIN answers : answers[i].first < answers[i].next /\ answers[i].next <= at

(* What could be parsed before `remaining` was reported.                   *)
NothingSkipped ==
    role = "origin" =>
        \A i, j \in DOMAIN stream : i < at /\ Reached(i) /\ Parsed(i, j) => Reported(j) /\ ~Dropped(i)

(* An origin's loop stands behind responses it has read; it stops at the   *)
(* end or drops a request, and raises at a response that makes it.         *)
OriginStops ==
    role = "origin" =>
        /\ at < End => Reached(at)
        /\ pc = "returned" /\ at < End => Dropped(at)
        /\ pc = "raised" => at < End /\ stream[at].kind = "raising"

(* While the responses say where they end, the next piece is the next      *)
(* response.                                                               *)
PiecesCounted ==
    role = "transducer" /\ pc = "loop" /\ Len(answers) < Len(stream) /\ Framed(Len(answers)) =>
        at = Len(answers) + 1

IInv ==
    /\ Typed
    /\ RemainderKept
    /\ AnswersBehind /\ AnswersDisjoint
    /\ NothingSkipped /\ OriginStops
    /\ PiecesCounted /\ PiecesAreBodies /\ NoBodyLost

-----------------------------------------------------------------------------
LEMMA UnitKinds ==
    ASSUME Typed, NEW i \in DOMAIN stream
    PROVE  /\ After(i) \in i + 1 .. End
           /\ stream[i].kind = "message" => stream[i].framed \in BOOLEAN
<1>1. stream[i] \in Units /\ i \in 1 .. Len(stream) /\ Len(stream) \in Nat
  BY DEF Typed
<1> QED  BY <1>1 DEF After, End, Units

LEMMA InitInvariant == Init => IInv
<1> SUFFICES ASSUME Init PROVE IInv
  OBVIOUS
<1>1. stream \in Seq(Units)
  BY ResponsesAssumption DEF Init
<1>2. Len(stream) \in Nat
  BY <1>1
<1>3. End = Len(stream) + 1 /\ at = 1 /\ answers = <<>> /\ Reached(1)
  BY <1>2 DEF Init, End, Reached
<1>4. NothingSkipped /\ OriginStops
  BY <1>2, <1>3 DEF Init, NothingSkipped, OriginStops
<1> QED  BY <1>1, <1>2, <1>3, <1>4 DEF Init, IInv, Typed, RemainderKept, AnswersBehind, AnswersDisjoint, PiecesCounted,
            PiecesAreBodies, NoBodyLost, Slices, End, Framed, Roles

-----------------------------------------------------------------------------
(* What appending a slice does to the list.                                *)
LEMMA AppendSlice ==
    ASSUME NEW S, NEW s \in Seq(S), NEW e \in S
    PROVE  /\ Append(s, e) \in Seq(S)
           /\ Len(s) \in Nat /\ DOMAIN s = 1 .. Len(s)
           /\ Len(Append(s, e)) = Len(s) + 1
           /\ DOMAIN Append(s, e) = 1 .. Len(s) + 1
           /\ \A i \in 1 .. Len(s) : Append(s, e)[i] = s[i] /\ s[i] \in S
           /\ Append(s, e)[Len(s) + 1] = e
OBVIOUS

(* What the stream alone decides does not change with it unchanged.        *)
LEMMA SameStream ==
    ASSUME input' = input
    PROVE  /\ Slices' = Slices /\ End' = End
           /\ \A i : /\ Usable(i)' <=> Usable(i)
                     /\ Framed(i)' <=> Framed(i)
                     /\ Parses(i)' <=> Parses(i)
                     /\ After(i)' = After(i)
                     /\ Reached(i)' <=> Reached(i)
                     /\ Dropped(i)' <=> Dropped(i)
                     /\ \A j : Parsed(i, j)' <=> Parsed(i, j)
<1>1. stream' = stream /\ http2' = http2 /\ http09' = http09
  BY DEF input
<1>2. /\ Slices' = Slices /\ End' = End
      /\ \A i : (Usable(i)' <=> Usable(i)) /\ (Parses(i)' <=> Parses(i)) /\ After(i)' = After(i)
      /\ \A i : (OneJSONFrame(i)' <=> OneJSONFrame(i)) /\ (HasHeaders(i)' <=> HasHeaders(i))
      /\ \A i : Body(i)' = Body(i)
  BY <1>1, Zenon DEF Slices, End, Usable, Parses, JSONBody, After, OneJSONFrame, HasHeaders, Body
<1>3. \A i, j : Stripped(i, j)' <=> Stripped(i, j)
  BY <1>1, <1>2, Zenon DEF Stripped
<1>4. \A i : BareJSON(i)' <=> BareJSON(i)
  BY <1>1, <1>2, <1>3, Zenon DEF BareJSON
<1>5. \A i, j : ErrorPage(i, j)' <=> ErrorPage(i, j)
  BY <1>2, <1>3, Zenon DEF ErrorPage
<1>6. \A i : Dropped(i)' <=> Dropped(i)
  BY <1>1, <1>2, <1>4, Zenon DEF Dropped
<1>7. \A i, j : Parsed(i, j)' <=> Parsed(i, j)
  BY <1>1, <1>2, <1>4, <1>5, <1>6, Zenon DEF Parsed
<1>8. \A i : (Framed(i)' <=> Framed(i)) /\ (Reached(i)' <=> Reached(i))
  BY <1>1, <1>2, Zenon DEF Framed, Reached
<1> QED  BY <1>2, <1>6, <1>7, <1>8, Zenon

(* Behind what cannot be read, nothing is reached.                         *)
LEMMA NothingBehind ==
    ASSUME Typed, at < End, ~Usable(at), NEW i \in DOMAIN stream, at <= i, Reached(i)
    PROVE  i = at
BY DEF Typed, End, Reached

(* The headers are stripped in one place.                                  *)
LEMMA StrippedOnce ==
    ASSUME Typed, at < End, NEW j, NEW k, Stripped(at, j), Stripped(at, k)
    PROVE  j = k
<1>1. at \in 1 .. Len(stream) /\ Len(stream) \in Nat
  BY DEF Typed, End
<1>2. j \in at .. Len(stream) /\ k \in at .. Len(stream)
  BY Zenon DEF Stripped
<1>3. CASE \A l \in at .. Len(stream) : ~HasHeaders(l)
  BY <1>2, <1>3, Zenon DEF Stripped
<1>4. CASE ~\A l \in at .. Len(stream) : ~HasHeaders(l)
  <2>1. /\ HasHeaders(j) /\ \A l \in at .. j - 1 : ~HasHeaders(l)
        /\ HasHeaders(k) /\ \A l \in at .. k - 1 : ~HasHeaders(l)
    BY <1>4, Zenon DEF Stripped
  <2>2. ~(k \in at .. j - 1) /\ ~(j \in at .. k - 1)
    BY <2>1, Zenon
  <2> QED  BY <1>1, <1>2, <2>2
<1> QED  BY <1>3, <1>4

(* A step of an origin that appends the slice from f up to the new `at`.   *)
LEMMA OriginAppends ==
    ASSUME IInv, role = "origin", pc = "loop", at < End,
           UNCHANGED <<input, response, newAt, pc>>,
           NEW f \in at .. Len(stream), at' \in f + 1 .. End,
           answers' = Append(answers, Slice(f, at')),
           \A i, j \in DOMAIN stream :
               at <= i /\ i < at' /\ Reached(i) /\ Parsed(i, j) => j = f /\ ~Dropped(i),
           at' < End => Reached(at')
    PROVE  IInv'
<1>0. /\ \A i : /\ Reached(i)' <=> Reached(i)
                /\ Dropped(i)' <=> Dropped(i)
                /\ \A j : Parsed(i, j)' <=> Parsed(i, j)
  BY SameStream
<1>1. Slices' = Slices /\ End' = End /\ Len(stream) \in Nat /\ stream' = stream /\ role' = role
  BY SameStream DEF input, IInv, Typed
<1>2. /\ at \in 1 .. End /\ f \in 1 .. End /\ at' \in 1 .. End
      /\ Slice(f, at') \in Slices /\ f < at' /\ at <= at'
  BY <1>1 DEF Slices, Slice, End, IInv, Typed
<1>3. /\ answers' \in Seq(Slices)
      /\ Len(answers) \in Nat /\ DOMAIN answers = 1 .. Len(answers)
      /\ DOMAIN answers' = 1 .. Len(answers) + 1
      /\ \A i \in 1 .. Len(answers) : answers'[i] = answers[i] /\ answers[i] \in Slices
      /\ answers'[Len(answers) + 1] = Slice(f, at')
  BY <1>2, AppendSlice DEF IInv, Typed
<1>4. Typed'
  BY <1>1, <1>3 DEF IInv, Typed, input, End
<1>5. AnswersBehind'
  <2> SUFFICES ASSUME NEW i \in 1 .. Len(answers) + 1
               PROVE  answers'[i].first < answers'[i].next /\ answers'[i].next <= at'
    BY <1>3 DEF AnswersBehind
  <2>1. CASE i = Len(answers) + 1
    BY <2>1, <1>2, <1>3 DEF Slice, End
  <2>2. CASE i \in 1 .. Len(answers)
    <3>1. answers[i].first < answers[i].next /\ answers[i].next <= at
      BY <2>2, <1>3 DEF IInv, AnswersBehind
    <3>2. answers[i].next \in Nat
      BY <2>2, <1>1, <1>3 DEF Slices, End
    <3>3. at \in Nat /\ at' \in Nat /\ at <= at'
      BY <1>1, <1>2 DEF End
    <3> QED  BY <3>1, <3>2, <3>3, <2>2, <1>3
  <2> QED  BY <2>1, <2>2, <1>3
<1>7. AnswersDisjoint'
  <2> SUFFICES ASSUME NEW i \in 1 .. Len(answers) + 1, NEW j \in 1 .. Len(answers) + 1, i < j
               PROVE  answers'[i].next <= answers'[j].first
    BY <1>3, <1>5 DEF AnswersBehind, AnswersDisjoint, input
  <2>1. CASE j = Len(answers) + 1
    <3>1. i \in 1 .. Len(answers) /\ answers[i].next <= at
      BY <2>1, <1>3 DEF IInv, AnswersBehind
    <3>2. answers[i].next \in Nat /\ at \in Nat /\ f \in Nat /\ at <= f
      BY <3>1, <1>1, <1>2, <1>3 DEF Slices, End
    <3>3. answers'[j].first = f
      BY <2>1, <1>3 DEF Slice
    <3> QED  BY <3>1, <3>2, <3>3, <1>3
  <2>2. CASE j \in 1 .. Len(answers)
    <3>1. i \in 1 .. Len(answers)
      BY <2>2, <1>3
    <3>2. answers[i].next <= answers[j].first
      BY <3>1, <2>2, <1>3 DEF IInv, AnswersDisjoint
    <3> QED  BY <3>1, <3>2, <2>2, <1>3
  <2> QED  BY <2>1, <2>2, <1>3
<1>6. NothingSkipped'
  <2> SUFFICES ASSUME NEW i \in DOMAIN stream, NEW j \in DOMAIN stream,
                      i < at', Reached(i), Parsed(i, j)
               PROVE  (\E a \in DOMAIN answers' : answers'[a].first = j) /\ ~Dropped(i)
    BY <1>0, <1>1, Zenon DEF NothingSkipped, Reported
  <2>1. CASE i < at
    <3>1. PICK a \in DOMAIN answers : answers[a].first = j /\ ~Dropped(i)
      BY <2>1 DEF IInv, NothingSkipped, Reported
    <3> QED  BY <3>1, <1>3
  <2>2. CASE i >= at
    <3>1. j = f /\ ~Dropped(i)
      BY <2>2
    <3>2. answers'[Len(answers) + 1].first = f
      BY <1>3 DEF Slice
    <3> QED  BY <3>1, <3>2, <1>3
  <2>3. i \in Nat /\ at \in Nat
    BY <1>1, <1>2 DEF IInv, Typed, End
  <2> QED  BY <2>1, <2>2, <2>3
<1>8. OriginStops'
  <2>1. pc' = "loop" /\ (at' < End' => Reached(at'))
    BY <1>1 DEF input
  <2>2. at' < End' => Reached(at)'
    <3>1. \A k : Usable(k)' <=> Usable(k)
      BY SameStream
    <3> QED  BY <2>1, <3>1, <1>1 DEF Reached
  <2> QED  BY <2>1, <2>2 DEF OriginStops
<1> QED
  BY <1>4, <1>5, <1>6, <1>7, <1>8
  DEF IInv, RemainderKept, PiecesCounted, PiecesAreBodies, NoBodyLost, input, Roles

LEMMA OriginReadsInvariant == IInv /\ OriginReads => IInv'
<1> SUFFICES ASSUME IInv, OriginReads PROVE IInv'
  OBVIOUS
<1>1. at \in DOMAIN stream /\ Len(stream) \in Nat /\ DOMAIN stream = 1 .. Len(stream)
  BY DEF IInv, Typed, OriginReads, InLoop, End
<1>2. at' \in at + 1 .. End
  BY <1>1, UnitKinds DEF IInv, OriginReads
<1>3. Reached(at) /\ Usable(at)
  BY DEF IInv, OriginStops, OriginReads, InLoop
<1>4. ASSUME at' < End PROVE at' = at + 1 /\ stream[at].framed
  BY <1>1, <1>4 DEF OriginReads, After
<1>5. at' < End => Reached(at')
  BY <1>1, <1>3, <1>4 DEF Reached, IInv, Typed, End
<1>6. ASSUME NEW i \in DOMAIN stream, at < i, i < at' PROVE ~Reached(i)
  <2>1. ~stream[at].framed
    BY <1>1, <1>6 DEF OriginReads, After
  <2> QED  BY <1>1, <1>6, <2>1 DEF Reached
<1>7. ASSUME NEW i \in DOMAIN stream, NEW j \in DOMAIN stream,
             at <= i, i < at', Reached(i), Parsed(i, j)
      PROVE  j = at /\ ~Dropped(i)
  BY <1>1, <1>3, <1>6, <1>7 DEF Parsed, Dropped
<1> QED  BY <1>1, <1>2, <1>5, <1>7, OriginAppends DEF OriginReads, InLoop, End

LEMMA OriginReadsHTTP2Invariant == IInv /\ OriginReadsHTTP2 => IInv'
<1> SUFFICES ASSUME IInv, OriginReadsHTTP2 PROVE IInv'
  OBVIOUS
<1>1. at \in 1 .. Len(stream) /\ Len(stream) \in Nat /\ End = Len(stream) + 1 /\ at' = End
  BY DEF IInv, Typed, OriginReadsHTTP2, InLoop, End
<1>2. ~Usable(at) /\ http2 /\ OneJSONFrame(at)
  BY DEF OriginReadsHTTP2
<1>3. ASSUME NEW i \in DOMAIN stream, NEW j \in DOMAIN stream,
             at <= i, i < at', Reached(i), Parsed(i, j)
      PROVE  j = at /\ ~Dropped(i)
  <2>1. i = at
    BY <1>1, <1>2, <1>3, NothingBehind DEF IInv
  <2> QED  BY <1>2, <1>3, <2>1 DEF Parsed, Dropped
<1> QED  BY <1>1, <1>3, OriginAppends DEF OriginReadsHTTP2, InLoop

LEMMA OriginReadsHTTP09Invariant == IInv /\ OriginReadsHTTP09 => IInv'
<1> SUFFICES ASSUME IInv, OriginReadsHTTP09 PROVE IInv'
  OBVIOUS
<1>1. at \in 1 .. Len(stream) /\ Len(stream) \in Nat /\ End = Len(stream) + 1 /\ at' = End
  BY DEF IInv, Typed, OriginReadsHTTP09, Unread, InLoop, End
<1>2. ~Usable(at) /\ ~(http2 /\ OneJSONFrame(at)) /\ ~BareJSON(at)
  BY DEF OriginReadsHTTP09, Unread
<1>3. PICK f \in DOMAIN stream : ErrorPage(at, f) /\ answers' = Append(answers, Slice(f, End))
  BY DEF OriginReadsHTTP09
<1>4. f \in at .. Len(stream)
  BY <1>3 DEF ErrorPage, Stripped
<1>5. ASSUME NEW i \in DOMAIN stream, NEW j \in DOMAIN stream,
             at <= i, i < at', Reached(i), Parsed(i, j)
      PROVE  j = f /\ ~Dropped(i)
  <2>1. i = at
    BY <1>1, <1>2, <1>5, NothingBehind DEF IInv
  <2>2. ErrorPage(at, j) /\ ~Dropped(at)
    BY <1>2, <1>5, <2>1 DEF Parsed, Dropped
  <2>3. Stripped(at, j) /\ Stripped(at, f)
    BY <1>3, <2>2 DEF ErrorPage
  <2> QED  BY <1>1, <2>1, <2>2, <2>3, StrippedOnce DEF IInv
<1> QED  BY <1>1, <1>3, <1>4, <1>5, OriginAppends DEF OriginReadsHTTP09, Unread, InLoop

(* A step that leaves the loop without appending anything, or gives up     *)
(* what remains.                                                           *)
LEMMA NothingAppended ==
    ASSUME IInv, pc = "loop",
           UNCHANGED <<input, response, newAt, answers>>, pc' \in {"loop", "returned", "raised"},
           at' \in at .. End,
           at' # at => /\ role = "origin" /\ at' = End /\ pc' = pc /\ ~Usable(at)
                       /\ \A j \in DOMAIN stream : ~Parsed(at, j),
           at' = at => pc' # "loop",
           pc' = "returned" => at = End \/ (role = "origin" /\ Dropped(at)),
           pc' = "raised" => at < End /\ stream[at].kind = "raising"
    PROVE  IInv'
<1>1. /\ Slices' = Slices /\ End' = End /\ Len(stream) \in Nat
      /\ \A i : (Framed(i)' <=> Framed(i)) /\ (Parses(i)' <=> Parses(i)) /\ After(i)' = After(i)
      /\ \A i : Reached(i)' <=> Reached(i)
      /\ \A i : Dropped(i)' <=> Dropped(i)
      /\ \A i, j : Parsed(i, j)' <=> Parsed(i, j)
  <2>1. input' = input
    OBVIOUS
  <2>2. Len(stream) \in Nat
    BY DEF IInv, Typed
  <2> QED  BY <2>1, <2>2, SameStream, Zenon
<1>0. /\ at \in 1 .. End /\ at' \in 1 .. End /\ at <= at' /\ End = Len(stream) + 1
      /\ stream' = stream /\ role' = role /\ Len(stream) \in Nat
  BY DEF IInv, Typed, End, input
<1>2. Typed' /\ RemainderKept'
  BY <1>1 DEF IInv, Typed, RemainderKept, input, Roles
<1>3. AnswersBehind' /\ AnswersDisjoint'
  <2>1. ASSUME NEW i \in DOMAIN answers, role = "origin" PROVE answers[i].next <= at'
    <3>1. answers[i] \in Slices /\ answers[i].next <= at
      BY <2>1 DEF IInv, Typed, AnswersBehind
    <3> QED  BY <3>1, <1>1 DEF Slices
  <2> QED  BY <2>1 DEF IInv, AnswersBehind, AnswersDisjoint, input
<1>4. NothingSkipped'
  <2> SUFFICES ASSUME role = "origin", NEW i \in DOMAIN stream, NEW j \in DOMAIN stream,
                      i < at', Reached(i), Parsed(i, j)
               PROVE  Reported(j) /\ ~Dropped(i)
    BY <1>0, <1>1, Zenon DEF NothingSkipped, Reported
  <2>1. i < at
    <3> SUFFICES ASSUME i >= at PROVE FALSE
      BY <1>0
    <3>1. at < End /\ ~Usable(at) /\ ~Parsed(at, j)
      BY <1>0
    <3>2. i = at
      BY <3>1, NothingBehind DEF IInv
    <3> QED  BY <3>1, <3>2
  <2> QED  BY <2>1 DEF IInv, NothingSkipped
<1>7. OriginStops'
  <2> SUFFICES ASSUME role = "origin"
               PROVE  /\ at' < End' => Reached(at)'
                      /\ pc' = "returned" /\ at' < End' => Dropped(at)'
                      /\ pc' = "raised" => at' < End' /\ stream'[at'].kind = "raising"
    BY <1>0 DEF OriginStops
  <2>1. CASE at' = at
    <3>1. at < End => Reached(at)
      BY DEF IInv, OriginStops
    <3>2. (Reached(at)' <=> Reached(at)) /\ (Dropped(at)' <=> Dropped(at))
      <4>1. \A i : (Reached(i)' <=> Reached(i)) /\ (Dropped(i)' <=> Dropped(i))
        BY <1>1
      <4> QED  BY <4>1, <2>1 DEF Reached, Dropped
    <3> QED  BY <1>0, <1>1, <2>1, <3>1, <3>2
  <2>2. CASE at' # at
    BY <1>0, <1>1, <2>2
  <2> QED  BY <2>1, <2>2
<1>5. PiecesCounted' /\ PiecesAreBodies'
  BY <1>0, <1>1 DEF IInv, PiecesCounted, PiecesAreBodies, input, Roles, Typed, Slice
<1>6. NoBodyLost'
  <2> SUFFICES ASSUME role = "transducer", pc' = "returned",
                      NEW i \in DOMAIN stream, Framed(i - 1), Parses(i), i \notin DOMAIN answers
               PROVE  FALSE
    BY <1>1 DEF NoBodyLost, input
  <2>1. at = End /\ Len(answers) \in Nat /\ i > Len(answers) /\ i \in 1 .. Len(stream)
    BY DEF IInv, Typed
  <2>2. Framed(Len(answers))
    BY <2>1 DEF Framed
  <2> QED  BY <2>1, <2>2, <1>0 DEF IInv, PiecesCounted
<1> QED  BY <1>2, <1>3, <1>4, <1>5, <1>6, <1>7 DEF IInv

LEMMA StopsInvariant == IInv /\ (Return \/ Raise \/ OriginBreaks \/ OriginGivesUp) => IInv'
<1> SUFFICES ASSUME IInv, Return \/ Raise \/ OriginBreaks \/ OriginGivesUp PROVE IInv'
  OBVIOUS
<1>0. at \in at .. End /\ End \in at .. End
  BY DEF IInv, Typed, End
<1>1. CASE Return
  BY <1>0, <1>1, NothingAppended DEF Return
<1>2. CASE Raise
  BY <1>0, <1>2, NothingAppended DEF Raise
<1>3. CASE OriginBreaks
  <2>1. Dropped(at)
    BY <1>3 DEF OriginBreaks, Unread, Dropped
  <2> QED  BY <1>0, <1>3, <2>1, NothingAppended DEF OriginBreaks, Unread, InLoop
<1>4. CASE OriginGivesUp
  <2>1. \A j \in DOMAIN stream : ~Parsed(at, j)
    BY <1>4 DEF OriginGivesUp, Unread, NoErrorPage, Parsed, Dropped
  <2> QED  BY <1>0, <1>4, <2>1, NothingAppended DEF OriginGivesUp, Unread, InLoop
<1> QED  BY <1>1, <1>2, <1>3, <1>4

(* A step of a transducer that appends a slice: the next response's, if    *)
(* those before it say where they end, and otherwise any.                  *)
LEMMA TransducerAppends ==
    ASSUME IInv, role = "transducer", pc = "loop", at < End,
           UNCHANGED <<input>>, pc' \in {"loop", "returned"},
           at' \in 1 .. End, newAt' \in 0 .. End, response' \in 0 .. Len(stream),
           response' # 0 => newAt' \in 1 .. End /\ at' = newAt',
           NEW e \in Slices, answers' = Append(answers, e),
           Parses(at) => e = Slice(at, After(at)) /\ at' = After(at) /\ pc' = pc
    PROVE  IInv'
<1> DEFINE n == Len(answers)
<1>1. /\ Slices' = Slices /\ End' = End /\ Len(stream) \in Nat /\ DOMAIN stream = 1 .. Len(stream)
      /\ \A i : (Framed(i)' <=> Framed(i)) /\ (Parses(i)' <=> Parses(i)) /\ After(i)' = After(i)
      /\ at \in 1 .. Len(stream) /\ End = Len(stream) + 1
  BY DEF Slices, End, input, Framed, Parses, After, IInv, Typed
<1>2. /\ answers' \in Seq(Slices)
      /\ n \in Nat /\ DOMAIN answers = 1 .. n
      /\ Len(answers') = n + 1 /\ DOMAIN answers' = 1 .. n + 1
      /\ \A i \in 1 .. n : answers'[i] = answers[i]
      /\ answers'[n + 1] = e
  BY AppendSlice DEF IInv, Typed
<1>3. Framed(n) /\ n < Len(stream) => at = n + 1
  BY DEF IInv, PiecesCounted
<1>4. \A i \in Nat : i > n /\ Framed(i) => Framed(n) /\ Parses(n + 1) /\ stream[n + 1].framed
  BY <1>2 DEF Framed
<1>5. Typed' /\ RemainderKept'
  BY <1>1, <1>2 DEF IInv, Typed, RemainderKept, input
<1>6. PiecesCounted'
  <2> SUFFICES ASSUME pc' = "loop", n + 1 < Len(stream), Framed(n + 1) PROVE at' = n + 2
    BY <1>1, <1>2 DEF PiecesCounted, input
  <2>1. at = n + 1 /\ Parses(at) /\ stream[at].framed
    BY <1>2, <1>3, <1>4
  <2> QED  BY <2>1, <1>2 DEF After
<1>7. PiecesAreBodies'
  <2> SUFFICES ASSUME NEW i \in 1 .. n + 1, Framed(i - 1), i < End, Parses(i)
               PROVE  answers'[i] = Slice(i, After(i))
    BY <1>1, <1>2 DEF PiecesAreBodies, Slice
  <2>1. CASE i = n + 1
    BY <2>1, <1>1, <1>2, <1>3
  <2>2. CASE i \in 1 .. n
    BY <2>2, <1>2 DEF IInv, PiecesAreBodies
  <2> QED  BY <2>1, <2>2, <1>2
<1>8. NoBodyLost'
  <2> SUFFICES ASSUME pc' = "returned", NEW i \in 1 .. Len(stream), Framed(i - 1), Parses(i),
                      ~(i \in 1 .. n + 1)
               PROVE  FALSE
    BY <1>1, <1>2 DEF NoBodyLost, input
  <2>1. i - 1 \in Nat /\ i - 1 > n /\ n < Len(stream)
    BY <1>1, <1>2
  <2>2. at = n + 1 /\ Parses(at)
    BY <2>1, <1>3, <1>4
  <2> QED  BY <2>2
<1> QED
  BY <1>5, <1>6, <1>7, <1>8
  DEF IInv, AnswersBehind, AnswersDisjoint, NothingSkipped, OriginStops, input

LEMMA TransducerInvariant == IInv /\ Transducer => IInv'
<1> SUFFICES ASSUME IInv, Transducer PROVE IInv'
  OBVIOUS
<1>1. /\ role = "transducer" /\ pc = "loop" /\ at < End /\ Len(stream) \in Nat
      /\ at \in 1 .. Len(stream) /\ DOMAIN stream = 1 .. Len(stream)
      /\ response \in 0 .. Len(stream) /\ newAt \in 0 .. End /\ End = Len(stream) + 1
      /\ response # 0 => newAt \in 1 .. End /\ at = newAt
  BY DEF Transducer, TransducerReads, TransducerReadsHTTP09, TransducerReadsAgain, InLoop,
         IInv, Typed, RemainderKept, End
<1>2. After(at) \in 1 .. End
  BY <1>1, UnitKinds DEF IInv
<1>3. CASE TransducerReads
  <2>1. Slice(at, After(at)) \in Slices
    BY <1>1, <1>2 DEF Slices, Slice
  <2> QED  BY <1>1, <1>2, <1>3, <2>1, TransducerAppends DEF TransducerReads
<1>4. CASE TransducerReadsHTTP09
  <2>1. PICK i \in 1 .. Len(stream) : answers' = Append(answers, Slice(i, End))
    BY <1>1, <1>4 DEF TransducerReadsHTTP09
  <2>2. Slice(i, End) \in Slices
    BY <1>1 DEF Slices, Slice
  <2> QED  BY <1>1, <1>4, <2>1, <2>2, TransducerAppends DEF TransducerReadsHTTP09, input
<1>5. CASE TransducerReadsAgain
  <2> DEFINE e == IF stream[response].code = 200 THEN Slice(response, newAt) ELSE Slice(at, newAt)
  <2>1. e \in Slices
    BY <1>1, <1>5 DEF Slices, Slice, TransducerReadsAgain
  <2>2. answers' = Append(answers, e)
    BY <1>5 DEF TransducerReadsAgain
  <2> HIDE DEF e
  <2> QED  BY <1>1, <1>5, <2>1, <2>2, TransducerAppends DEF TransducerReadsAgain, input
<1> QED  BY <1>3, <1>4, <1>5 DEF Transducer

-----------------------------------------------------------------------------
LEMMA NextInvariant == IInv /\ [Next]_vars => IInv'
<1> SUFFICES ASSUME IInv, [Next]_vars PROVE IInv'
  OBVIOUS
<1>1. CASE Return \/ Raise \/ Origin
  BY <1>1, StopsInvariant, OriginReadsInvariant, OriginReadsHTTP2Invariant, OriginReadsHTTP09Invariant
  DEF Origin
<1>2. CASE Transducer
  BY <1>2, TransducerInvariant
<1>3. CASE UNCHANGED vars
  <2>1. /\ \A i : (Reached(i)' <=> Reached(i)) /\ (Dropped(i)' <=> Dropped(i))
        /\ \A i, j : Parsed(i, j)' <=> Parsed(i, j)
        /\ \A i : (Framed(i)' <=> Framed(i)) /\ (Parses(i)' <=> Parses(i)) /\ After(i)' = After(i)
        /\ Slices' = Slices /\ End' = End
    BY <1>3, SameStream DEF vars, input
  <2> QED
    BY <1>3, <2>1 DEF vars, input, IInv, Typed, RemainderKept, AnswersBehind, AnswersDisjoint, NothingSkipped,
       OriginStops, PiecesCounted, PiecesAreBodies, NoBodyLost, Slice, Reported
<1> QED  BY <1>1, <1>2, <1>3 DEF Next

(* The functions' variables keep their types, whatever was read.           *)
THEOREM TypeCorrect == Spec => []ResponsesTypeOK
<1>1. IInv => ResponsesTypeOK
  BY DEF IInv, Typed, Slices, ResponsesTypeOK
<1> QED  BY <1>1, InitInvariant, NextInvariant, PTL DEF Spec

(* Transducer.unparsed_roundtrip relays each body as one piece, in order,  *)
(* cut where its response ends, up to the first bytes that do not parse.   *)
THEOREM BodiesRelayed == Spec => []BodiesAreRelayed
<1>1. IInv => BodiesAreRelayed
  BY DEF IInv, BodiesAreRelayed
<1> QED  BY <1>1, InitInvariant, NextInvariant, PTL DEF Spec

(* Origin.parsed_roundtrip reads no byte of the stream for two answers.    *)
THEOREM AnswersAreDisjoint == Spec => []AnswersDisjoint
<1>1. IInv => AnswersDisjoint
  BY DEF IInv
<1> QED  BY <1>1, InitInvariant, NextInvariant, PTL DEF Spec

(* What Origin.parsed_roundtrip parses behind nothing it could not read it *)
(* reports when it returns, but for a request over HTTP/0.9, and it raises *)
(* only at a response that parse_body raises for.                          *)
THEOREM AnswersAreReported == Spec => []NoAnswerLost
<1>1. IInv => NoAnswerLost
  <2> SUFFICES ASSUME IInv, role = "origin" PROVE NoAnswerLost
    BY DEF NoAnswerLost
  <2>1. at \in 1 .. End /\ Len(stream) \in Nat /\ End = Len(stream) + 1 /\ DOMAIN stream = 1 .. Len(stream)
    BY DEF IInv, Typed, End
  <2>2. ASSUME pc = "raised"
        PROVE  \E i \in DOMAIN stream : Reached(i) /\ stream[i].kind = "raising"
    BY <2>1, <2>2 DEF IInv, OriginStops
  <2>3. ASSUME pc = "returned", NEW i \in DOMAIN stream, NEW j \in DOMAIN stream,
               Reached(i), Parsed(i, j)
        PROVE  Reported(j) <=> ~Dropped(i)
    <3>1. CASE i < at
      BY <2>3, <3>1 DEF IInv, NothingSkipped
    <3>2. CASE i >= at
      <4>1. at < End /\ Dropped(at)
        BY <2>1, <2>3, <3>2 DEF IInv, OriginStops
      <4>2. ~Usable(at)
        BY <4>1 DEF Dropped
      <4>3. i = at
        BY <2>1, <2>3, <3>2, <4>1, <4>2, NothingBehind DEF IInv
      <4>4. j = Len(stream)
        BY <2>3, <4>1, <4>3 DEF Parsed, Dropped
      <4>5. ASSUME NEW a \in DOMAIN answers PROVE answers[a].first # j
        <5>1. answers[a] \in Slices /\ answers[a].first < answers[a].next /\ answers[a].next <= at
          BY DEF IInv, Typed, AnswersBehind
        <5> QED  BY <5>1, <2>1, <4>1, <4>4 DEF Slices
      <4> QED  BY <4>1, <4>3, <4>5 DEF Reported
    <3> QED  BY <2>1, <3>1, <3>2
  <2> QED  BY <2>2, <2>3 DEF NoAnswerLost
<1> QED  BY <1>1, InitInvariant, NextInvariant, PTL DEF Spec
=============================================================================
