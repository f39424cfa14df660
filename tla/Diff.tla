-------------------------------- MODULE Diff --------------------------------
(***************************************************************************)
(* tools/diff.py: the verdict on what two servers made of one payload,     *)
(* benign quirks of either server being excused.                           *)
(*                                                                         *)
(* A request's headers are a function from names, lower-cased as every     *)
(* comparison does, to the values given for the name in order of arrival:  *)
(* the order between two names plays no part.  A value is a sequence of    *)
(* atoms, so that joined duplicates keep their parts and joiners.  Of the  *)
(* URI and body only their identity is kept.                               *)
(***************************************************************************)
EXTENDS Integers, SequencesExt

CONSTANTS
    Names,          \* header names, lower case
    Translated,     \* name -> the name with each "-" replaced by "_"
    Lengths         \* the framing names normalized_headers ignores

ASSUME DiffAssumption ==
    /\ Translated \in [Names -> Names]
    /\ \A n \in Names : Translated[Translated[n]] = Translated[n]
    /\ Lengths \subseteq Names /\ "host" \in Names

(* A place past the end of the shorter list, for zip_longest. *)
None == [kind |-> "none"]

IsRequest(r) == r.kind = "request"
IsResponse(r) == r.kind = "response"

(* The name under which s passes on a header called n (util.translate). *)
TranslatedBy(s, n) == IF s.translates THEN Translated[n] ELSE n

-----------------------------------------------------------------------------
(* normalize_request *)

Joined(values, joiner) ==
    IF values = <<>> THEN <<>>
    ELSE <<FoldLeft(LAMBDA all, v : all \o <<joiner>> \o v, Head(values), Tail(values))>>

(* The headers removed from s1's request when compared with s2's. *)
Ignored(s1, s2) ==
    s1.added \cup s1.trashed \cup s1.removed
        \cup {TranslatedBy(s1, n) : n \in s2.added \cup s2.removed \cup s2.trashed}

(* The values s2 would pass on under one name, counted together.           *)
Together(bags, s2) ==
    [n \in Names \ Lengths |->
        FoldSet(LAMBDA m, bag : bags[m] (+) bag, EmptyBag,
                {m \in Names : TranslatedBy(s2, m) = n})]

NormalizedHeaders(h, s1, s2) ==
    LET joined == [n \in Names |-> IF s2.joins THEN Joined(h[n], s2.joiner) ELSE h[n]]
        kept == [n \in Names |-> IF n \in Ignored(s1, s2) THEN <<>> ELSE joined[n]]
    IN  Together([n \in Names |-> ToBag(kept[n])], s2)

(* HTTPRequest.__eq__ on the normalized requests.                          *)
SameRequest(r1, r2, s1, s2) ==
    /\ r1.method = r2.method /\ r1.content = r2.content
    /\ r1.version = r2.version \/ r1.version = "" \/ r2.version = ""
    /\ NormalizedHeaders(r1.headers, s1, s2) = NormalizedHeaders(r2.headers, s2, s1)

(* remove_request_header, join_duplicate_headers and the translation work  *)
(* on copies; when none of them is called the final sort is done on the    *)
(* caller's own request.                                                   *)
SortsInPlace(s1, s2) ==
    /\ ~s2.joins /\ ~s2.translates
    /\ Ignored(s1, s2) = {}

-----------------------------------------------------------------------------
(* categorize_discrepancy.  An excuse stated for the rejection ra of server *)
(* sa and the request rb of server sb is tried both ways round.            *)

ExcusedByVersion(r1, r2, s1, s2) ==
    \/ IsRequest(r1) /\ r1.version = "0.9" /\ IsResponse(r2) /\ ~s2.allows09
    \/ IsRequest(r2) /\ r2.version = "0.9" /\ IsResponse(r1) /\ ~s2.allows09

LengthRequired(ra, rb, sa, sb) ==
    /\ IsResponse(ra) /\ ra.code = 411 /\ sa.needsLength
    /\ IsRequest(rb) /\ rb.method = "POST" /\ ~sb.needsLength

HostRequired(ra, rb, sa, sb) ==
    /\ ra = None \/ (IsResponse(ra) /\ ra.code = 400)
    /\ ~sa.allowsNoHost
    /\ IsRequest(rb) /\ sb.allowsNoHost /\ rb.headers["host"] = <<>>

MethodRefused(ra, rb, sa) ==
    /\ IsResponse(ra) /\ IsRequest(rb)
    /\ rb.method \in sa.refused

(* Wrong: a refused method is excused for the first server only.           *)
ExcusedForOne(r1, r2, s1, s2) ==
    \/ ExcusedByVersion(r1, r2, s1, s2)
    \/ LengthRequired(r1, r2, s1, s2) \/ LengthRequired(r2, r1, s2, s1)
    \/ HostRequired(r1, r2, s1, s2) \/ HostRequired(r2, r1, s2, s1)
    \/ MethodRefused(r1, r2, s1)

Excused(r1, r2, s1, s2) ==
    \/ ExcusedByVersion(r1, r2, s1, s2)
    \/ LengthRequired(r1, r2, s1, s2) \/ LengthRequired(r2, r1, s2, s1)
    \/ HostRequired(r1, r2, s1, s2) \/ HostRequired(r2, r1, s2, s1)
    \/ MethodRefused(r1, r2, s1) \/ MethodRefused(r2, r1, s2)

Invalid(r) == IsRequest(r) /\ ~r.valid

(* Wrong: silence is excused in the first server only.                     *)
RejectedBySecond(r1, r2) == r1 = None /\ IsResponse(r2) /\ r2.code # 200

RejectedByOneOnly(r1, r2) ==
    \/ r1 = None /\ IsResponse(r2) /\ r2.code # 200
    \/ r2 = None /\ IsResponse(r1) /\ r1.code # 200

(* What one pair of the two streams decides: a verdict, "stop" (break, all *)
(* that follows is excused) or "next".                                     *)
PairVerdict(r1, r2, s1, s2) ==
    IF Invalid(r1) \/ Invalid(r2) THEN "INVALID"
    ELSE IF RejectedByOneOnly(r1, r2) THEN "stop"
    ELSE IF (r1 = None) # (r2 = None) THEN "STREAM_DISCREPANCY"
    ELSE IF IsRequest(r1) # IsRequest(r2) /\ Excused(r1, r2, s1, s2) THEN "stop"
    ELSE IF IsRequest(r1) # IsRequest(r2) THEN "TYPE_DISCREPANCY"
    ELSE IF IsResponse(r1) /\ IsResponse(r2) /\ r1.code # r2.code THEN "RESPONSE_DISCREPANCY"
    ELSE IF IsRequest(r1) /\ IsRequest(r2) /\ ~SameRequest(r1, r2, s1, s2)
         THEN "REQUEST_DISCREPANCY"
    ELSE "next"

(* How much of the two lists is compared, and an element or None.          *)
Compared(pts, s1, s2) ==
    IF (s1.noPersistence \/ s2.noPersistence) /\ pts # <<>> THEN <<pts[1]>> ELSE pts

At(pts, i) == IF i \in DOMAIN pts THEN pts[i] ELSE None

(* The places whose pair decides.                                          *)
Decisive(p1, p2, s1, s2) ==
    {i \in DOMAIN p1 \cup DOMAIN p2 : PairVerdict(At(p1, i), At(p2, i), s1, s2) # "next"}

Decision(p1, p2, s1, s2) ==
    LET d == Decisive(p1, p2, s1, s2)
        v == PairVerdict(At(p1, Min(d)), At(p2, Min(d)), s1, s2)
    IN  IF d = {} \/ v = "stop" THEN "OK" ELSE v

CategorizeDiscrepancy(pts1, pts2, s1, s2) ==
    Decision(Compared(pts1, s1, s2), Compared(pts2, s1, s2), s1, s2)

(* The places at which it normalizes the two requests.                     *)
Normalized(pts1, pts2, s1, s2) ==
    LET p1 == Compared(pts1, s1, s2)
        p2 == Compared(pts2, s1, s2)
        d == Decisive(p1, p2, s1, s2)
    IN  {i \in DOMAIN p1 \cap DOMAIN p2 :
            /\ IsRequest(p1[i]) /\ IsRequest(p2[i]) /\ p1[i].valid /\ p2[i].valid
            /\ \A k \in d : i <= k}

ErrorTypes == {"OK", "TYPE_DISCREPANCY", "RESPONSE_DISCREPANCY",
               "REQUEST_DISCREPANCY", "STREAM_DISCREPANCY", "INVALID"}
-----------------------------------------------------------------------------
(* The verdict does not depend on which of two servers is named first,     *)
(* provided both allow HTTP/0.9 or neither does: a grid need only compute  *)
(* one triangle (grid.py:36).                                              *)
SymmetricVerdict(pts1, pts2, s1, s2) ==
    s1.allows09 = s2.allows09 =>
        CategorizeDiscrepancy(pts1, pts2, s1, s2) = CategorizeDiscrepancy(pts2, pts1, s2, s1)
=============================================================================
