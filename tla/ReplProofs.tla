----------------------------- MODULE ReplProofs -----------------------------
(***************************************************************************)
(* What ends a session, what a server is sent and what is shown, for all   *)
(* lines and services.  First, what the loops over a line and over a       *)
(* statement give: commands are lists of tokens, and a statement that      *)
(* fails with an H2Error holds the number the error is about.  Both are    *)
(* inductions over the loop's rounds.  IInv follows the command under way: *)
(* while it waits for servers it stays the command it was, and cwd what it *)
(* was given.                                                              *)
(* RInv follows the pieces: each has been through what the commands after  *)
(* the one that made it named, and through the transducers asked so far.   *)
(* SInv follows the answers: which command gathered those in cwd, and that *)
(* those of the call under way are at the places of their servers.         *)
(* FInv follows frames: those that h2frames made of a statement stay in    *)
(* cwd until another command puts something else there.                    *)
(***************************************************************************)
EXTENDS Repl, InductionLemmas, FiniteSetTheorems, SequenceTheorems

-----------------------------------------------------------------------------
(* Lines: list_split, once for pipelines and once for commands.            *)
Splits(F, tokens, separator) ==
    F = [n \in 0..Len(tokens) |->
            IF n = 0 THEN <<<<>>>> ELSE OneMoreToken(F[n - 1], tokens[n], separator)]

Parts(T) == Seq(Seq(T)) \ {<<>>}

LEMMA OneMoreTokenTyped ==
    ASSUME NEW T, NEW parts \in Parts(T), NEW t \in T, NEW separator
    PROVE  OneMoreToken(parts, t, separator) \in Parts(T)
<1> DEFINE S == Seq(T)
           n == Len(parts)
<1>1. parts \in Seq(S) /\ parts # <<>>
  BY DEF Parts
<1>2. n \in Nat \ {0} /\ n \in 1..Len(parts)
  BY <1>1
<1>3. CASE t = separator
  <2>1. <<>> \in S
    OBVIOUS
  <2> HIDE DEF S
  <2>2. Append(parts, <<>>) \in Seq(S) /\ Append(parts, <<>>) # <<>>
    BY <1>1, <2>1
  <2> QED
    BY <1>3, <2>2 DEF OneMoreToken, Parts, S
<1>4. CASE t # separator
  <2> DEFINE r == [parts EXCEPT ![n] = Append(parts[n], t)]
  <2>1. parts[n] \in S
    BY <1>1, <1>2
  <2>2. Append(parts[n], t) \in S
    BY <2>1
  <2>3. r \in Seq(S) /\ Len(r) = n
    <3> HIDE DEF S
    <3> QED
      BY <1>1, <1>2, <2>2
  <2>4. r # <<>>
    BY <1>2, <2>3
  <2>5. OneMoreToken(parts, t, separator) = r
    BY <1>4 DEF OneMoreToken
  <2> QED
    BY <2>3, <2>4, <2>5 DEF Parts
<1> QED
  BY <1>3, <1>4

LEMMA SplitAtTyped ==
    ASSUME NEW T, NEW tokens \in Seq(T), NEW separator
    PROVE  SplitAt(tokens, separator) \in Parts(T)
<1> DEFINE P == Parts(T)
           b == <<<<>>>>
           g == [x \in P \X T |-> OneMoreToken(x[1], x[2], separator)]
           R == CHOOSE F : Splits(F, tokens, separator)
<1>1. b \in P
  <2> DEFINE S == Seq(T)
  <2>1. <<>> \in S
    OBVIOUS
  <2> HIDE DEF S
  <2>2. <<<<>>>> \in Seq(S)
    BY <2>1
  <2> QED
    BY <2>2 DEF Parts, S
<1>2. g \in [P \X T -> P]
  <2>1. ASSUME NEW x \in P \X T
        PROVE  OneMoreToken(x[1], x[2], separator) \in P
    BY OneMoreTokenTyped
  <2> QED
    BY <2>1
<1>3. \A p \in P, t \in T : g[<<p, t>>] = OneMoreToken(p, t, separator)
  OBVIOUS
<1> HIDE DEF P, b, g
<1>4. PICK G \in [0..Len(tokens) -> P] : Scans(G, tokens, b, g)
  BY <1>1, <1>2, ScanExists
<1>5. Splits(G, tokens, separator)
  <2>1. ASSUME NEW n \in 0..Len(tokens), n # 0
        PROVE  g[<<G[n - 1], tokens[n]>>] = OneMoreToken(G[n - 1], tokens[n], separator)
    <3>1. n - 1 \in 0..Len(tokens) /\ n \in 1..Len(tokens)
      BY <2>1
    <3>2. G[n - 1] \in P /\ tokens[n] \in T
      BY <1>4, <3>1
    <3> QED
      BY <1>3, <3>2
  <2> DEFINE left == [n \in 0..Len(tokens) |-> IF n = 0 THEN b ELSE g[<<G[n - 1], tokens[n]>>]]
             right == [n \in 0..Len(tokens) |->
                          IF n = 0 THEN b ELSE OneMoreToken(G[n - 1], tokens[n], separator)]
  <2>2. left = right
    BY <2>1
  <2>3. G = left
    BY <1>4 DEF Scans
  <2> QED
    BY <2>2, <2>3 DEF Splits, b
<1>6. Splits(R, tokens, separator)
  BY <1>5
<1>7. SplitAt(tokens, separator) = R[Len(tokens)]
  BY DEF SplitAt, Splits
<1> HIDE DEF R
<1>8. R[0] = b /\ \A n \in 1..Len(tokens) : R[n] = OneMoreToken(R[n - 1], tokens[n], separator)
  <2> DEFINE right == [n \in 0..Len(tokens) |->
                          IF n = 0 THEN b ELSE OneMoreToken(R[n - 1], tokens[n], separator)]
  <2>1. R = right
    BY <1>6 DEF Splits, b
  <2>2. right[0] = b /\ \A n \in 1..Len(tokens) : right[n] = OneMoreToken(R[n - 1], tokens[n], separator)
    OBVIOUS
  <2> HIDE DEF right
  <2> QED
    BY <2>1, <2>2
<1> DEFINE I == {n \in Nat : n <= Len(tokens) => R[n] \in P}
<1>9. 0 \in I
  BY <1>1, <1>8
<1>10. ASSUME NEW n \in Nat, n \in I
       PROVE  n + 1 \in I
  <2> SUFFICES ASSUME n + 1 <= Len(tokens) PROVE R[n + 1] \in P
    OBVIOUS
  <2>1. n + 1 \in 1..Len(tokens) /\ n + 1 - 1 = n /\ n <= Len(tokens)
    OBVIOUS
  <2>2. R[n] \in P /\ tokens[n + 1] \in T
    BY <1>10, <2>1
  <2>3. R[n + 1] = OneMoreToken(R[n], tokens[n + 1], separator)
    BY <1>8, <2>1
  <2> QED
    BY <2>2, <2>3, OneMoreTokenTyped DEF P
<1>11. Nat \subseteq I
  <2> HIDE DEF I
  <2> QED
    BY <1>9, <1>10, SetInduction
<1> QED
  BY <1>7, <1>11 DEF P

LEMMA PipelinesTyped ==
    ASSUME NEW line \in Lines
    PROVE  Pipelines(line) \in Seq(Seq(Seq(STRING))) /\ Pipelines(line) # <<>>
<1> DEFINE S == Seq(STRING)
           Q == Seq(Seq(STRING))
           parts == SplitAt(line, ";")
<1>1. line \in S
  BY ReplAssumption
<1>2. parts \in Seq(S) /\ parts # <<>>
  BY <1>1, SplitAtTyped DEF Parts
<1> HIDE DEF parts
<1>3. Pipelines(line) = [i \in DOMAIN parts |-> SplitAt(parts[i], "|")]
  BY DEF Pipelines, parts
<1>4. ASSUME NEW i \in 1..Len(parts)
      PROVE  SplitAt(parts[i], "|") \in Q
  <2>1. parts[i] \in S
    <3> HIDE DEF S
    <3> QED
      BY <1>2
  <2> QED
    BY <2>1, SplitAtTyped DEF Parts
<1>5. DOMAIN parts = 1..Len(parts) /\ Len(parts) \in Nat \ {0}
  BY <1>2
<1> DEFINE n == Len(parts)
           r == [i \in 1..n |-> SplitAt(parts[i], "|")]
<1> HIDE DEF Q
<1>6. r \in Seq(Q) /\ Len(r) = n
  BY <1>4, <1>5
<1>7. r # <<>>
  BY <1>5, <1>6
<1> QED
  BY <1>3, <1>5, <1>6, <1>7 DEF Q

-----------------------------------------------------------------------------
(* Statements: the parser of h2frames after n tokens.                      *)
Frame ==
    [typ : Int, flags : SUBSET Int, reserved : BOOLEAN, id : Int, payload : STRING \cup {""}]
Parser == [at : Places \cup Refusals, frame : Frame, frames : Seq(Frame)]

LEMMA ParserIs ==
    ASSUME NEW p \in Parser
    PROVE  /\ p.at \in Places \cup Refusals /\ p.frame \in Frame /\ p.frames \in Seq(Frame)
           /\ p.frame.flags \subseteq Int /\ p.frame.id \in Int
BY DEF Parser, Frame

LEMMA StartTyped == Start \in Parser /\ Start.frame.id = 0 /\ Start.at = "outside"
<1>1. NewFrame \in Frame /\ NewFrame.id = 0
  <2>1. {} \in SUBSET Int /\ FALSE \in BOOLEAN /\ 0 \in Int
    OBVIOUS
  <2>4. "" \in STRING \cup {""}
    OBVIOUS
  <2> DEFINE m == -1
  <2>2. NewFrame = [typ |-> m, flags |-> {}, reserved |-> FALSE, id |-> 0, payload |-> ""]
    BY DEF NewFrame
  <2>3. m \in Int
    BY SMT
  <2> HIDE DEF m
  <2> QED
    BY <2>1, <2>2, <2>3, <2>4 DEF Frame
<1>2. <<>> \in Seq(Frame)
  OBVIOUS
<1> QED
  BY <1>1, <1>2 DEF Start, Parser, Places

LEMMA Gone ==
    ASSUME NEW p \in Parser, NEW place \in Places \cup Refusals
    PROVE  Goto(p, place) \in Parser /\ Goto(p, place).at = place /\ Goto(p, place).frame = p.frame
BY DEF Goto, Parser

LEMMA Refused ==
    ASSUME NEW p \in Parser
    PROVE  Refuse(p) \in Parser /\ Refuse(p).at = "REPLParseError" /\ Refuse(p).frame = p.frame
<1>1. "REPLParseError" \in Places \cup Refusals
  BY DEF Refusals
<1> QED
  BY <1>1, Gone DEF Refuse

(* The clauses that set a field.                                           *)
LEMMA FieldSet ==
    ASSUME NEW p \in Parser
    PROVE  /\ \A v \in Int : /\ Set(p, "typ", v) \in Parser
                             /\ Set(p, "typ", v).at = "frame" /\ Set(p, "typ", v).frame.id = p.frame.id
           /\ \A v \in Int : /\ Set(p, "id", v) \in Parser
                             /\ Set(p, "id", v).at = "frame" /\ Set(p, "id", v).frame.id = v
           /\ \A v \in BOOLEAN : /\ Set(p, "reserved", v) \in Parser
                                 /\ Set(p, "reserved", v).at = "frame"
                                 /\ Set(p, "reserved", v).frame.id = p.frame.id
           /\ \A v \in STRING : /\ Set(p, "payload", v) \in Parser
                                /\ Set(p, "payload", v).at = "frame"
                                /\ Set(p, "payload", v).frame.id = p.frame.id
<1> DEFINE f == p.frame
<1>1. p \in Parser /\ f \in Frame /\ "frame" \in Places
  BY ParserIs DEF Places
<1> DEFINE with(field, v) == [p EXCEPT !.at = "frame", !.frame = [f EXCEPT ![field] = v]]
<1>2. \A g \in Frame : LET q == [p EXCEPT !.at = "frame", !.frame = g]
                       IN  q \in Parser /\ q.at = "frame" /\ q.frame = g
  BY <1>1 DEF Parser
<1>3. \A field, v : Set(p, field, v) = [p EXCEPT !.at = "frame", !.frame = [f EXCEPT ![field] = v]]
  BY DEF Set
<1>4. ASSUME NEW v \in Int
      PROVE  /\ [f EXCEPT !["typ"] = v] \in Frame /\ [f EXCEPT !["typ"] = v].id = f.id
             /\ [f EXCEPT !["id"] = v] \in Frame /\ [f EXCEPT !["id"] = v].id = v
  BY <1>1 DEF Frame
<1>5. ASSUME NEW v \in BOOLEAN
      PROVE  [f EXCEPT !["reserved"] = v] \in Frame /\ [f EXCEPT !["reserved"] = v].id = f.id
  BY <1>1 DEF Frame
<1>6. ASSUME NEW v \in STRING
      PROVE  [f EXCEPT !["payload"] = v] \in Frame /\ [f EXCEPT !["payload"] = v].id = f.id
  BY <1>1 DEF Frame
<1> DEFINE put(g) == [p EXCEPT !.at = "frame", !.frame = g]
<1>7. \A field, v : Set(p, field, v) = put([f EXCEPT ![field] = v])
  BY <1>3
<1>8. \A g \in Frame : put(g) \in Parser /\ put(g).at = "frame" /\ put(g).frame = g
  BY <1>2
<1> HIDE DEF put, f
<1>9. ASSUME NEW v \in Int
      PROVE  /\ Set(p, "typ", v) \in Parser
             /\ Set(p, "typ", v).at = "frame" /\ Set(p, "typ", v).frame.id = f.id
  <2> DEFINE g == [f EXCEPT !["typ"] = v]
  <2>1. g \in Frame /\ g.id = f.id
    BY <1>4
  <2>2. Set(p, "typ", v) = put(g)
    BY <1>7
  <2> HIDE DEF g
  <2> QED
    BY <1>8, <2>1, <2>2
<1>10. ASSUME NEW v \in Int
       PROVE  /\ Set(p, "id", v) \in Parser
              /\ Set(p, "id", v).at = "frame" /\ Set(p, "id", v).frame.id = v
  <2> DEFINE g == [f EXCEPT !["id"] = v]
  <2>1. g \in Frame /\ g.id = v
    BY <1>4
  <2>2. Set(p, "id", v) = put(g)
    BY <1>7
  <2> HIDE DEF g
  <2> QED
    BY <1>8, <2>1, <2>2
<1>11. ASSUME NEW v \in BOOLEAN
       PROVE  /\ Set(p, "reserved", v) \in Parser
              /\ Set(p, "reserved", v).at = "frame" /\ Set(p, "reserved", v).frame.id = f.id
  <2> DEFINE g == [f EXCEPT !["reserved"] = v]
  <2>1. g \in Frame /\ g.id = f.id
    BY <1>5
  <2>2. Set(p, "reserved", v) = put(g)
    BY <1>7
  <2> HIDE DEF g
  <2> QED
    BY <1>8, <2>1, <2>2
<1>12. ASSUME NEW v \in STRING
       PROVE  /\ Set(p, "payload", v) \in Parser
              /\ Set(p, "payload", v).at = "frame" /\ Set(p, "payload", v).frame.id = f.id
  <2> DEFINE g == [f EXCEPT !["payload"] = v]
  <2>1. g \in Frame /\ g.id = f.id
    BY <1>6
  <2>2. Set(p, "payload", v) = put(g)
    BY <1>7
  <2> HIDE DEF g
  <2> QED
    BY <1>8, <2>1, <2>2
<1> QED
  BY <1>9, <1>10, <1>11, <1>12 DEF f

LEMMA FlagsSet ==
    ASSUME NEW p \in Parser, NEW flags \in SUBSET Int, NEW place \in Places
    PROVE  LET q == [p EXCEPT !.at = place, !.frame.flags = flags]
           IN  q \in Parser /\ q.at = place /\ q.frame.id = p.frame.id
<1> DEFINE f == p.frame
           g == [f EXCEPT !.flags = flags]
<1>1. p \in Parser /\ f \in Frame
  BY ParserIs
<1>2. g \in Frame /\ g.id = f.id
  BY <1>1 DEF Frame
<1> HIDE DEF g
<1>3. LET q == [p EXCEPT !.at = place, !.frame = g]
      IN  q \in Parser /\ q.at = place /\ q.frame = g
  BY <1>1, <1>2 DEF Parser
<1> QED
  BY <1>2, <1>3 DEF g

(* What one token does to the parser.                                      *)
ReadTo(p, t, q) ==
    /\ q \in Parser
    /\ q.frame.id \in {0, p.frame.id} \/ (t \in DOMAIN Number /\ q.frame.id = Number[t])
    /\ q.at = "H2Error" => q = p \/ q.frame.id \notin 0..MaxStreamId

LEMMA ReadsOn ==
    ASSUME NEW p \in Parser, NEW t, NEW q \in Parser, q.frame.id = p.frame.id, q.at # "H2Error"
    PROVE  ReadTo(p, t, q)
BY DEF ReadTo

LEMMA RefusesOn ==
    ASSUME NEW p \in Parser, NEW t
    PROVE  ReadTo(p, t, Refuse(p))
BY Refused, ReadsOn

LEMMA OutsideReads ==
    ASSUME NEW p \in Parser, p.at = "outside", NEW t
    PROVE  ReadTo(p, t, Outside(p, t))
<1>1. CASE t = "pri"
  <2> DEFINE q == [p EXCEPT !.frames = Append(p.frames, Pri)]
  <2>1. Pri \in Frame
    <3>1. {} \in SUBSET Int /\ FALSE \in BOOLEAN /\ 0 \in Int /\ 256 \in Int
      OBVIOUS
    <3>2. "" \in STRING \cup {""}
      OBVIOUS
    <3> QED
      BY <3>1, <3>2 DEF Pri, Frame
  <2>2. Append(p.frames, Pri) \in Seq(Frame)
    BY <2>1, ParserIs
  <2>3. q \in Parser /\ q.frame = p.frame /\ q.at = p.at
    BY <2>2 DEF Parser
  <2>4. q.at # "H2Error"
    BY <2>3
  <2>5. Outside(p, t) = q
    BY <1>1 DEF Outside
  <2> QED
    BY <2>3, <2>4, <2>5, ReadsOn
<1>2. CASE t # "pri" /\ t = "["
  <2> DEFINE q == [p EXCEPT !.at = "frame", !.frame = NewFrame]
  <2>1. NewFrame \in Frame /\ NewFrame.id = 0
    BY StartTyped, ParserIs DEF Start
  <2>2. q \in Parser /\ q.frame.id = 0 /\ q.at = "frame"
    BY <2>1 DEF Parser, Places
  <2>3. Outside(p, t) = q
    BY <1>2 DEF Outside, Opened
  <2> QED
    BY <2>2, <2>3 DEF ReadTo
<1>3. CASE t # "pri" /\ t # "["
  BY <1>3, RefusesOn DEF Outside
<1> QED
  BY <1>1, <1>2, <1>3

LEMMA ClosedReads ==
    ASSUME NEW p \in Parser, NEW t
    PROVE  ReadTo(p, t, Closed(p))
<1>1. CASE p.frame.typ = -1
  BY <1>1, RefusesOn DEF Closed
<1>2. CASE p.frame.typ # -1 /\ p.frame.id \notin 0..MaxStreamId
  <2>1. "H2Error" \in Places \cup Refusals
    BY DEF Refusals
  <2> DEFINE q == Goto(p, "H2Error")
  <2>2. q \in Parser /\ q.frame = p.frame
    BY <2>1, Gone
  <2>3. Closed(p) = q
    BY <1>2 DEF Closed
  <2> HIDE DEF q
  <2> QED
    BY <1>2, <2>2, <2>3 DEF ReadTo
<1>3. CASE p.frame.typ # -1 /\ p.frame.id \in 0..MaxStreamId
  <2> DEFINE q == [p EXCEPT !.at = "outside", !.frames = Append(p.frames, p.frame)]
  <2>1. Append(p.frames, p.frame) \in Seq(Frame)
    BY ParserIs
  <2>2. q \in Parser /\ q.frame = p.frame /\ q.at = "outside"
    BY <2>1 DEF Parser, Places
  <2>3. Closed(p) = q
    BY <1>3 DEF Closed
  <2> HIDE DEF q
  <2> QED
    BY <2>2, <2>3, ReadsOn
<1> QED
  BY <1>1, <1>2, <1>3

LEMMA InFrameReads ==
    ASSUME NEW p \in Parser, p.at = "frame", NEW t
    PROVE  ReadTo(p, t, InFrame(p, t))
<1>1. CASE t \in {"type", "flags", "payload"}
  <2>1. t \in Places \cup Refusals /\ t # "H2Error"
    BY <1>1 DEF Places
  <2>2. InFrame(p, t) = Goto(p, t)
    BY <1>1 DEF InFrame
  <2> QED
    BY <2>1, <2>2, Gone, ReadsOn
<1>2. CASE t \in {"id", "stream_id"}
  <2>1. "id" \in Places \cup Refusals
    BY DEF Places
  <2>2. InFrame(p, t) = Goto(p, "id")
    BY <1>2 DEF InFrame
  <2> QED
    BY <2>1, <2>2, Gone, ReadsOn
<1>3. CASE t = "reserved"
  <2>1. InFrame(p, t) = Set(p, "reserved", TRUE)
    BY <1>3 DEF InFrame
  <2> QED
    BY <2>1, FieldSet, ReadsOn
<1>4. CASE t = "]"
  <2>1. InFrame(p, t) = Closed(p)
    BY <1>4 DEF InFrame
  <2> QED
    BY <2>1, ClosedReads
<1>5. CASE t \notin {"type", "flags", "payload", "id", "stream_id", "reserved", "]"}
  <2>1. InFrame(p, t) = p
    BY <1>5 DEF InFrame
  <2> QED
    BY <2>1, ReadsOn
<1> QED
  BY <1>1, <1>2, <1>3, <1>4, <1>5

LEMMA TypesAreNumbers ==
    ASSUME NEW t \in DOMAIN Types
    PROVE  Types[t] \in Int
BY DEF Types

LEMMA FlagsAreNumbers ==
    ASSUME NEW t \in DOMAIN Flags
    PROVE  Flags[t] \in Int
BY DEF Flags

LEMMA TypeReads ==
    ASSUME NEW p \in Parser, NEW t
    PROVE  ReadTo(p, t, TypeClause(p, t))
<1>1. CASE t \in DOMAIN Types
  <2>1. TypeClause(p, t) = Set(p, "typ", Types[t])
    BY <1>1 DEF TypeClause
  <2> QED
    BY <1>1, <2>1, TypesAreNumbers, FieldSet, ReadsOn
<1>2. CASE t \notin DOMAIN Types /\ t \in DOMAIN Number /\ Number[t] \in Octets
  <2>1. TypeClause(p, t) = Set(p, "typ", Number[t])
    BY <1>2 DEF TypeClause
  <2> QED
    BY <1>2, <2>1, StatementAssumption, FieldSet, ReadsOn
<1>3. CASE t \notin DOMAIN Types /\ ~(t \in DOMAIN Number /\ Number[t] \in Octets)
  BY <1>3, RefusesOn DEF TypeClause
<1> QED
  BY <1>1, <1>2, <1>3

LEMMA FlagsOpenedReads ==
    ASSUME NEW p \in Parser, NEW t
    PROVE  ReadTo(p, t, FlagsOpened(p, t))
<1>1. CASE t = "{"
  <2> DEFINE q == [p EXCEPT !.at = "flag", !.frame.flags = {}]
  <2>1. "flag" \in Places /\ {} \in SUBSET Int
    BY DEF Places
  <2>2. q \in Parser /\ q.at = "flag" /\ q.frame.id = p.frame.id
    BY <2>1, FlagsSet
  <2>3. FlagsOpened(p, t) = q
    BY <1>1 DEF FlagsOpened
  <2> HIDE DEF q
  <2> QED
    BY <2>2, <2>3, ReadsOn
<1>2. CASE t # "{"
  BY <1>2, RefusesOn DEF FlagsOpened
<1> QED
  BY <1>1, <1>2

WithFlag(p, v) == [p EXCEPT !.frame.flags = @ \cup {v}]

LEMMA FlagAdded ==
    ASSUME NEW p \in Parser, p.at = "flag", NEW v \in Int, NEW t
    PROVE  ReadTo(p, t, WithFlag(p, v))
<1> DEFINE f == p.frame
           flags == f.flags \cup {v}
           g == [f EXCEPT !.flags = flags]
           q == [p EXCEPT !.frame = g]
<1>1. f \in Frame /\ flags \in SUBSET Int
  BY ParserIs
<1>2. g \in Frame /\ g.id = f.id
  BY <1>1 DEF Frame
<1>3. WithFlag(p, v) = q
  BY DEF WithFlag
<1> HIDE DEF g
<1>4. q \in Parser /\ q.at = "flag" /\ q.frame = g
  BY <1>2 DEF Parser
<1> QED
  BY <1>2, <1>3, <1>4, ReadsOn

LEMMA FlagReads ==
    ASSUME NEW p \in Parser, p.at = "flag", NEW t
    PROVE  ReadTo(p, t, FlagClause(p, t))
<1>1. CASE t = "}"
  <2>1. "frame" \in Places \cup Refusals
    BY DEF Places
  <2>2. FlagClause(p, t) = Goto(p, "frame")
    BY <1>1 DEF FlagClause
  <2> QED
    BY <2>1, <2>2, Gone, ReadsOn
<1>2. CASE t # "}" /\ t \in DOMAIN Flags
  <2>1. FlagClause(p, t) = WithFlag(p, Flags[t])
    BY <1>2 DEF FlagClause, WithFlag
  <2> QED
    BY <1>2, <2>1, FlagsAreNumbers, FlagAdded
<1>3. CASE t # "}" /\ t \notin DOMAIN Flags /\ t \in DOMAIN Number /\ Number[t] \in FlagBits
  <2>1. FlagClause(p, t) = WithFlag(p, Number[t])
    BY <1>3 DEF FlagClause, WithFlag
  <2> QED
    BY <1>3, <2>1, StatementAssumption, FlagAdded
<1>4. CASE t # "}" /\ t \notin DOMAIN Flags /\ ~(t \in DOMAIN Number /\ Number[t] \in FlagBits)
  BY <1>4, RefusesOn DEF FlagClause
<1> QED
  BY <1>1, <1>2, <1>3, <1>4

LEMMA IdReads ==
    ASSUME NEW p \in Parser, NEW t
    PROVE  ReadTo(p, t, IdClause(p, t))
<1>1. CASE t \in DOMAIN Number
  <2> DEFINE q == Set(p, "id", Number[t])
  <2>1. IdClause(p, t) = q
    BY <1>1 DEF IdClause
  <2>3. Number[t] \in Int
    BY <1>1, StatementAssumption
  <2>2. q \in Parser /\ q.at = "frame" /\ q.frame.id = Number[t]
    BY <2>3, FieldSet
  <2> HIDE DEF q
  <2> QED
    BY <1>1, <2>1, <2>2 DEF ReadTo
<1>2. CASE t \notin DOMAIN Number
  BY <1>2, RefusesOn DEF IdClause
<1> QED
  BY <1>1, <1>2

LEMMA PayloadReads ==
    ASSUME NEW p \in Parser, NEW t \in STRING
    PROVE  ReadTo(p, t, PayloadClause(p, t))
<1>1. CASE t \in Unencodable
  BY <1>1, RefusesOn DEF PayloadClause
<1>2. CASE t \notin Unencodable
  <2>1. PayloadClause(p, t) = Set(p, "payload", t)
    BY <1>2 DEF PayloadClause
  <2> QED
    BY <2>1, FieldSet, ReadsOn
<1> QED
  BY <1>1, <1>2

LEMMA Reads ==
    ASSUME NEW p \in Parser, NEW t \in STRING
    PROVE  ReadTo(p, t, Read(p, t))
<1>1. CASE p.at = "outside"
  <2>1. Read(p, t) = Outside(p, t)
    BY <1>1 DEF Read, Refusals
  <2> QED
    BY <1>1, <2>1, OutsideReads
<1>2. CASE p.at = "frame"
  <2>1. Read(p, t) = InFrame(p, t)
    BY <1>2 DEF Read, Refusals
  <2> QED
    BY <1>2, <2>1, InFrameReads
<1>3. CASE p.at = "type"
  <2>1. Read(p, t) = TypeClause(p, t)
    BY <1>3 DEF Read, Refusals
  <2> QED
    BY <1>3, <2>1, TypeReads
<1>4. CASE p.at = "flags"
  <2>1. Read(p, t) = FlagsOpened(p, t)
    BY <1>4 DEF Read, Refusals
  <2> QED
    BY <1>4, <2>1, FlagsOpenedReads
<1>5. CASE p.at = "flag"
  <2>1. Read(p, t) = FlagClause(p, t)
    BY <1>5 DEF Read, Refusals
  <2> QED
    BY <1>5, <2>1, FlagReads
<1>6. CASE p.at = "id"
  <2>1. Read(p, t) = IdClause(p, t)
    BY <1>6 DEF Read, Refusals
  <2> QED
    BY <1>6, <2>1, IdReads
<1>7. CASE p.at = "payload"
  <2>1. Read(p, t) = PayloadClause(p, t)
    BY <1>7 DEF Read, Refusals
  <2> QED
    BY <1>7, <2>1, PayloadReads
<1>8. CASE p.at \in Refusals
  <2>1. p.at \notin {"outside", "frame", "type", "flags", "flag", "id", "payload"}
    BY <1>8 DEF Refusals
  <2>2. Read(p, t) = p
    BY <1>8, <2>1 DEF Read
  <2> QED
    BY <2>2 DEF ReadTo
<1>9. p.at \in Places \cup Refusals
  BY ParserIs
<1> QED
  BY <1>1, <1>2, <1>3, <1>4, <1>5, <1>6, <1>7, <1>8, <1>9 DEF Places

(* An identifier is 0 or some token's number, and the error is about it.   *)
IdIsSaid(p, tokens, n) ==
    /\ p.frame.id = 0 \/ \E j \in 1..n : tokens[j] \in DOMAIN Number /\ p.frame.id = Number[tokens[j]]
    /\ p.at = "H2Error" => p.frame.id \notin 0..MaxStreamId

LEMMA IdStaysSaid ==
    ASSUME NEW tokens \in Seq(STRING), NEW n \in Nat, n + 1 <= Len(tokens),
           NEW p \in Parser, IdIsSaid(p, tokens, n)
    PROVE  /\ Read(p, tokens[n + 1]) \in Parser
           /\ IdIsSaid(Read(p, tokens[n + 1]), tokens, n + 1)
<1> DEFINE t == tokens[n + 1]
           q == Read(p, t)
<1>1. n + 1 \in 1..Len(tokens) /\ n + 1 \in 1..n + 1 /\ 1..n \subseteq 1..n + 1
  OBVIOUS
<1>2. t \in STRING
  BY <1>1
<1> HIDE DEF q
<1>3. ReadTo(p, t, q)
  BY <1>2, Reads DEF q
<1>4. q.frame.id = 0 \/ q.frame.id = p.frame.id \/ (t \in DOMAIN Number /\ q.frame.id = Number[t])
  BY <1>3 DEF ReadTo
<1>5. q.frame.id = 0 \/ \E j \in 1..n + 1 : tokens[j] \in DOMAIN Number /\ q.frame.id = Number[tokens[j]]
  <2>1. CASE q.frame.id = 0
    BY <2>1
  <2>2. CASE q.frame.id = p.frame.id
    BY <1>1, <2>2 DEF IdIsSaid
  <2>3. CASE t \in DOMAIN Number /\ q.frame.id = Number[t]
    BY <1>1, <2>3
  <2> QED
    BY <1>4, <2>1, <2>2, <2>3
<1>6. q.at = "H2Error" => q.frame.id \notin 0..MaxStreamId
  BY <1>3 DEF ReadTo, IdIsSaid
<1> QED
  BY <1>3, <1>5, <1>6 DEF ReadTo, IdIsSaid, q

Parses(F, tokens) ==
    F = [n \in 0..Len(tokens) |-> IF n = 0 THEN Start ELSE Read(F[n - 1], tokens[n])]

LEMMA ErrorIsAboutAnId ==
    ASSUME NEW tokens \in Seq(STRING), Statement(tokens).at = "H2Error"
    PROVE  \E t \in ToSet(tokens) \cap DOMAIN Number : Number[t] \notin 0..MaxStreamId
<1> DEFINE P == Parser
           T == STRING
           b == Start
           g == [x \in P \X T |-> Read(x[1], x[2])]
           R == CHOOSE F : Parses(F, tokens)
<1>1. b \in P
  BY StartTyped
<1>2. g \in [P \X T -> P]
  <2>1. ASSUME NEW x \in P \X T
        PROVE  Read(x[1], x[2]) \in P
    <3>1. x[1] \in P /\ x[2] \in STRING
      OBVIOUS
    <3> QED
      BY <3>1, Reads DEF ReadTo
  <2> QED
    BY <2>1
<1>3. \A p \in P, t \in T : g[<<p, t>>] = Read(p, t)
  OBVIOUS
<1>4. tokens \in Seq(T)
  OBVIOUS
<1> HIDE DEF P, T, b, g
<1>5. PICK G \in [0..Len(tokens) -> P] : Scans(G, tokens, b, g)
  BY <1>1, <1>2, <1>4, ScanExists
<1>6. Parses(G, tokens)
  <2>1. ASSUME NEW n \in 0..Len(tokens), n # 0
        PROVE  g[<<G[n - 1], tokens[n]>>] = Read(G[n - 1], tokens[n])
    <3>1. n - 1 \in 0..Len(tokens) /\ n \in 1..Len(tokens)
      BY <2>1
    <3>2. G[n - 1] \in P /\ tokens[n] \in T
      BY <1>4, <1>5, <3>1
    <3> QED
      BY <1>3, <3>2
  <2> DEFINE left == [n \in 0..Len(tokens) |-> IF n = 0 THEN b ELSE g[<<G[n - 1], tokens[n]>>]]
             right == [n \in 0..Len(tokens) |-> IF n = 0 THEN b ELSE Read(G[n - 1], tokens[n])]
  <2>2. left = right
    BY <2>1
  <2>3. G = left
    BY <1>5 DEF Scans
  <2> QED
    BY <2>2, <2>3 DEF Parses, b
<1>7. Parses(R, tokens)
  BY <1>6
<1>8. Statement(tokens) = AtEnd(R[Len(tokens)])
  BY DEF Statement, Parses
<1> HIDE DEF R
<1>9. R[0] = b /\ \A n \in 1..Len(tokens) : R[n] = Read(R[n - 1], tokens[n])
  <2> DEFINE right == [n \in 0..Len(tokens) |-> IF n = 0 THEN b ELSE Read(R[n - 1], tokens[n])]
  <2>1. R = right
    BY <1>7 DEF Parses, b
  <2>2. right[0] = b /\ \A n \in 1..Len(tokens) : right[n] = Read(R[n - 1], tokens[n])
    OBVIOUS
  <2> HIDE DEF right
  <2> QED
    BY <2>1, <2>2
<1> DEFINE I == {n \in Nat : n <= Len(tokens) => R[n] \in P /\ IdIsSaid(R[n], tokens, n)}
<1>10. 0 \in I
  <2>1. b.frame.id = 0 /\ b.at = "outside"
    BY StartTyped DEF b
  <2> QED
    BY <1>1, <1>9, <2>1 DEF IdIsSaid
<1>11. ASSUME NEW n \in Nat, n \in I
       PROVE  n + 1 \in I
  <2> SUFFICES ASSUME n + 1 <= Len(tokens) PROVE R[n + 1] \in P /\ IdIsSaid(R[n + 1], tokens, n + 1)
    OBVIOUS
  <2>1. n + 1 \in 1..Len(tokens) /\ n + 1 - 1 = n /\ n <= Len(tokens)
    OBVIOUS
  <2>2. R[n] \in Parser /\ IdIsSaid(R[n], tokens, n)
    BY <1>11, <2>1 DEF P
  <2>3. R[n + 1] = Read(R[n], tokens[n + 1])
    BY <1>9, <2>1
  <2> QED
    BY <2>2, <2>3, IdStaysSaid DEF P
<1>12. Nat \subseteq I
  <2> HIDE DEF I
  <2> QED
    BY <1>10, <1>11, SetInduction
<1> DEFINE last == R[Len(tokens)]
<1>13. last \in Parser /\ IdIsSaid(last, tokens, Len(tokens))
  BY <1>12 DEF P
<1> HIDE DEF last
<1>14. last.at = "H2Error"
  <2>1. CASE last.at \in {"outside"} \cup Refusals
    BY <1>8, <2>1 DEF AtEnd, last
  <2>2. CASE last.at \notin {"outside"} \cup Refusals
    <3>1. Statement(tokens) = Refuse(last)
      BY <1>8, <2>2 DEF AtEnd, last
    <3>2. Statement(tokens).at = "REPLParseError"
      BY <1>13, <3>1, Refused
    <3> QED
      BY <3>2
  <2> QED
    BY <2>1, <2>2
<1>15. last.frame.id \notin 0..MaxStreamId /\ 0 \in 0..MaxStreamId
  <2>1. MaxStreamId \in Nat
    BY SMT DEF MaxStreamId
  <2> QED
    BY <1>13, <1>14, <2>1 DEF IdIsSaid
<1>16. PICK j \in 1..Len(tokens) : tokens[j] \in DOMAIN Number /\ last.frame.id = Number[tokens[j]]
  BY <1>13, <1>15 DEF IdIsSaid
<1>17. tokens[j] \in ToSet(tokens)
  BY DEF ToSet
<1> QED
  BY <1>15, <1>16, <1>17

-----------------------------------------------------------------------------
(* Statements that were written for given frames.  Each clause is followed *)
(* token by token from where the parser stands, the statement frame by     *)
(* frame.                                                                  *)

(* Reading the tokens leads the parser from p to q.                        *)
ReadsAlong(F, s) == \A n \in 1..Len(s) : F[n] = Read(F[n - 1], s[n])
Leads(p, s, q) == \E F : F[0] = p /\ F[Len(s)] = q /\ ReadsAlong(F, s)

LEMMA LeadsNowhere ==
    ASSUME NEW p
    PROVE  Leads(p, <<>>, p)
<1> DEFINE F == [n \in 0..0 |-> p]
<1>1. F[0] = p /\ Len(<<>>) = 0 /\ ReadsAlong(F, <<>>)
  BY DEF ReadsAlong
<1> QED
  BY <1>1 DEF Leads

LEMMA LeadsOne ==
    ASSUME NEW p, NEW t, NEW q, Read(p, t) = q
    PROVE  Leads(p, <<t>>, q)
<1> DEFINE F == [n \in 0..1 |-> IF n = 0 THEN p ELSE q]
<1>1. F[0] = p /\ F[1] = q
  OBVIOUS
<1>2. Len(<<t>>) = 1 /\ <<t>>[1] = t
  OBVIOUS
<1> HIDE DEF F
<1>3. ReadsAlong(F, <<t>>)
  BY <1>1, <1>2 DEF ReadsAlong
<1> QED
  BY <1>1, <1>2, <1>3 DEF Leads

LEMMA LeadsOn ==
    ASSUME NEW S, NEW s \in Seq(S), NEW t \in Seq(S), NEW p, NEW q, NEW r,
           Leads(p, s, q), Leads(q, t, r)
    PROVE  s \o t \in Seq(S) /\ Leads(p, s \o t, r)
<1>1. PICK F : F[0] = p /\ F[Len(s)] = q /\ ReadsAlong(F, s)
  BY DEF Leads
<1>2. PICK G : G[0] = q /\ G[Len(t)] = r /\ ReadsAlong(G, t)
  BY DEF Leads
<1> DEFINE m == Len(s)
           n == Len(t)
           u == s \o t
           H == [i \in 0..m + n |-> IF i <= m THEN F[i] ELSE G[i - m]]
<1>3. m \in Nat /\ n \in Nat /\ Len(u) = m + n
  OBVIOUS
<1>4. (\A i \in 1..m : u[i] = s[i]) /\ (\A i \in 1..n : u[m + i] = t[i])
  OBVIOUS
<1>5. (\A i \in 0..m : H[i] = F[i]) /\ (\A i \in 1..n : H[m + i] = G[i])
  <2> HIDE DEF m, n
  <2> QED
    BY <1>3
<1>6. H[m] = G[0]
  BY <1>1, <1>2, <1>3, <1>5
<1> HIDE DEF m, n, u, H
<1>7. \A i \in 0..n : H[m + i] = G[i]
  BY <1>3, <1>5, <1>6
<1>8. ASSUME NEW i \in 1..m + n
      PROVE  H[i] = Read(H[i - 1], u[i])
  <2>1. CASE i <= m
    <3>1. i \in 1..m /\ i \in 0..m /\ i - 1 \in 0..m
      BY <1>3, <2>1
    <3>2. F[i] = Read(F[i - 1], s[i])
      BY <1>1, <3>1 DEF ReadsAlong, m
    <3> QED
      BY <1>4, <1>5, <3>1, <3>2
  <2>2. CASE i > m
    <3> DEFINE k == i - m
    <3>1. k \in 1..n /\ k \in 0..n /\ k - 1 \in 0..n /\ m + k = i /\ m + (k - 1) = i - 1
      BY <1>3, <2>2
    <3>2. G[k] = Read(G[k - 1], t[k])
      BY <1>2, <3>1 DEF ReadsAlong, n
    <3> HIDE DEF k
    <3>3. H[m + k] = G[k] /\ H[m + (k - 1)] = G[k - 1] /\ u[m + k] = t[k]
      BY <1>4, <1>7, <3>1
    <3> QED
      BY <3>1, <3>2, <3>3
  <2> QED
    BY <1>3, <2>1, <2>2
<1>9. H[0] = p /\ H[m + n] = r
  BY <1>1, <1>2, <1>3, <1>5, <1>7 DEF m, n
<1>10. ReadsAlong(H, u)
  BY <1>3, <1>8 DEF ReadsAlong
<1>11. Leads(p, u, r)
  BY <1>3, <1>9, <1>10 DEF Leads
<1>12. u \in Seq(S)
  BY DEF u
<1> QED
  BY <1>11, <1>12 DEF u

(* A statement is what reading its tokens from the start leads to.         *)
LEMMA StatementIs ==
    ASSUME NEW S, NEW tokens \in Seq(S), NEW q, Leads(Start, tokens, q)
    PROVE  Statement(tokens) = AtEnd(q)
<1>1. PICK F : F[0] = Start /\ F[Len(tokens)] = q /\ ReadsAlong(F, tokens)
  BY DEF Leads
<1> DEFINE m == Len(tokens)
           G == [n \in 0..m |-> F[n]]
           R == CHOOSE H : Parses(H, tokens)
<1>2. m \in Nat
  OBVIOUS
<1>3. Parses(G, tokens)
  <2>1. ASSUME NEW n \in 0..m
        PROVE  F[n] = IF n = 0 THEN Start ELSE Read(G[n - 1], tokens[n])
    <3>1. CASE n = 0
      BY <1>1, <3>1
    <3>2. CASE n # 0
      <4>1. n \in 1..m /\ n - 1 \in 0..m
        BY <1>2, <3>2
      <4>2. G[n - 1] = F[n - 1] /\ F[n] = Read(F[n - 1], tokens[n])
        BY <1>1, <4>1 DEF ReadsAlong
      <4> QED
        BY <3>2, <4>2
    <3> QED
      BY <3>1, <3>2
  <2> DEFINE right == [n \in 0..m |-> IF n = 0 THEN Start ELSE Read(G[n - 1], tokens[n])]
  <2>2. G = right
    BY <2>1
  <2> QED
    BY <2>2 DEF Parses
<1> HIDE DEF G
<1>4. Parses(R, tokens)
  BY <1>3
<1>5. Statement(tokens) = AtEnd(R[m])
  BY DEF Statement, Parses
<1> HIDE DEF R
<1>6. R[0] = Start /\ \A n \in 1..m : R[n] = Read(R[n - 1], tokens[n])
  <2> DEFINE right == [n \in 0..m |-> IF n = 0 THEN Start ELSE Read(R[n - 1], tokens[n])]
  <2>1. R = right
    BY <1>4 DEF Parses
  <2>2. right[0] = Start /\ \A n \in 1..m : right[n] = Read(R[n - 1], tokens[n])
    BY <1>2
  <2> HIDE DEF right
  <2> QED
    BY <2>1, <2>2
<1>7. \A n \in 1..m : F[n] = Read(F[n - 1], tokens[n])
  BY <1>1 DEF ReadsAlong
<1> DEFINE I == {n \in Nat : n <= m => R[n] = F[n]}
<1>8. 0 \in I
  BY <1>1, <1>6
<1>9. ASSUME NEW n \in Nat, n \in I
      PROVE  n + 1 \in I
  <2> SUFFICES ASSUME n + 1 <= m PROVE R[n + 1] = F[n + 1]
    OBVIOUS
  <2>1. n + 1 \in 1..m /\ n + 1 - 1 = n /\ R[n] = F[n]
    BY <1>2, <1>9
  <2> QED
    BY <1>6, <1>7, <2>1
<1>10. Nat \subseteq I
  <2> HIDE DEF I
  <2> QED
    BY <1>8, <1>9, SetInduction
<1>11. R[m] = q
  BY <1>1, <1>2, <1>10
<1> QED
  BY <1>5, <1>11

-----------------------------------------------------------------------------
(* The tokens of written frames, one by one.                               *)
Standing(place, frame, frames) == [at |-> place, frame |-> frame, frames |-> frames]
FrameOf(typ, flags, reserved, id, payload) ==
    [typ |-> typ, flags |-> flags, reserved |-> reserved, id |-> id, payload |-> payload]

LEMMA TokenIs ==
    ASSUME NEW n \in Range(Number)
    PROVE  /\ Token(n) \in DOMAIN Number /\ Number[Token(n)] = n
           /\ Token(n) \notin DOMAIN Types /\ Token(n) \notin DOMAIN Flags /\ Token(n) # "}"
<1>1. \E t \in DOMAIN Number : Number[t] = n
  BY DEF Range
<1>2. Token(n) \in DOMAIN Number /\ Number[Token(n)] = n
  BY <1>1 DEF Token
<1> QED
  BY <1>2, StatementAssumption

LEMMA ReadPri ==
    ASSUME NEW g, NEW fs
    PROVE  Read(Standing("outside", g, fs), "pri") = Standing("outside", g, Append(fs, Pri))
<1> DEFINE p == Standing("outside", g, fs)
<1>1. Read(p, "pri") = Outside(p, "pri")
  BY DEF Read, Standing, Refusals
<1> QED
  BY <1>1 DEF Outside, Standing

LEMMA ReadOpening ==
    ASSUME NEW g, NEW fs
    PROVE  Read(Standing("outside", g, fs), "[") = Standing("frame", NewFrame, fs)
<1> DEFINE p == Standing("outside", g, fs)
<1>1. Read(p, "[") = Outside(p, "[")
  BY DEF Read, Standing, Refusals
<1> QED
  BY <1>1 DEF Outside, Opened, Standing

LEMMA ReadWord ==
    ASSUME NEW g, NEW fs, NEW t \in {"type", "flags", "id", "payload"}
    PROVE  Read(Standing("frame", g, fs), t) = Standing(t, g, fs)
<1> DEFINE p == Standing("frame", g, fs)
<1>1. Read(p, t) = InFrame(p, t)
  BY DEF Read, Standing, Refusals
<1>2. InFrame(p, t) = Goto(p, t)
  <2>1. CASE t \in {"type", "flags", "payload"}
    BY <2>1 DEF InFrame
  <2>2. CASE t = "id"
    BY <2>2 DEF InFrame
  <2> QED
    BY <2>1, <2>2
<1> QED
  BY <1>1, <1>2 DEF Goto, Standing

With(frame, field, v) == [frame EXCEPT ![field] = v]

LEMMA WithIs ==
    ASSUME NEW t, NEW f, NEW r, NEW i, NEW l, NEW v
    PROVE  /\ With(FrameOf(t, f, r, i, l), "typ", v) = FrameOf(v, f, r, i, l)
           /\ With(FrameOf(t, f, r, i, l), "flags", v) = FrameOf(t, v, r, i, l)
           /\ With(FrameOf(t, f, r, i, l), "reserved", v) = FrameOf(t, f, v, i, l)
           /\ With(FrameOf(t, f, r, i, l), "id", v) = FrameOf(t, f, r, v, l)
           /\ With(FrameOf(t, f, r, i, l), "payload", v) = FrameOf(t, f, r, i, v)
<1>1. With(FrameOf(t, f, r, i, l), "typ", v) = FrameOf(v, f, r, i, l)
  BY DEF With, FrameOf
<1>2. With(FrameOf(t, f, r, i, l), "flags", v) = FrameOf(t, v, r, i, l)
  BY DEF With, FrameOf
<1>3. With(FrameOf(t, f, r, i, l), "reserved", v) = FrameOf(t, f, v, i, l)
  BY DEF With, FrameOf
<1>4. With(FrameOf(t, f, r, i, l), "id", v) = FrameOf(t, f, r, v, l)
  BY DEF With, FrameOf
<1>5. With(FrameOf(t, f, r, i, l), "payload", v) = FrameOf(t, f, r, i, v)
  BY DEF With, FrameOf
<1> QED
  BY <1>1, <1>2, <1>3, <1>4, <1>5

LEMMA SetIs ==
    ASSUME NEW place, NEW g, NEW fs, NEW field, NEW v
    PROVE  Set(Standing(place, g, fs), field, v) = Standing("frame", With(g, field, v), fs)
<1> DEFINE h == With(g, field, v)
           p == Standing(place, g, fs)
<1>1. p.frame = g
  BY DEF Standing
<1>2. Set(p, field, v) = [p EXCEPT !.at = "frame", !.frame = [p.frame EXCEPT ![field] = v]]
  BY DEF Set
<1>3. Set(p, field, v) = [p EXCEPT !.at = "frame", !.frame = h]
  BY <1>1, <1>2 DEF With
<1> HIDE DEF h
<1> QED
  BY <1>3 DEF Standing, h

LEMMA ReadType ==
    ASSUME NEW g, NEW fs, NEW n \in Range(Number), n \in Octets
    PROVE  Read(Standing("type", g, fs), Token(n)) = Standing("frame", With(g, "typ", n), fs)
<1> DEFINE p == Standing("type", g, fs)
           t == Token(n)
<1>1. Read(p, t) = TypeClause(p, t)
  BY DEF Read, Standing, Refusals
<1>2. TypeClause(p, t) = Set(p, "typ", n)
  BY TokenIs DEF TypeClause
<1> QED
  BY <1>1, <1>2, SetIs

LEMMA ReadId ==
    ASSUME NEW g, NEW fs, NEW n \in Range(Number)
    PROVE  Read(Standing("id", g, fs), Token(n)) = Standing("frame", With(g, "id", n), fs)
<1> DEFINE p == Standing("id", g, fs)
           t == Token(n)
<1>1. Read(p, t) = IdClause(p, t)
  BY DEF Read, Standing, Refusals
<1>2. IdClause(p, t) = Set(p, "id", n)
  BY TokenIs DEF IdClause
<1> QED
  BY <1>1, <1>2, SetIs

LEMMA ReadPayload ==
    ASSUME NEW g, NEW fs, NEW t, t \notin Unencodable
    PROVE  Read(Standing("payload", g, fs), t) = Standing("frame", With(g, "payload", t), fs)
<1> DEFINE p == Standing("payload", g, fs)
<1>1. Read(p, t) = PayloadClause(p, t)
  BY DEF Read, Standing, Refusals
<1>2. PayloadClause(p, t) = Set(p, "payload", t)
  BY DEF PayloadClause
<1> QED
  BY <1>1, <1>2, SetIs

LEMMA ReadReserved ==
    ASSUME NEW g, NEW fs
    PROVE  Read(Standing("frame", g, fs), "reserved") = Standing("frame", With(g, "reserved", TRUE), fs)
<1> DEFINE p == Standing("frame", g, fs)
<1>1. Read(p, "reserved") = InFrame(p, "reserved")
  BY DEF Read, Standing, Refusals
<1>2. InFrame(p, "reserved") = Set(p, "reserved", TRUE)
  BY DEF InFrame
<1> DEFINE v == TRUE
<1> HIDE DEF v
<1>3. Set(p, "reserved", v) = Standing("frame", With(g, "reserved", v), fs)
  BY SetIs
<1> QED
  BY <1>1, <1>2, <1>3 DEF v

LEMMA ReadClosing ==
    ASSUME NEW g, NEW fs, g.typ # -1, g.id \in 0..MaxStreamId
    PROVE  Read(Standing("frame", g, fs), "]") = Standing("outside", g, Append(fs, g))
<1> DEFINE p == Standing("frame", g, fs)
<1>1. Read(p, "]") = InFrame(p, "]")
  BY DEF Read, Standing, Refusals
<1>2. InFrame(p, "]") = Closed(p)
  BY DEF InFrame
<1>3. p.frame = g /\ p.frames = fs
  BY DEF Standing
<1>4. Closed(p) = [p EXCEPT !.at = "outside", !.frames = Append(fs, g)]
  BY <1>3 DEF Closed
<1> QED
  BY <1>1, <1>2, <1>4 DEF Standing

LEMMA ReadBraces ==
    ASSUME NEW g, NEW fs
    PROVE  /\ Read(Standing("flags", g, fs), "{") = Standing("flag", With(g, "flags", {}), fs)
           /\ Read(Standing("flag", g, fs), "}") = Standing("frame", g, fs)
<1> DEFINE p == Standing("flags", g, fs)
           q == Standing("flag", g, fs)
<1>1. Read(p, "{") = FlagsOpened(p, "{") /\ Read(q, "}") = FlagClause(q, "}")
  BY DEF Read, Standing, Refusals
<1>2. FlagsOpened(p, "{") = [p EXCEPT !.at = "flag", !.frame = [p.frame EXCEPT !["flags"] = {}]]
  BY DEF FlagsOpened
<1>3. p.frame = g
  BY DEF Standing
<1> DEFINE h == With(g, "flags", {})
<1>4. FlagsOpened(p, "{") = [p EXCEPT !.at = "flag", !.frame = h]
  BY <1>2, <1>3 DEF With
<1> HIDE DEF h
<1>5. FlagsOpened(p, "{") = Standing("flag", h, fs)
  BY <1>4 DEF Standing
<1>6. FlagClause(q, "}") = Standing("frame", g, fs)
  BY DEF FlagClause, Goto, Standing
<1> QED
  BY <1>1, <1>5, <1>6 DEF h

LEMMA ReadFlag ==
    ASSUME NEW g, NEW fs, NEW n \in Range(Number), n \in FlagBits
    PROVE  Read(Standing("flag", g, fs), Token(n)) = Standing("flag", With(g, "flags", g.flags \cup {n}), fs)
<1> DEFINE p == Standing("flag", g, fs)
           t == Token(n)
           h == With(g, "flags", g.flags \cup {n})
<1>1. Read(p, t) = FlagClause(p, t)
  BY DEF Read, Standing, Refusals
<1>2. t \in DOMAIN Number /\ Number[t] = n /\ t \notin DOMAIN Flags /\ t # "}"
  BY TokenIs
<1>3. p.frame = g
  BY DEF Standing
<1> HIDE DEF t
<1>4. FlagClause(p, t) = [p EXCEPT !.frame = [p.frame EXCEPT !["flags"] = p.frame.flags \cup {n}]]
  BY <1>2 DEF FlagClause
<1>5. FlagClause(p, t) = [p EXCEPT !.frame = h]
  BY <1>3, <1>4 DEF With
<1> HIDE DEF h
<1>6. FlagClause(p, t) = Standing("flag", h, fs)
  BY <1>5 DEF Standing
<1> QED
  BY <1>1, <1>6 DEF h, t

(* Flags, in whatever order they are written.                              *)
LEMMA EnumerationIs ==
    ASSUME NEW S, IsFiniteSet(S)
    PROVE  /\ Cardinality(S) \in Nat
           /\ SetToSeq(S) \in [1..Cardinality(S) -> S]
           /\ \A x \in S : \E i \in 1..Cardinality(S) : SetToSeq(S)[i] = x
<1> DEFINE n == Cardinality(S)
           D == 1..n
           e == SetToSeq(S)
<1>1. n \in Nat /\ ExistsBijection(D, S)
  BY FS_CardinalityType
<1> HIDE DEF D
<1>2. \E f : f \in Bijection(D, S)
  BY <1>1 DEF ExistsBijection
<1>3. \E f \in [D -> S] : IsInjective(f)
  BY <1>2 DEF Bijection, Injection
<1>4. e = CHOOSE f \in [D -> S] : IsInjective(f)
  BY DEF SetToSeq, D
<1>5. e \in [D -> S] /\ IsInjective(e)
  <2> HIDE DEF e
  <2> QED
    BY <1>3, <1>4
<1>6. e \in Injection(D, S)
  BY <1>5 DEF Injection
<1>7. IsFiniteSet(D) /\ Cardinality(D) = n
  BY <1>1, FS_Interval DEF D
<1>8. e \in Surjection(D, S)
  <2> HIDE DEF e
  <2> QED
    BY <1>6, <1>7, FS_Injection
<1>9. \A x \in S : \E i \in D : e[i] = x
  <2> HIDE DEF e
  <2> QED
    BY <1>8 DEF Surjection
<1> QED
  BY <1>1, <1>5, <1>9 DEF D

LEMMA ReadFlags ==
    ASSUME NEW t, NEW r, NEW i, NEW l, NEW fs,
           NEW flags \in SUBSET (Range(Number) \cap FlagBits)
    PROVE  LET s == [k \in 1..Cardinality(flags) |-> Token(SetToSeq(flags)[k])]
           IN  /\ Len(s) = Cardinality(flags) /\ s \in Seq(DOMAIN Number)
               /\ Leads(Standing("flag", FrameOf(t, {}, r, i, l), fs), s, Standing("flag", FrameOf(t, flags, r, i, l), fs))
<1> DEFINE n == Cardinality(flags)
           e == SetToSeq(flags)
           s == [k \in 1..n |-> Token(e[k])]
           so(k) == {e[j] : j \in 1..k}
           F == [k \in 0..n |-> Standing("flag", FrameOf(t, so(k), r, i, l), fs)]
<1>1. IsFiniteSet(flags)
  <2>1. \A a, b \in Int : IsFiniteSet(a..b)
    BY FS_Interval
  <2>2. IsFiniteSet(FlagBits)
    <3>1. 0 \in Int /\ 7 \in Int
      OBVIOUS
    <3> QED
      BY <2>1, <3>1 DEF FlagBits
  <2> QED
    BY <2>2, FS_Subset
<1>2. n \in Nat /\ e \in [1..n -> flags] /\ \A x \in flags : \E k \in 1..n : e[k] = x
  BY <1>1, EnumerationIs
<1> HIDE DEF n, e
<1>3. \A k \in 1..n : e[k] \in Range(Number) /\ e[k] \in FlagBits
  BY <1>2
<1>4. s \in Seq(DOMAIN Number) /\ Len(s) = n
  <2>1. \A k \in 1..n : Token(e[k]) \in DOMAIN Number
    BY <1>3, TokenIs
  <2> QED
    BY <1>2, <2>1
<1>5. so(0) = {} /\ so(n) = flags
  BY <1>2
<1>6. ASSUME NEW k \in 1..n
      PROVE  so(k) = so(k - 1) \cup {e[k]}
  <2>1. 1..k = 1..k - 1 \cup {k}
    BY <1>2
  <2> QED
    BY <2>1
<1> HIDE DEF so
<1>7. ASSUME NEW k \in 1..n
      PROVE  F[k] = Read(F[k - 1], s[k])
  <2> DEFINE g == FrameOf(t, so(k - 1), r, i, l)
  <2>1. k \in 0..n /\ k - 1 \in 0..n
    BY <1>2
  <2>2. F[k] = Standing("flag", FrameOf(t, so(k), r, i, l), fs) /\ F[k - 1] = Standing("flag", g, fs) /\ s[k] = Token(e[k])
    BY <2>1
  <2>3. g.flags = so(k - 1)
    BY DEF FrameOf
  <2>4. With(g, "flags", g.flags \cup {e[k]}) = FrameOf(t, so(k), r, i, l)
    <3>1. With(g, "flags", so(k)) = FrameOf(t, so(k), r, i, l)
      BY WithIs
    <3> HIDE DEF g
    <3> QED
      BY <1>6, <2>3, <3>1
  <2> HIDE DEF F, g, s
  <2>5. Read(Standing("flag", g, fs), Token(e[k])) = Standing("flag", With(g, "flags", g.flags \cup {e[k]}), fs)
    BY <1>3, ReadFlag
  <2> QED
    BY <2>2, <2>4, <2>5
<1>8. F[0] = Standing("flag", FrameOf(t, {}, r, i, l), fs) /\ F[n] = Standing("flag", FrameOf(t, flags, r, i, l), fs)
  BY <1>2, <1>5
<1> HIDE DEF F, s
<1>9. ReadsAlong(F, s)
  BY <1>4, <1>7 DEF ReadsAlong
<1>10. Leads(Standing("flag", FrameOf(t, {}, r, i, l), fs), s, Standing("flag", FrameOf(t, flags, r, i, l), fs))
  BY <1>4, <1>8, <1>9 DEF Leads
<1> QED
  BY <1>4, <1>10 DEF s, n, e

Tokens ==
    STRING \cup DOMAIN Number
        \cup {"pri", "[", "]", "{", "}", "type", "flags", "reserved", "id", "payload"}

LEMMA OneToken ==
    ASSUME NEW t \in Tokens
    PROVE  <<t>> \in Seq(Tokens)
OBVIOUS

LEMMA TokensJoin == \A t, u, v : <<t>> \o <<u>> = <<t, u>> /\ <<t, u>> \o <<v>> = <<t, u, v>>
<1> SUFFICES ASSUME NEW t, NEW u, NEW v
             PROVE  <<t>> \o <<u>> = <<t, u>> /\ <<t, u>> \o <<v>> = <<t, u, v>>
  OBVIOUS
<1> DEFINE S == {t, u, v}
           a == <<t>>
           b == <<u>>
           c == <<v>>
           d == <<t, u>>
           e == <<t, u, v>>
<1>1. /\ a \in Seq(S) /\ Len(a) = 1 /\ a[1] = t
      /\ b \in Seq(S) /\ Len(b) = 1 /\ b[1] = u
      /\ c \in Seq(S) /\ Len(c) = 1 /\ c[1] = v
      /\ d \in Seq(S) /\ Len(d) = 2 /\ d[1] = t /\ d[2] = u
      /\ e \in Seq(S) /\ Len(e) = 3 /\ e[1] = t /\ e[2] = u /\ e[3] = v
  OBVIOUS
<1> HIDE DEF S, a, b, c, d, e
<1>6. /\ a \o b \in Seq(S) /\ Len(a \o b) = Len(a) + Len(b)
      /\ \A i \in 1..Len(a) + Len(b) : (a \o b)[i] = IF i <= Len(a) THEN a[i] ELSE b[i - Len(a)]
  BY <1>1, ConcatProperties
<1>7. /\ d \o c \in Seq(S) /\ Len(d \o c) = Len(d) + Len(c)
      /\ \A i \in 1..Len(d) + Len(c) : (d \o c)[i] = IF i <= Len(d) THEN d[i] ELSE c[i - Len(d)]
  BY <1>1, ConcatProperties
<1>2. a \o b \in Seq(S) /\ Len(a \o b) = 2 /\ (a \o b)[1] = t /\ (a \o b)[2] = u
  BY <1>1, <1>6
<1>3. d \o c \in Seq(S) /\ Len(d \o c) = 3 /\ (d \o c)[1] = t /\ (d \o c)[2] = u /\ (d \o c)[3] = v
  BY <1>1, <1>7
<1>4. a \o b = d
  <2> DEFINE f == a \o b
  <2>1. f \in Seq(S) /\ Len(f) = Len(d) /\ \A i \in 1..Len(f) : f[i] = d[i]
    BY <1>1, <1>2
  <2> HIDE DEF f
  <2>2. f = d
    BY <1>1, <2>1, SeqEqual
  <2> QED
    BY <2>2 DEF f
<1>5. d \o c = e
  <2> DEFINE f == d \o c
  <2>1. f \in Seq(S) /\ Len(f) = Len(e) /\ \A i \in 1..Len(f) : f[i] = e[i]
    BY <1>1, <1>3
  <2> HIDE DEF f
  <2>2. f = e
    BY <1>1, <2>1, SeqEqual
  <2> QED
    BY <2>2 DEF f
<1> QED
  BY <1>4, <1>5 DEF a, b, c, d, e

LEMMA LeadsByTwo ==
    ASSUME NEW p, NEW q, NEW r, NEW t \in Tokens, NEW u \in Tokens, Read(p, t) = q, Read(q, u) = r
    PROVE  <<t, u>> \in Seq(Tokens) /\ Leads(p, <<t, u>>, r)
<1>1. Leads(p, <<t>>, q) /\ Leads(q, <<u>>, r)
  BY LeadsOne
<1>2. <<t>> \in Seq(Tokens) /\ <<u>> \in Seq(Tokens) /\ <<t, u>> \in Seq(Tokens)
  <2> HIDE DEF Tokens
  <2> QED
    OBVIOUS
<1>3. Leads(p, <<t>> \o <<u>>, r)
  BY <1>1, <1>2, LeadsOn
<1>4. <<t>> \o <<u>> = <<t, u>>
  BY TokensJoin
<1> QED
  BY <1>2, <1>3, <1>4

(* The clauses of a written frame, each said or left out.                  *)
LEMMA TypeClauseRead ==
    ASSUME NEW h, NEW fs, NEW typ \in Range(Number) \cap Octets
    PROVE  LET s == <<"[", "type", Token(typ)>>
           IN  s \in Seq(Tokens) /\ Leads(Standing("outside", h, fs), s, Standing("frame", FrameOf(typ, {}, FALSE, 0, ""), fs))
<1> DEFINE t == Token(typ)
           p == Standing("outside", h, fs)
           q == Standing("frame", NewFrame, fs)
           r == Standing("type", NewFrame, fs)
           u == Standing("frame", FrameOf(typ, {}, FALSE, 0, ""), fs)
<1>1. "[" \in Tokens /\ "type" \in Tokens /\ t \in Tokens
  BY TokenIs DEF Tokens
<1>2. Read(p, "[") = q /\ Read(q, "type") = r
  BY ReadOpening, ReadWord
<1>3. Read(r, t) = Standing("frame", With(NewFrame, "typ", typ), fs)
  BY ReadType
<1>4. With(NewFrame, "typ", typ) = FrameOf(typ, {}, FALSE, 0, "")
  <2> DEFINE e == ""
             o == 0
             no == FALSE
             none == -1
  <2>1. NewFrame = FrameOf(none, {}, no, o, e)
    BY DEF NewFrame, FrameOf
  <2> HIDE DEF e, o, no, none
  <2>2. With(FrameOf(none, {}, no, o, e), "typ", typ) = FrameOf(typ, {}, no, o, e)
    BY WithIs
  <2> QED
    BY <2>1, <2>2 DEF e, o, no
<1>5. Read(r, t) = u
  BY <1>3, <1>4
<1> HIDE DEF t, p, q, r, u
<1>6. <<"[", "type">> \in Seq(Tokens) /\ Leads(p, <<"[", "type">>, r)
  BY <1>1, <1>2, LeadsByTwo
<1>7. <<t>> \in Seq(Tokens) /\ Leads(r, <<t>>, u)
  BY <1>1, <1>5, LeadsOne, OneToken
<1>8. Leads(p, <<"[", "type">> \o <<t>>, u)
  BY <1>6, <1>7, LeadsOn
<1>9. <<"[", "type">> \o <<t>> = <<"[", "type", t>> /\ <<"[", "type">> \o <<t>> \in Seq(Tokens)
  <2>1. <<"[", "type">> \o <<t>> = <<"[", "type", t>>
    BY TokensJoin
  <2> QED
    BY <1>6, <1>7, <2>1
<1> QED
  BY <1>8, <1>9 DEF t, p, u

LEMMA FlagsClauseRead ==
    ASSUME NEW typ, NEW fs, NEW flags \in SUBSET (Range(Number) \cap FlagBits)
    PROVE  LET s == Unless(flags = {}, WrittenFlags(flags))
           IN  /\ s \in Seq(Tokens)
               /\ Leads(Standing("frame", FrameOf(typ, {}, FALSE, 0, ""), fs), s,
                        Standing("frame", FrameOf(typ, flags, FALSE, 0, ""), fs))
<1> DEFINE no == FALSE
           o == 0
           e == ""
           g == FrameOf(typ, {}, no, o, e)
           h == FrameOf(typ, flags, no, o, e)
           s == [k \in 1..Cardinality(flags) |-> Token(SetToSeq(flags)[k])]
<1> HIDE DEF no, o, e
<1>1. CASE flags = {}
  <2>1. Unless(flags = {}, WrittenFlags(flags)) = <<>> /\ <<>> \in Seq(Tokens)
    BY <1>1 DEF Unless
  <2>2. Leads(Standing("frame", g, fs), <<>>, Standing("frame", g, fs)) /\ h = g
    BY <1>1, LeadsNowhere
  <2> QED
    BY <2>1, <2>2 DEF no, o, e
<1>2. CASE flags # {}
  <2>1. s \in Seq(DOMAIN Number) /\ Leads(Standing("flag", g, fs), s, Standing("flag", h, fs))
    BY ReadFlags
  <2> HIDE DEF s
  <2>2. s \in Seq(Tokens)
    <3>1. DOMAIN Number \subseteq Tokens
      BY DEF Tokens
    <3> QED
      BY <2>1, <3>1
  <2>3. Read(Standing("frame", g, fs), "flags") = Standing("flags", g, fs)
    BY ReadWord
  <2>4. With(g, "flags", {}) = g
    BY WithIs
  <2>5. Read(Standing("flags", g, fs), "{") = Standing("flag", g, fs)
    <3> HIDE DEF g
    <3> QED
      BY <2>4, ReadBraces
  <2>6. Read(Standing("flag", h, fs), "}") = Standing("frame", h, fs)
    BY ReadBraces
  <2> HIDE DEF g, h
  <2>7. "flags" \in Tokens /\ "{" \in Tokens /\ "}" \in Tokens
    BY DEF Tokens
  <2> DEFINE a == <<"flags", "{">>
             z == <<"}">>
  <2>8. a \in Seq(Tokens) /\ Leads(Standing("frame", g, fs), a, Standing("flag", g, fs))
    BY <2>3, <2>5, <2>7, LeadsByTwo
  <2>9. z \in Seq(Tokens) /\ Leads(Standing("flag", h, fs), z, Standing("frame", h, fs))
    BY <2>6, <2>7, LeadsOne, OneToken
  <2> HIDE DEF a, z
  <2>10. a \o s \in Seq(Tokens) /\ a \o s \o z \in Seq(Tokens)
    BY <2>2, <2>8, <2>9
  <2>11. Leads(Standing("frame", g, fs), a \o s, Standing("flag", h, fs))
    BY <2>1, <2>2, <2>8, LeadsOn
  <2>12. Leads(Standing("frame", g, fs), a \o s \o z, Standing("frame", h, fs))
    BY <2>9, <2>10, <2>11, LeadsOn
  <2>13. Unless(flags = {}, WrittenFlags(flags)) = a \o s \o z
    BY <1>2 DEF Unless, WrittenFlags, a, s, z
  <2> QED
    BY <2>10, <2>12, <2>13 DEF g, h, no, o, e
<1> QED
  BY <1>1, <1>2

LEMMA ReservedClauseRead ==
    ASSUME NEW typ, NEW fs, NEW flags, NEW reserved \in BOOLEAN
    PROVE  LET s == Unless(~reserved, <<"reserved">>)
           IN  /\ s \in Seq(Tokens)
               /\ Leads(Standing("frame", FrameOf(typ, flags, FALSE, 0, ""), fs), s,
                        Standing("frame", FrameOf(typ, flags, reserved, 0, ""), fs))
<1> DEFINE g == FrameOf(typ, flags, FALSE, 0, "")
           h == FrameOf(typ, flags, TRUE, 0, "")
<1>1. CASE reserved = FALSE
  <2>1. Unless(~reserved, <<"reserved">>) = <<>> /\ <<>> \in Seq(Tokens)
    BY <1>1 DEF Unless
  <2>2. Leads(Standing("frame", g, fs), <<>>, Standing("frame", g, fs)) /\ FrameOf(typ, flags, reserved, 0, "") = g
    BY <1>1, LeadsNowhere
  <2> QED
    BY <2>1, <2>2
<1>2. CASE reserved = TRUE
  <2>1. Unless(~reserved, <<"reserved">>) = <<"reserved">>
    BY <1>2 DEF Unless
  <2>2. "reserved" \in Tokens
    BY DEF Tokens
  <2>3. With(g, "reserved", TRUE) = h
    <3> DEFINE e == ""
               o == 0
               no == FALSE
               yes == TRUE
    <3> HIDE DEF e, o, no, yes
    <3>1. With(FrameOf(typ, flags, no, o, e), "reserved", yes) = FrameOf(typ, flags, yes, o, e)
      BY WithIs
    <3> QED
      BY <3>1 DEF e, o, no, yes
  <2>4. Read(Standing("frame", g, fs), "reserved") = Standing("frame", h, fs)
    <3> HIDE DEF g, h
    <3> QED
      BY <2>3, ReadReserved
  <2>5. FrameOf(typ, flags, reserved, 0, "") = h
    BY <1>2
  <2> HIDE DEF g, h
  <2>6. <<"reserved">> \in Seq(Tokens) /\ Leads(Standing("frame", g, fs), <<"reserved">>, Standing("frame", h, fs))
    BY <2>2, <2>4, LeadsOne, OneToken
  <2> QED
    BY <2>1, <2>5, <2>6 DEF g
<1> QED
  BY <1>1, <1>2

LEMMA IdClauseRead ==
    ASSUME NEW typ, NEW fs, NEW flags, NEW reserved, NEW id, id = 0 \/ id \in Range(Number)
    PROVE  LET s == Unless(id = 0, <<"id", Token(id)>>)
           IN  /\ s \in Seq(Tokens)
               /\ Leads(Standing("frame", FrameOf(typ, flags, reserved, 0, ""), fs), s,
                        Standing("frame", FrameOf(typ, flags, reserved, id, ""), fs))
<1> DEFINE g == FrameOf(typ, flags, reserved, 0, "")
           h == FrameOf(typ, flags, reserved, id, "")
           t == Token(id)
<1>1. CASE id = 0
  <2>1. Unless(id = 0, <<"id", Token(id)>>) = <<>> /\ <<>> \in Seq(Tokens)
    BY <1>1 DEF Unless
  <2>2. Leads(Standing("frame", g, fs), <<>>, Standing("frame", g, fs)) /\ h = g
    BY <1>1, LeadsNowhere
  <2> QED
    BY <2>1, <2>2
<1>2. CASE id # 0
  <2>1. id \in Range(Number) /\ Unless(id = 0, <<"id", Token(id)>>) = <<"id", t>>
    BY <1>2 DEF Unless
  <2>2. "id" \in Tokens /\ t \in Tokens
    BY <2>1, TokenIs DEF Tokens
  <2>3. With(g, "id", id) = h
    <3> DEFINE e == ""
               o == 0
    <3> HIDE DEF e, o
    <3>1. With(FrameOf(typ, flags, reserved, o, e), "id", id) = FrameOf(typ, flags, reserved, id, e)
      BY WithIs
    <3> QED
      BY <3>1 DEF e, o
  <2>4. Read(Standing("frame", g, fs), "id") = Standing("id", g, fs) /\ Read(Standing("id", g, fs), t) = Standing("frame", h, fs)
    <3> HIDE DEF g, h
    <3> QED
      BY <2>1, <2>3, ReadWord, ReadId
  <2> HIDE DEF g, h, t
  <2>5. <<"id", t>> \in Seq(Tokens) /\ Leads(Standing("frame", g, fs), <<"id", t>>, Standing("frame", h, fs))
    BY <2>2, <2>4, LeadsByTwo
  <2> QED
    BY <2>1, <2>5 DEF g, h
<1> QED
  BY <1>1, <1>2

LEMMA PayloadClauseRead ==
    ASSUME NEW typ, NEW fs, NEW flags, NEW reserved, NEW id, NEW payload \in STRING \ Unencodable
    PROVE  LET s == Unless(payload = "", <<"payload", payload>>)
           IN  /\ s \in Seq(Tokens)
               /\ Leads(Standing("frame", FrameOf(typ, flags, reserved, id, ""), fs), s,
                        Standing("frame", FrameOf(typ, flags, reserved, id, payload), fs))
<1> DEFINE g == FrameOf(typ, flags, reserved, id, "")
           h == FrameOf(typ, flags, reserved, id, payload)
<1>1. CASE payload = ""
  <2>1. Unless(payload = "", <<"payload", payload>>) = <<>>
    BY <1>1 DEF Unless
  <2>3. <<>> \in Seq(Tokens)
    OBVIOUS
  <2>2. Leads(Standing("frame", g, fs), <<>>, Standing("frame", g, fs)) /\ h = g
    BY <1>1, LeadsNowhere
  <2> QED
    BY <2>1, <2>2, <2>3
<1>2. CASE payload # ""
  <2>1. Unless(payload = "", <<"payload", payload>>) = <<"payload", payload>>
    BY <1>2 DEF Unless
  <2>2. "payload" \in Tokens /\ payload \in Tokens
    BY DEF Tokens
  <2>3. With(g, "payload", payload) = h
    <3> DEFINE e == ""
    <3> HIDE DEF e
    <3>1. With(FrameOf(typ, flags, reserved, id, e), "payload", payload) = h
      BY WithIs
    <3> QED
      BY <3>1 DEF e
  <2>4. Read(Standing("frame", g, fs), "payload") = Standing("payload", g, fs)
    BY ReadWord
  <2>5. Read(Standing("payload", g, fs), payload) = Standing("frame", h, fs)
    <3> HIDE DEF g, h
    <3> QED
      BY <2>3, ReadPayload
  <2> HIDE DEF g, h
  <2>6. /\ <<"payload", payload>> \in Seq(Tokens)
        /\ Leads(Standing("frame", g, fs), <<"payload", payload>>, Standing("frame", h, fs))
    BY <2>2, <2>4, <2>5, LeadsByTwo
  <2> QED
    BY <2>1, <2>6 DEF g, h
<1> QED
  BY <1>1, <1>2

LEMMA FrameRead ==
    ASSUME NEW h, NEW fs, NEW f \in Writable, f # Pri
    PROVE  WrittenFrame(f) \in Seq(Tokens) /\ Leads(Standing("outside", h, fs), WrittenFrame(f), Standing("outside", f, Append(fs, f)))
<1>1. /\ f.typ \in Range(Number) \cap Octets /\ f.flags \in SUBSET (Range(Number) \cap FlagBits)
      /\ f.reserved \in BOOLEAN /\ f.payload \in STRING \ Unencodable
      /\ f.id = 0 \/ f.id \in Range(Number)
      /\ f.id \in 0..MaxStreamId /\ f = FrameOf(f.typ, f.flags, f.reserved, f.id, f.payload)
  <2>1. f \in [typ : Octets \cap Range(Number), flags : SUBSET (FlagBits \cap Range(Number)),
               reserved : BOOLEAN, id : {0} \cup (0..MaxStreamId \cap Range(Number)),
               payload : STRING \ Unencodable]
    BY DEF Writable
  <2>2. 0 \in 0..MaxStreamId
    <3>1. MaxStreamId \in Nat
      BY SMT DEF MaxStreamId
    <3> QED
      BY <3>1
  <2>3. /\ f.typ \in Range(Number) \cap Octets /\ f.flags \in SUBSET (Range(Number) \cap FlagBits)
        /\ f.reserved \in BOOLEAN /\ f.payload \in STRING \ Unencodable
        /\ f.id \in {0} \cup (0..MaxStreamId \cap Range(Number))
    BY <2>1
  <2>4. f = FrameOf(f.typ, f.flags, f.reserved, f.id, f.payload)
    BY <2>1 DEF FrameOf
  <2> QED
    BY <2>2, <2>3, <2>4
<1> DEFINE o == 0
           e == ""
           no == FALSE
           p0 == Standing("outside", h, fs)
           p1 == Standing("frame", FrameOf(f.typ, {}, no, o, e), fs)
           p2 == Standing("frame", FrameOf(f.typ, f.flags, no, o, e), fs)
           p3 == Standing("frame", FrameOf(f.typ, f.flags, f.reserved, o, e), fs)
           p4 == Standing("frame", FrameOf(f.typ, f.flags, f.reserved, f.id, e), fs)
           p5 == Standing("frame", FrameOf(f.typ, f.flags, f.reserved, f.id, f.payload), fs)
           p6 == Standing("outside", f, Append(fs, f))
           s1 == <<"[", "type", Token(f.typ)>>
           s2 == Unless(f.flags = {}, WrittenFlags(f.flags))
           s3 == Unless(~f.reserved, <<"reserved">>)
           s4 == Unless(f.id = 0, <<"id", Token(f.id)>>)
           s5 == Unless(f.payload = "", <<"payload", f.payload>>)
           s6 == <<"]">>
<1>2. s1 \in Seq(Tokens) /\ Leads(p0, s1, p1)
  BY <1>1, TypeClauseRead
<1>3. s2 \in Seq(Tokens) /\ Leads(p1, s2, p2)
  BY <1>1, FlagsClauseRead
<1>4. s3 \in Seq(Tokens) /\ Leads(p2, s3, p3)
  BY <1>1, ReservedClauseRead
<1>5. s4 \in Seq(Tokens) /\ Leads(p3, s4, p4)
  BY <1>1, IdClauseRead
<1>6. s5 \in Seq(Tokens) /\ Leads(p4, s5, p5)
  BY <1>1, PayloadClauseRead
<1>7. s6 \in Seq(Tokens) /\ Leads(p5, s6, p6)
  <2>1. f.typ # -1
    BY <1>1 DEF Octets
  <2>2. p5 = Standing("frame", f, fs) /\ Read(Standing("frame", f, fs), "]") = p6
    BY <1>1, <2>1, ReadClosing
  <2>3. "]" \in Tokens
    BY DEF Tokens
  <2> HIDE DEF p5, p6
  <2> QED
    BY <2>2, <2>3, LeadsOne, OneToken
<1>8. WrittenFrame(f) = s1 \o s2 \o s3 \o s4 \o s5 \o s6
  BY DEF WrittenFrame
<1> HIDE DEF p0, p1, p2, p3, p4, p5, p6, s1, s2, s3, s4, s5, s6, o, e, no
<1> DEFINE a2 == s1 \o s2
           a3 == a2 \o s3
           a4 == a3 \o s4
           a5 == a4 \o s5
           a6 == a5 \o s6
<1>9. a2 \in Seq(Tokens) /\ Leads(p0, a2, p2)
  BY <1>2, <1>3, LeadsOn
<1> HIDE DEF a2
<1>10. a3 \in Seq(Tokens) /\ Leads(p0, a3, p3)
  BY <1>4, <1>9, LeadsOn
<1> HIDE DEF a3
<1>11. a4 \in Seq(Tokens) /\ Leads(p0, a4, p4)
  BY <1>5, <1>10, LeadsOn
<1> HIDE DEF a4
<1>12. a5 \in Seq(Tokens) /\ Leads(p0, a5, p5)
  BY <1>6, <1>11, LeadsOn
<1> HIDE DEF a5
<1>13. a6 \in Seq(Tokens) /\ Leads(p0, a6, p6)
  BY <1>7, <1>12, LeadsOn
<1>14. WrittenFrame(f) = a6
  BY <1>8 DEF a2, a3, a4, a5
<1> QED
  BY <1>13, <1>14 DEF p0, p6

LEMMA WordRead ==
    ASSUME NEW h, NEW fs, NEW f \in Writable
    PROVE  LET s == IF f = Pri THEN <<"pri">> ELSE WrittenFrame(f)
           IN  /\ s \in Seq(Tokens)
               /\ \E g : Leads(Standing("outside", h, fs), s, Standing("outside", g, Append(fs, f)))
<1>1. CASE f = Pri
  <2>1. "pri" \in Tokens
    BY DEF Tokens
  <2>2. <<"pri">> \in Seq(Tokens)
    BY <2>1, OneToken
  <2>3. Leads(Standing("outside", h, fs), <<"pri">>, Standing("outside", h, Append(fs, Pri)))
    BY ReadPri, LeadsOne
  <2> QED
    BY <1>1, <2>2, <2>3
<1>2. CASE f # Pri
  <2>1. /\ WrittenFrame(f) \in Seq(Tokens)
        /\ Leads(Standing("outside", h, fs), WrittenFrame(f), Standing("outside", f, Append(fs, f)))
    BY <1>2, FrameRead
  <2> QED
    BY <1>2, <2>1
<1> QED
  BY <1>1, <1>2

(* A statement of any frames makes those frames.                           *)
LEMMA WrittenRead ==
    ASSUME NEW frames \in Seq(Writable)
    PROVE  Statement(Written(frames)).at = "outside" /\ Statement(Written(frames)).frames = frames
<1> DEFINE n == Len(frames)
           w(i) == IF frames[i] = Pri THEN <<"pri">> ELSE WrittenFrame(frames[i])
           f == [i \in 1..n |-> w(i)]
           first(k) == [i \in 1..k |-> frames[i]]
           I == {k \in Nat : k <= n => \E g : Leads(Start, Flat(f, k), Standing("outside", g, first(k)))}
<1>1. n \in Nat /\ DOMAIN frames = 1..n /\ \A i \in 1..n : frames[i] \in Writable
  OBVIOUS
<1>2. \A i \in 1..n : w(i) \in Seq(Tokens)
  BY <1>1, WordRead
<1> HIDE DEF w
<1>3. Pieces(f, n, Tokens)
  BY <1>1, <1>2 DEF Pieces
<1>4. \A i \in 1..n : f[i] = w(i)
  OBVIOUS
<1>5. Written(frames) = Flat(f, n)
  <2>1. [i \in 1..n |-> f[i]] = [i \in DOMAIN frames |-> w(i)]
    BY <1>1
  <2> HIDE DEF f
  <2> QED
    BY <2>1 DEF Flat, Written, w
<1> HIDE DEF f
<1>6. /\ Flat(f, 0) = <<>>
      /\ \A k \in Nat : k < n => Flat(f, k + 1) = Flat(f, k) \o f[k + 1]
      /\ \A k \in 0..n : Flat(f, k) \in Seq(Tokens)
  BY <1>3, FlatIs
<1>7. 0 \in I
  <2>1. first(0) = <<>>
    OBVIOUS
  <2>2. Start = Standing("outside", NewFrame, first(0))
    BY <2>1 DEF Start, Standing
  <2>3. Leads(Start, Flat(f, 0), Start)
    BY <1>6, LeadsNowhere
  <2>4. \E g : Leads(Start, Flat(f, 0), Standing("outside", g, first(0)))
    BY <2>2, <2>3
  <2> QED
    BY <2>4
<1>11. first(n) = frames
  OBVIOUS
<1> HIDE DEF first
<1>8. ASSUME NEW k \in Nat, k \in I
      PROVE  k + 1 \in I
  <2> SUFFICES ASSUME k + 1 <= n
               PROVE  \E g : Leads(Start, Flat(f, k + 1), Standing("outside", g, first(k + 1)))
    OBVIOUS
  <2> DEFINE s == Flat(f, k)
             t == f[k + 1]
  <2>1. k \in 0..n /\ k < n /\ k + 1 \in 1..n
    BY <1>1
  <2>2. PICK g : Leads(Start, s, Standing("outside", g, first(k)))
    BY <1>8, <2>1
  <2>3. s \in Seq(Tokens) /\ t \in Seq(Tokens) /\ Flat(f, k + 1) = s \o t
    BY <1>2, <1>4, <1>6, <2>1
  <2>4. PICK h : Leads(Standing("outside", g, first(k)), w(k + 1), Standing("outside", h, Append(first(k), frames[k + 1])))
    BY <1>1, <2>1, WordRead DEF w
  <2>5. first(k + 1) = Append(first(k), frames[k + 1])
    <3> DEFINE a == first(k)
               b == first(k + 1)
               x == frames[k + 1]
    <3>1. /\ a \in Seq(Writable) /\ Len(a) = k /\ (\A i \in 1..k : a[i] = frames[i])
          /\ b \in Seq(Writable) /\ Len(b) = k + 1 /\ (\A i \in 1..k + 1 : b[i] = frames[i])
          /\ x \in Writable
      <4> HIDE DEF n
      <4>1. \A i \in 1..k + 1 : frames[i] \in Writable
        BY <1>1, <2>1
      <4> QED
        BY <4>1 DEF first
    <3> HIDE DEF a, b
    <3>2. Append(a, x) \in Seq(Writable) /\ Len(Append(a, x)) = k + 1
      BY <3>1
    <3>3. \A i \in 1..k + 1 : Append(a, x)[i] = b[i]
      BY <3>1
    <3>4. Append(a, x) = b
      <4> DEFINE c == Append(a, x)
      <4>1. c \in Seq(Writable) /\ Len(c) = Len(b) /\ \A i \in 1..Len(c) : c[i] = b[i]
        BY <3>1, <3>2, <3>3
      <4> HIDE DEF c
      <4>2. c = b
        BY <3>1, <4>1, SeqEqual
      <4> QED
        BY <4>2 DEF c
    <3> QED
      BY <3>4 DEF a, b
  <2>6. t = w(k + 1)
    BY <1>4, <2>1
  <2> HIDE DEF s, t
  <2>7. Leads(Start, s \o t, Standing("outside", h, Append(first(k), frames[k + 1])))
    BY <2>2, <2>3, <2>4, <2>6, LeadsOn
  <2> QED
    BY <2>3, <2>5, <2>7
<1>9. Nat \subseteq I
  <2> HIDE DEF I
  <2> QED
    BY <1>7, <1>8, SetInduction
<1>10. PICK g : Leads(Start, Flat(f, n), Standing("outside", g, first(n)))
  BY <1>1, <1>9
<1> DEFINE q == Standing("outside", g, frames)
<1>12. Flat(f, n) \in Seq(Tokens) /\ Leads(Start, Flat(f, n), q)
  <2>1. n \in 0..n
    BY <1>1
  <2> HIDE DEF n
  <2> QED
    BY <1>6, <1>10, <1>11, <2>1
<1>13. q.at = "outside" /\ q.frames = frames
  BY DEF Standing
<1> HIDE DEF q
<1>14. Statement(Written(frames)) = AtEnd(q)
  BY <1>5, <1>12, StatementIs
<1>15. AtEnd(q) = q
  BY <1>13 DEF AtEnd
<1> QED
  BY <1>13, <1>14, <1>15

-----------------------------------------------------------------------------
(* Sessions.                                                               *)
Modes == {"prompt", "run", "transduce", "call", "ended"}

(* The elements of a list are taken from a set that grows with it.         *)
IsSeq(s) == s \in Seq({s[i] : i \in DOMAIN s})

(* cwd holds a list of any kind; of a list of answers no more is needed    *)
(* than that it is a function.                                             *)
CwdIsList ==
    \/ IsSeq(cwd.items)
    \/ /\ cwd.items = [i \in DOMAIN cwd.items |-> cwd.items[i]]
       /\ \A i \in DOMAIN cwd.items : cwd.items[i].kind = "answer"

Labelled(items) ==
    \A i \in DOMAIN items : \A x \in items[i].strands :
        {"number", "stage"} \subseteq DOMAIN x /\ x.stage \in Nat

Typed ==
    /\ mode \in Modes /\ number \in Nat /\ stage \in Nat
    /\ pipelines \in Seq(Seq(Seq(STRING)))
    /\ CwdIsList /\ Labelled(cwd.items)

PromptIsIdle == (mode = "prompt" => pipelines = <<>>) /\ (mode \in {"run", "transduce", "call"} => pipelines # <<>>)

Waiting ==
    /\ mode \in {"transduce", "call"} => cwd.given
    /\ mode = "transduce" => Command # <<>> /\ Head(Command) = "transduce" /\ stage < Len(pipelines[1])
    /\ mode = "call" => Command # <<>> /\ Head(Command) \in Calls

CwdIsHere == Here(cwd.items)

IInv == Typed /\ PromptIsIdle /\ Waiting /\ CwdIsHere /\ SentHere /\ EndsOnlyFor

-----------------------------------------------------------------------------
LEMMA Listing ==
    ASSUME NEW n \in Nat, NEW s, s = [i \in 1..n |-> s[i]]
    PROVE  IsSeq(s)
<1>1. DOMAIN s = 1..n
  OBVIOUS
<1> QED  BY <1>1 DEF IsSeq

LEMMA EmptyList == IsSeq(<<>>) /\ (\A S : <<>> \in Seq(S)) /\ \A i : i \notin DOMAIN <<>>
<1>1. \A S : <<>> \in Seq(S)
  BY SMT
<1> QED  BY <1>1 DEF IsSeq

LEMMA Appending ==
    ASSUME NEW s, NEW e, IsSeq(s)
    PROVE  /\ IsSeq(Append(s, e))
           /\ \A i \in DOMAIN Append(s, e) : Append(s, e)[i] = e \/ (i \in DOMAIN s /\ Append(s, e)[i] = s[i])
<1> DEFINE S == {s[i] : i \in DOMAIN s} \cup {e}
<1>1. s \in Seq(S)
  BY DEF IsSeq
<1>2. Append(s, e) \in Seq(S) /\ DOMAIN s = 1..Len(s) /\ Len(s) \in Nat
  BY <1>1
<1>3. \A i \in DOMAIN Append(s, e) : Append(s, e)[i] = e \/ (i \in DOMAIN s /\ Append(s, e)[i] = s[i])
  BY <1>1, <1>2
<1>4. Append(s, e) \in Seq({Append(s, e)[i] : i \in DOMAIN Append(s, e)})
  <2> DEFINE a == Append(s, e)
  <2>1. a \in Seq(S)
    BY <1>2
  <2> HIDE DEF a
  <2>2. a \in Seq({a[i] : i \in DOMAIN a})
    BY <2>1
  <2> QED  BY <2>2 DEF a
<1> QED  BY <1>3, <1>4 DEF IsSeq

LEMMA CommandTyped ==
    ASSUME Typed, mode = "run", stage < Len(pipelines[1]), pipelines # <<>>
    PROVE  Command \in Seq(STRING)
BY DEF Typed, Command

(* A list of pieces is a sequence, even where it might be one of answers.  *)
LEMMA PiecesAreASequence ==
    ASSUME CwdIsList, IsByteStream
    PROVE  IsSeq(cwd.items)
<1> SUFFICES ASSUME cwd.items = [i \in DOMAIN cwd.items |-> cwd.items[i]],
                    \A i \in DOMAIN cwd.items : cwd.items[i].kind = "answer"
             PROVE  IsSeq(cwd.items)
  BY DEF CwdIsList
<1>1. DOMAIN cwd.items = {}
  BY DEF IsByteStream, IsListOf
<1>2. cwd.items = [i \in 1..0 |-> cwd.items[i]]
  BY <1>1
<1> QED  BY <1>1, <1>2 DEF IsSeq

-----------------------------------------------------------------------------
LEMMA InitInvariant == Init => IInv
<1> SUFFICES ASSUME Init PROVE IInv
  OBVIOUS
<1>1. cwd.items = <<>> /\ mode = "prompt"
  BY DEF Init, NoInput
<1>2. CwdIsList /\ Labelled(cwd.items) /\ CwdIsHere
  BY <1>1, EmptyList DEF CwdIsList, Labelled, CwdIsHere, Here
<1>3. pipelines \in Seq(Seq(Seq(STRING))) /\ number \in Nat /\ stage \in Nat
  BY EmptyList DEF Init
<1>4. Typed
  BY <1>1, <1>2, <1>3 DEF Typed, Modes
<1>5. PromptIsIdle /\ Waiting
  BY <1>1 DEF Init, PromptIsIdle, Waiting
<1>6. SentHere /\ EndsOnlyFor
  BY <1>1 DEF SentHere, EndsOnlyFor
<1> QED  BY <1>2, <1>4, <1>5, <1>6 DEF IInv

(* cwd is this pipeline's from one command to the next.                    *)
CwdFine == CwdIsList /\ Labelled(cwd.items) /\ CwdIsHere

LEMMA CwdKept ==
    ASSUME IInv, UNCHANGED <<number, cwd>>, stage' \in {stage, stage + 1}
    PROVE  CwdFine'
<1>1. stage \in Nat /\ CwdFine
  BY DEF IInv, Typed, CwdFine
<1>2. \A i \in DOMAIN cwd.items : \A x \in cwd.items[i].strands : x.number = number' /\ x.stage <= stage
  BY <1>1 DEF CwdFine, CwdIsHere, Here
<1>3. \A i \in DOMAIN cwd'.items : \A x \in cwd'.items[i].strands : x.stage <= stage'
  <2> SUFFICES ASSUME NEW i \in DOMAIN cwd.items, NEW x \in cwd.items[i].strands
               PROVE  x.stage <= stage'
    OBVIOUS
  <2>0. x.stage \in Nat /\ x.stage <= stage
    BY <1>1, <1>2 DEF CwdFine, Labelled
  <2>1. CASE stage' = stage
    BY <2>0, <2>1
  <2>2. CASE stage' = stage + 1
    BY <1>1, <2>0, <2>2
  <2> QED  BY <2>1, <2>2
<1> QED  BY <1>1, <1>2, <1>3 DEF CwdFine, CwdIsHere, Here, CwdIsList, Labelled

LEMMA Proceeding ==
    ASSUME IInv, pipelines # <<>>, Proceed, UNCHANGED <<pipelines, number>>, CwdFine'
    PROVE  IInv'
<1>1. mode' = "run" /\ stage' \in Nat
  BY DEF IInv, Typed, Proceed
<1>2. Typed'
  BY <1>1 DEF IInv, Typed, Modes, CwdFine
<1>3. PromptIsIdle' /\ Waiting' /\ SentHere' /\ EndsOnlyFor'
  BY <1>1 DEF PromptIsIdle, Waiting, SentHere, EndsOnlyFor
<1> QED  BY <1>2, <1>3 DEF IInv, CwdFine

LEMMA Ending ==
    ASSUME IInv, NEW why, End(why), UNCHANGED <<pipelines, number, cwd>>, EndsOnlyFor'
    PROVE  IInv'
<1>1. mode' = "ended" /\ stage' = stage
  BY DEF End
<1>2. CwdFine'
  BY <1>1, CwdKept
<1>3. Typed'
  BY <1>1, <1>2 DEF IInv, Typed, Modes, CwdFine
<1>4. PromptIsIdle' /\ Waiting' /\ SentHere'
  BY <1>1 DEF PromptIsIdle, Waiting, SentHere
<1> QED  BY <1>2, <1>3, <1>4 DEF IInv, CwdFine

-----------------------------------------------------------------------------
LEMMA TypeStep == IInv /\ Type => IInv'
<1> SUFFICES ASSUME IInv, Type PROVE IInv'
  OBVIOUS
<1>1. mode' = "run" /\ UNCHANGED <<number, stage, cwd>>
  BY DEF Type
<1>2. pipelines' \in Seq(Seq(Seq(STRING))) /\ pipelines' # <<>>
  BY PipelinesTyped DEF Type
<1>3. CwdFine'
  BY <1>1, CwdKept
<1>4. Typed'
  BY <1>1, <1>2, <1>3 DEF IInv, Typed, Modes, CwdFine
<1>5. PromptIsIdle' /\ Waiting' /\ SentHere' /\ EndsOnlyFor'
  BY <1>1, <1>2 DEF PromptIsIdle, Waiting, SentHere, EndsOnlyFor
<1> QED  BY <1>3, <1>4, <1>5 DEF IInv, CwdFine

LEMMA NextPipelineStep == IInv /\ NextPipeline => IInv'
<1> SUFFICES ASSUME IInv, NextPipeline PROVE IInv'
  OBVIOUS
<1>1. cwd'.items = <<>> /\ stage' = 0 /\ number' \in Nat
  BY DEF NextPipeline, NoInput, IInv, Typed
<1>2. CwdFine'
  BY <1>1, EmptyList DEF CwdFine, CwdIsList, Labelled, CwdIsHere, Here
<1>3. pipelines' \in Seq(Seq(Seq(STRING))) /\ mode' = (IF pipelines' = <<>> THEN "prompt" ELSE "run")
  BY DEF NextPipeline, IInv, Typed, PromptIsIdle
<1>4. Typed'
  BY <1>1, <1>2, <1>3 DEF Typed, Modes, CwdFine
<1>5. PromptIsIdle' /\ Waiting' /\ SentHere' /\ EndsOnlyFor'
  BY <1>3 DEF PromptIsIdle, Waiting, SentHere, EndsOnlyFor
<1> QED  BY <1>2, <1>4, <1>5 DEF IInv, CwdFine

LEMMA EndingSteps == IInv /\ (EndOfFile \/ Interrupt \/ Exit \/ TransduceRaises) => IInv'
<1> SUFFICES ASSUME IInv, EndOfFile \/ Interrupt \/ Exit \/ TransduceRaises PROVE IInv'
  OBVIOUS
<1>1. CASE EndOfFile
  <2>1. EndsOnlyFor'
    BY <1>1 DEF EndOfFile, End, linevars, EndsOnlyFor, IInv, PromptIsIdle
  <2> QED  BY <1>1, <2>1, Ending DEF EndOfFile, linevars
<1>2. CASE Interrupt
  <2>1. EndsOnlyFor'
    BY <1>2 DEF Interrupt, End, linevars, EndsOnlyFor, IInv, PromptIsIdle
  <2> QED  BY <1>2, <2>1, Ending DEF Interrupt, linevars
<1>3. CASE Exit
  <2>1. Command' = Command /\ Len(Command) = 1
    BY <1>3 DEF Exit, End, linevars, Command, IsExit
  <2>2. EndsOnlyFor'
    BY <1>3, <2>1 DEF Exit, End, EndsOnlyFor
  <2> QED  BY <1>3, <2>2, Ending DEF Exit, linevars
<1>4. CASE TransduceRaises
  <2>1. PICK why \in {"OSError", "ParseError"} : End(why)
    BY <1>4 DEF TransduceRaises
  <2>2. Command' = Command /\ Head(Command) = "transduce" /\ cwd'.given
    BY <1>4, <2>1 DEF TransduceRaises, End, linevars, Command, IInv, Waiting
  <2>3. EndsOnlyFor'
    BY <2>1, <2>2 DEF End, EndsOnlyFor
  <2> QED  BY <1>4, <2>1, <2>3, Ending DEF TransduceRaises, linevars
<1> QED  BY <1>1, <1>2, <1>3, <1>4

LEMMA PassStep == IInv /\ Pass => IInv'
<1> SUFFICES ASSUME IInv, Pass PROVE IInv'
  OBVIOUS
<1>1. Proceed /\ UNCHANGED <<pipelines, number, cwd>> /\ pipelines # <<>> /\ stage' = stage + 1
  BY DEF Pass, linevars, Proceed, IInv, PromptIsIdle
<1> QED  BY <1>1, CwdKept, Proceeding

(* What a command makes is of this pipeline and of the stage reached next. *)
LEMMA StrandIsHere ==
    ASSUME Typed, stage' = stage + 1, number' = number, NEW frames
    PROVE  LET x == Strand(frames)
           IN  /\ {"number", "stage"} \subseteq DOMAIN x /\ x.stage \in Nat
               /\ x.number = number' /\ x.stage <= stage'
BY DEF Strand, Typed

LEMMA PayloadStep == IInv /\ Payload => IInv'
<1> SUFFICES ASSUME IInv, Payload PROVE IInv'
  OBVIOUS
<1>1. Proceed /\ UNCHANGED <<pipelines, number>> /\ pipelines # <<>> /\ stage' = stage + 1
  BY DEF Payload, At, linevars, Proceed, IInv, PromptIsIdle
<1>2. CASE cwd' = cwd
  BY <1>1, <1>2, CwdKept, Proceeding
<1>3. CASE cwd' = Given([i \in DOMAIN Names |-> Piece({Strand(<<>>)})])
  <2>1. Command \in Seq(STRING) /\ Command # <<>>
    BY CommandTyped DEF Payload, At, IInv, PromptIsIdle
  <2>2. PICK n \in Nat : DOMAIN Names = 1..n
    BY <2>1 DEF Names
  <2>3. cwd'.items = [i \in 1..n |-> Piece({Strand(<<>>)})]
    BY <1>3, <2>2 DEF Given
  <2>4. IsSeq(cwd'.items)
    <3>1. cwd'.items = [i \in 1..n |-> cwd'.items[i]]
      BY <2>3
    <3> QED  BY <3>1, Listing
  <2>5. \A i \in DOMAIN cwd'.items : cwd'.items[i].strands = {Strand(<<>>)}
    BY <2>3 DEF Piece
  <2>6. CwdFine'
    BY <1>1, <2>4, <2>5, StrandIsHere DEF CwdFine, CwdIsList, Labelled, CwdIsHere, Here, IInv
  <2> QED  BY <1>1, <2>6, Proceeding
<1> QED  BY <1>2, <1>3 DEF Payload

LEMMA H2FramesStep == IInv /\ H2Frames => IInv'
<1> SUFFICES ASSUME IInv, H2Frames PROVE IInv'
  OBVIOUS
<1> DEFINE parse == Statement(Names)
           x == Strand(parse.frames)
           piece == Piece({x})
<1>1. UNCHANGED <<pipelines, number>> /\ pipelines # <<>>
  BY DEF H2Frames, At, linevars, IInv, PromptIsIdle
<1>2. CASE parse.at = "H2Error"
  <2>1. End("H2Error") /\ cwd' = cwd
    BY <1>2 DEF H2Frames
  <2>2. Names \in Seq(STRING) /\ Head(Command) = "h2frames"
    BY <1>1, CommandTyped DEF H2Frames, At, IInv, Names
  <2>3. \E t \in ToSet(Names) \cap DOMAIN Number : Number[t] \notin 0..MaxStreamId
    BY <1>2, <2>2, ErrorIsAboutAnId
  <2>4. Command' = Command /\ Names' = Names
    BY <1>1, <2>1 DEF End, Command, Names
  <2>5. EndsOnlyFor'
    BY <2>1, <2>2, <2>3, <2>4 DEF End, EndsOnlyFor
  <2> QED  BY <1>1, <2>1, <2>5, Ending
<1>3. CASE parse.at # "H2Error"
  <2>1. Proceed /\ stage' = stage + 1
    BY <1>3 DEF H2Frames, Proceed
  <2>2. CASE cwd' = cwd
    BY <1>1, <2>1, <2>2, CwdKept, Proceeding
  <2>3. CASE IsByteStream /\ cwd' = Given(Append(cwd.items, piece))
    <3>1. cwd'.items = Append(cwd.items, piece) /\ IsSeq(cwd.items)
      BY <2>3, PiecesAreASequence DEF Given, IInv, Typed
    <3>2. /\ IsSeq(cwd'.items)
          /\ \A i \in DOMAIN cwd'.items :
                cwd'.items[i] = piece \/ (i \in DOMAIN cwd.items /\ cwd'.items[i] = cwd.items[i])
      BY <3>1, Appending
    <3>3. \A i \in DOMAIN cwd'.items : \A y \in cwd'.items[i].strands :
              y = x \/ \E k \in DOMAIN cwd.items : y \in cwd.items[k].strands
      BY <3>2 DEF Piece
    <3>4. \A i \in DOMAIN cwd.items : \A y \in cwd.items[i].strands :
              /\ {"number", "stage"} \subseteq DOMAIN y /\ y.stage \in Nat
              /\ y.number = number' /\ y.stage <= stage'
      <4>1. \A i \in DOMAIN cwd.items : \A y \in cwd.items[i].strands :
                /\ {"number", "stage"} \subseteq DOMAIN y /\ y.stage \in Nat
                /\ y.number = number /\ y.stage <= stage
        BY DEF IInv, Typed, Labelled, CwdIsHere, Here
      <4>2. stage \in Nat
        BY DEF IInv, Typed
      <4> QED  BY <1>1, <2>1, <4>1, <4>2
    <3>5. /\ {"number", "stage"} \subseteq DOMAIN x /\ x.stage \in Nat
          /\ x.number = number' /\ x.stage <= stage'
      BY <1>1, <2>1, StrandIsHere DEF IInv
    <3>6. CwdFine'
      <4> HIDE DEF x
      <4> QED  BY <3>2, <3>3, <3>4, <3>5 DEF CwdFine, CwdIsList, Labelled, CwdIsHere, Here
    <3> QED  BY <1>1, <2>1, <3>6, Proceeding
  <2>4. CASE cwd' = Given(<<piece>>)
    <3>1. cwd'.items = <<piece>>
      BY <2>4 DEF Given
    <3>2. DOMAIN cwd'.items = 1..1 /\ cwd'.items = [i \in 1..1 |-> cwd'.items[i]] /\ cwd'.items[1] = piece
      BY <3>1
    <3>3. IsSeq(cwd'.items)
      BY <3>2, Listing
    <3>4. \A i \in DOMAIN cwd'.items : cwd'.items[i].strands = {x}
      BY <3>2 DEF Piece
    <3>5. CwdFine'
      BY <1>1, <2>1, <3>3, <3>4, StrandIsHere DEF CwdFine, CwdIsList, Labelled, CwdIsHere, Here, IInv
    <3> QED  BY <1>1, <2>1, <3>5, Proceeding
  <2> QED  BY <2>2, <2>3, <2>4 DEF H2Frames
<1> QED  BY <1>2, <1>3

-----------------------------------------------------------------------------
(* A name that is valid for a server and unknown to the origins is a       *)
(* transducer's.                                                           *)
LEMMA UnknownIsTransducer ==
    ASSUME NEW names, ValidServers(names), ~(ToSet(names) \subseteq ToSet(OriginNames))
    PROVE  ToSet(names) \cap ToSet(TransducerNames) # {}
BY DEF ValidServers

LEMMA GridOrClusterStep == IInv /\ GridOrCluster => IInv'
<1> SUFFICES ASSUME IInv, GridOrCluster PROVE IInv'
  OBVIOUS
<1> DEFINE names == Defaulted(Names, OriginNames)
           shows == IsAnswers /\ ValidServers(names) /\ names # <<>>
<1>1. /\ UNCHANGED <<pipelines, number>> /\ pipelines # <<>> /\ mode = "run"
      /\ Head(Command) \in {"grid", "cluster"}
  BY DEF GridOrCluster, At, linevars, IInv, PromptIsIdle
<1>2. (Proceed /\ mode' = "run") \/ (shows /\ ~(ToSet(names) \subseteq ToSet(OriginNames)) /\ End("KeyError"))
  BY DEF GridOrCluster, LookUp, Proceed
<1>3. cwd' = (IF IsAnswers /\ mode' = "run" THEN NoInput ELSE cwd)
  BY DEF GridOrCluster
<1>4. CASE Proceed /\ mode' = "run"
  <2>1. stage' = stage + 1
    BY <1>4 DEF Proceed
  <2>2. CASE cwd' = cwd
    BY <1>1, <1>4, <2>1, <2>2, CwdKept, Proceeding
  <2>3. CASE cwd' = NoInput
    <3>1. CwdFine'
      BY <2>3, EmptyList DEF NoInput, CwdFine, CwdIsList, Labelled, CwdIsHere, Here
    <3> QED  BY <1>1, <1>4, <3>1, Proceeding
  <2> QED  BY <1>3, <2>2, <2>3
<1>5. CASE shows /\ ~(ToSet(names) \subseteq ToSet(OriginNames)) /\ End("KeyError")
  <2>1. cwd' = cwd /\ cwd.given /\ Command' = Command
    BY <1>1, <1>3, <1>5 DEF End, IsAnswers, IsListOf, Command
  <2>2. names = Names /\ ToSet(Names) \cap ToSet(TransducerNames) # {}
    BY <1>5, UnknownIsTransducer DEF Defaulted
  <2>3. EndsOnlyFor'
    BY <1>1, <1>5, <2>1, <2>2 DEF End, EndsOnlyFor, Names, ToTransducers
  <2> QED  BY <1>1, <1>5, <2>1, <2>3, Ending
<1> QED  BY <1>2, <1>4, <1>5

LEMMA TransduceStep == IInv /\ Transduce => IInv'
<1> SUFFICES ASSUME IInv, Transduce PROVE IInv'
  OBVIOUS
<1>1. /\ UNCHANGED <<pipelines, number, cwd>> /\ pipelines # <<>> /\ mode = "run"
      /\ stage < Len(pipelines[1]) /\ Command # <<>> /\ Head(Command) = "transduce"
  BY DEF Transduce, At, linevars, IInv, PromptIsIdle
<1>2. CASE Proceed
  <2>1. stage' = stage + 1
    BY <1>2 DEF Proceed
  <2> QED  BY <1>1, <1>2, <2>1, CwdKept, Proceeding
<1>3. CASE ~Proceed
  <2>1. ValidTransducers(Names) /\ IsByteStream
    BY <1>3 DEF Transduce
  <2>2. mode' = "transduce" /\ UNCHANGED <<ending, stage>> /\ cwd.given
    BY <1>3, <2>1 DEF Transduce, LookUp, ValidTransducers, IsByteStream, IsListOf
  <2>3. todo' = Names /\ Command' = Command /\ Names' = Names
    BY <1>1, <2>2 DEF Transduce, Command, Names
  <2>4. Len(Names) \in Nat
    BY <1>1, CommandTyped DEF IInv, Names
  <2>5. CwdFine'
    BY <1>1, <2>2, CwdKept
  <2>6. Typed'
    BY <1>1, <2>2, <2>5 DEF IInv, Typed, Modes, CwdFine
  <2>7. SentHere'
    BY <2>2, <2>3, <2>4 DEF SentHere
  <2>8. PromptIsIdle' /\ Waiting' /\ EndsOnlyFor'
    BY <1>1, <2>2, <2>3 DEF PromptIsIdle, Waiting, EndsOnlyFor
  <2> QED  BY <2>5, <2>6, <2>7, <2>8 DEF IInv, CwdFine
<1> QED  BY <1>2, <1>3

LEMMA TransduceOneStep == IInv /\ TransduceOne => IInv'
<1> SUFFICES ASSUME IInv, TransduceOne PROVE IInv'
  OBVIOUS
<1>1. /\ UNCHANGED <<pipelines, number>> /\ pipelines # <<>> /\ mode = "transduce"
      /\ sent' = cwd.items
  BY DEF TransduceOne, linevars, IInv, PromptIsIdle
<1>2. PICK n \in 0..MaxPieces : cwd' = Given([i \in 1..n |-> Through(Head(todo))])
  BY DEF TransduceOne
<1> DEFINE before == UNION {cwd.items[i].strands : i \in DOMAIN cwd.items}
<1>3. /\ cwd'.given /\ cwd'.items = [i \in 1..n |-> Through(Head(todo))] /\ n \in Nat
  BY <1>2, ReplAssumption DEF Given
<1>4. IsSeq(cwd'.items)
  <2>1. cwd'.items = [i \in 1..n |-> cwd'.items[i]]
    BY <1>3
  <2> QED  BY <1>3, <2>1, Listing
<1>5. \A i \in DOMAIN cwd'.items : \A y \in cwd'.items[i].strands :
          \E x \in before : y = [x EXCEPT !.via = Append(@, Head(todo))]
  BY <1>3 DEF Through, Piece
<1>6. \A x \in before : /\ {"number", "stage"} \subseteq DOMAIN x /\ x.stage \in Nat
                         /\ x.number = number /\ x.stage <= stage
  BY DEF IInv, Typed, Labelled, CwdIsHere, Here
<1>7. \A i \in DOMAIN cwd'.items : \A y \in cwd'.items[i].strands :
          /\ {"number", "stage"} \subseteq DOMAIN y /\ y.stage \in Nat
          /\ y.number = number /\ y.stage <= stage
  <2> SUFFICES ASSUME NEW x \in before, NEW y, y = [x EXCEPT !.via = Append(@, Head(todo))]
               PROVE  /\ {"number", "stage"} \subseteq DOMAIN y /\ y.stage \in Nat
                      /\ y.number = number /\ y.stage <= stage
    BY <1>5
  <2>1. DOMAIN y = DOMAIN x /\ y.stage = x.stage /\ y.number = x.number
    BY <1>6
  <2> QED  BY <1>6, <2>1
<1>8. stage \in Nat
  BY DEF IInv, Typed
<1>9. CASE Proceed
  <2>1. stage' = stage + 1
    BY <1>9 DEF Proceed
  <2>2. \A i \in DOMAIN cwd'.items : \A y \in cwd'.items[i].strands : y.stage <= stage'
    BY <1>7, <1>8, <2>1
  <2>3. CwdFine'
    BY <1>1, <1>4, <1>7, <2>2 DEF CwdFine, CwdIsList, Labelled, CwdIsHere, Here
  <2> QED  BY <1>1, <1>9, <2>3, Proceeding
<1>10. CASE UNCHANGED <<mode, stage, ending>>
  <2>1. CwdFine'
    BY <1>1, <1>4, <1>7, <1>10 DEF CwdFine, CwdIsList, Labelled, CwdIsHere, Here
  <2>2. Typed'
    BY <1>1, <1>10, <2>1 DEF IInv, Typed, CwdFine
  <2>3. Command' = Command
    BY <1>1, <1>10 DEF Command
  <2>4. SentHere'
    BY <1>1, <1>10 DEF SentHere, IInv, CwdIsHere, Here
  <2>5. PromptIsIdle' /\ Waiting' /\ EndsOnlyFor'
    BY <1>1, <1>3, <1>10, <2>3 DEF IInv, PromptIsIdle, Waiting, EndsOnlyFor
  <2> QED  BY <2>1, <2>2, <2>4, <2>5 DEF IInv, CwdFine
<1> QED  BY <1>9, <1>10 DEF TransduceOne

-----------------------------------------------------------------------------
LEMMA CallStep == IInv /\ Call => IInv'
<1> SUFFICES ASSUME IInv, Call PROVE IInv'
  OBVIOUS
<1>1. /\ UNCHANGED <<pipelines, number, cwd>> /\ pipelines # <<>> /\ mode = "run"
      /\ Command # <<>> /\ Head(Command) \in Calls
  BY DEF Call, At, linevars, IInv, PromptIsIdle
<1>2. CASE Proceed
  <2>1. stage' = stage + 1
    BY <1>2 DEF Proceed
  <2> QED  BY <1>1, <1>2, <2>1, CwdKept, Proceeding
<1>3. CASE ~Proceed
  <2>1. IsByteStream /\ ValidListed /\ LookUp(Listed, Dict, mode' = "call" /\ UNCHANGED <<ending, stage>>)
    BY <1>3 DEF Call
  <2>2. cwd.given
    BY <2>1 DEF IsByteStream, IsListOf
  <2>3. CASE mode' = "call" /\ UNCHANGED <<ending, stage>>
    <3>1. sent' = cwd.items /\ Command' = Command
      BY <1>1, <2>3 DEF Call, Command
    <3>2. CwdFine'
      BY <1>1, <2>3, CwdKept
    <3>3. Typed'
      BY <1>1, <2>3, <3>2 DEF IInv, Typed, Modes, CwdFine
    <3>4. SentHere'
      BY <1>1, <2>3, <3>1, <3>2 DEF SentHere, CwdFine, CwdIsHere, Here
    <3>5. PromptIsIdle' /\ Waiting' /\ EndsOnlyFor'
      BY <1>1, <2>2, <2>3, <3>1 DEF PromptIsIdle, Waiting, EndsOnlyFor
    <3> QED  BY <3>2, <3>3, <3>4, <3>5 DEF IInv, CwdFine
  <2>4. CASE ~(ToSet(Listed) \subseteq ToSet(Dict)) /\ End("KeyError")
    <3>1. Head(Command) \notin ToTransducers
      BY <2>1, <2>4 DEF ValidListed, ValidTransducers, Dict
    <3>2. ValidServers(Listed) /\ Dict = OriginNames
      BY <2>1, <3>1 DEF ValidListed, Dict
    <3>3. Listed = Names
      BY <2>4 DEF Listed, Defaulted
    <3>4. ToSet(Names) \cap ToSet(TransducerNames) # {}
      BY <2>4, <3>2, <3>3, UnknownIsTransducer
    <3>5. Command' = Command
      BY <1>1, <2>4 DEF End, Command
    <3>6. EndsOnlyFor'
      BY <1>1, <2>2, <2>4, <3>1, <3>4, <3>5 DEF End, EndsOnlyFor, Names
    <3> QED  BY <1>1, <2>4, <3>6, Ending
  <2> QED  BY <2>1, <2>3, <2>4 DEF LookUp
<1> QED  BY <1>2, <1>3

LEMMA CallingStep == IInv /\ Calling => IInv'
<1> SUFFICES ASSUME IInv, Calling PROVE IInv'
  OBVIOUS
<1>1. UNCHANGED <<mode, ending, pipelines, number, stage, cwd, todo, sent>>
  BY DEF Calling, linevars
<1>2. Command' = Command /\ Names' = Names
  BY <1>1 DEF Command, Names
<1> QED  BY <1>1, <1>2 DEF IInv, Typed, CwdIsList, Labelled, PromptIsIdle, Waiting, CwdIsHere, Here,
                           SentHere, EndsOnlyFor

(* What a call raises is what it may raise: nothing of parsing when the    *)
(* command does not parse.                                                 *)
Failing ==
    returned # <<>> =>
        /\ mode \in {"call", "ended"}
        /\ mode = "call" /\ returned[1] # "ok" => returned[2] \in Fanout!MayRaise

LEMMA MayRaiseStays ==
    ASSUME UNCHANGED <<pipelines, stage>>
    PROVE  Fanout!MayRaise' = Fanout!MayRaise
<1>1. Command' = Command
  BY DEF Command
<1>2. ParsesAnswers' = ParsesAnswers
  BY <1>1 DEF ParsesAnswers
<1> QED  BY <1>2 DEF Fanout!MayRaise

LEMMA FailingStep == Failing /\ [Next]_vars => Failing'
<1> SUFFICES ASSUME Failing, [Next]_vars PROVE Failing'
  OBVIOUS
<1>1. CASE UNCHANGED vars
  <2>1. UNCHANGED <<mode, returned, pipelines, stage>>
    BY <1>1 DEF vars, linevars, callvars
  <2>2. Fanout!MayRaise' = Fanout!MayRaise
    BY <2>1, MayRaiseStays
  <2> QED  BY <2>1, <2>2 DEF Failing
<1>2. CASE Calling
  <2>1. /\ UNCHANGED <<mode, pipelines, stage>> /\ mode = "call"
        /\ \/ returned' = returned
           \/ returned'[1] = "ok"
           \/ \E why \in Fanout!MayRaise : returned' = <<"raise", why>>
    BY <1>2 DEF Calling, linevars, Fanout!Return, Fanout!Ask, Fanout!SettleAs
  <2>2. Fanout!MayRaise' = Fanout!MayRaise
    BY <2>1, MayRaiseStays
  <2> QED  BY <2>1, <2>2 DEF Failing
<1>3. CASE CallReturns
  BY <1>3 DEF CallReturns, Failing
<1>4. CASE Call
  <2>1. mode = "run" /\ returned' = returned
    BY <1>4 DEF Call, At
  <2> QED  BY <2>1 DEF Failing
<1>5. CASE EndOfFile \/ Interrupt \/ Exit \/ TransduceRaises
  <2>1. mode' = "ended"
    BY <1>5 DEF EndOfFile, Interrupt, Exit, TransduceRaises, End
  <2> QED  BY <2>1 DEF Failing
<1>6. CASE Type \/ NextPipeline \/ Pass \/ Payload \/ H2Frames \/ GridOrCluster
             \/ Transduce \/ TransduceOne
  <2>1. mode \notin {"call", "ended"} /\ returned' = returned
    BY <1>6 DEF Type, NextPipeline, Pass, Payload, H2Frames, GridOrCluster, Transduce,
                TransduceOne, At, callvars
  <2> QED  BY <2>1 DEF Failing
<1> QED  BY <1>1, <1>2, <1>3, <1>4, <1>5, <1>6 DEF Next

LEMMA CallReturnsStep == IInv /\ Failing /\ CallReturns => IInv'
<1> SUFFICES ASSUME IInv, Failing, CallReturns PROVE IInv'
  OBVIOUS
<1>1. /\ UNCHANGED <<pipelines, number>> /\ pipelines # <<>> /\ mode = "call"
      /\ cwd.given /\ Head(Command) \in Calls
  BY DEF CallReturns, linevars, IInv, PromptIsIdle, Waiting
<1>2. CASE returned[1] = "ok"
  <2>1. Proceed /\ stage' = stage + 1
    BY <1>2 DEF CallReturns, Proceed
  <2>2. CASE cwd' = cwd
    BY <1>1, <2>1, <2>2, CwdKept, Proceeding
  <2>3. CASE cwd' = Given([i \in 1..called |-> Answer(returned[2][i])])
    <3>1. cwd'.items = [i \in 1..called |-> Answer(returned[2][i])]
      BY <2>3 DEF Given
    <3>2. \A i \in DOMAIN cwd'.items : cwd'.items[i].kind = "answer" /\ cwd'.items[i].strands = {}
      BY <3>1 DEF Answer
    <3>3. cwd'.items = [i \in DOMAIN cwd'.items |-> cwd'.items[i]]
      BY <3>1
    <3>4. CwdFine'
      BY <3>2, <3>3 DEF CwdFine, CwdIsList, Labelled, CwdIsHere, Here
    <3> QED  BY <1>1, <2>1, <3>4, Proceeding
  <2> QED  BY <1>2, <2>2, <2>3 DEF CallReturns
<1>3. CASE returned[1] # "ok"
  <2>1. End(returned[2]) /\ cwd' = cwd
    BY <1>3 DEF CallReturns
  <2>2. Command' = Command
    BY <1>1, <2>1 DEF End, Command
  <2>3. \/ returned[2] = "OSError"
        \/ returned[2] = "ParseError" /\ Head(Command) \in Parsed \cup ToTransducers
    BY <1>1, <1>3 DEF CallReturns, Failing, Fanout!MayRaise, ParsesAnswers
  <2>4. EndsOnlyFor'
    BY <1>1, <2>1, <2>2, <2>3 DEF End, EndsOnlyFor
  <2> QED  BY <1>1, <2>1, <2>4, Ending
<1> QED  BY <1>2, <1>3

LEMMA StutterStep == IInv /\ UNCHANGED vars => IInv'
<1> SUFFICES ASSUME IInv, UNCHANGED vars PROVE IInv'
  OBVIOUS
<1>1. UNCHANGED <<mode, ending, pipelines, number, stage, cwd, todo, sent>>
  BY DEF vars, linevars
<1>2. Command' = Command /\ Names' = Names
  BY <1>1 DEF Command, Names
<1> QED  BY <1>1, <1>2 DEF IInv, Typed, CwdIsList, Labelled, PromptIsIdle, Waiting, CwdIsHere, Here,
                           SentHere, EndsOnlyFor

-----------------------------------------------------------------------------
LEMMA StepInvariance == IInv /\ Failing /\ [Next]_vars => IInv'
BY TypeStep, EndingSteps, NextPipelineStep, PassStep, PayloadStep, H2FramesStep, GridOrClusterStep,
   TransduceStep, TransduceOneStep, CallStep, CallingStep, CallReturnsStep, StutterStep
DEF Next

LEMMA Invariance == Spec => []IInv
<1>1. Init => Failing
  BY DEF Init, Failing
<1> QED  BY <1>1, InitInvariant, StepInvariance, FailingStep, PTL DEF Spec

(***************************************************************************)
(* Whatever is typed and whatever is answered, a session ends only for     *)
(* what EndsOnlyFor lists: of an answer that raises when it is parsed only *)
(* in a command that parses; of an H2Error, only when one of the           *)
(* statement's tokens is a number that is no stream identifier (repl.py    *)
(* 124-137, 229-283, 331-381; http1.py 287-301).                           *)
(***************************************************************************)
THEOREM SessionsEndForAReason == Spec => []EndsOnlyFor
<1>1. IInv => EndsOnlyFor
  BY DEF IInv
<1> QED  BY Invariance, <1>1, PTL

-----------------------------------------------------------------------------
(* The way of a piece: which transducers the commands after the one that   *)
(* made it named, and no payload of them replaced it.                      *)
RouteOf(p, first, k) ==
    IF k > first /\ HeadOf(p[k]) = "transduce" /\ ValidTransducers(Tail(p[k]))
      THEN Tail(p[k]) ELSE <<>>

Since(p, first, n) == FlattenSeq([k \in 1..n |-> RouteOf(p, first, k)])

ReplacesNothing(p, k) ==
    HeadOf(p[k]) = "payload" => Len(p[k]) = 1 \/ ToSet(Tail(p[k])) \cap Unencodable # {}

(* A strand has been through what n commands of p named, and then asked.   *)
HasBeen(x, p, n, asked) ==
    /\ x.via = Since(p, x.stage, n) \o asked
    /\ \A k \in x.stage + 1..n : ReplacesNothing(p, k)

Asked == IF mode = "transduce" THEN SubSeq(Names, 1, Len(Names) - Len(todo)) ELSE <<>>

StageFits ==
    /\ mode = "run" => stage <= Len(pipelines[1])
    /\ mode \in {"transduce", "call"} => stage < Len(pipelines[1])
    /\ mode = "prompt" => stage = 0 /\ DOMAIN cwd.items = {}

(* Pieces or answers: what is no list of pieces carries no strands.        *)
CwdIsOfAKind ==
    /\ ~cwd.given => DOMAIN cwd.items = {}
    /\ (\A i \in DOMAIN cwd.items : cwd.items[i].kind = "bytes")
         \/ (\A i \in DOMAIN cwd.items : cwd.items[i].strands = {})
    /\ \A i \in DOMAIN cwd.items : \A x \in cwd.items[i].strands : "via" \in DOMAIN x

TodoIsLeft ==
    mode = "transduce" =>
        /\ ValidTransducers(Names)
        /\ \E m \in 0..Len(Names) - 1 : todo = SubSeq(Names, m + 1, Len(Names))

CwdHasBeen ==
    mode # "ended" =>
        \A i \in DOMAIN cwd.items : \A x \in cwd.items[i].strands :
            HasBeen(x, pipelines[1], stage, Asked)

SentHasBeen ==
    mode = "call" \/ Asked # <<>> =>
        \A i \in DOMAIN sent : \A x \in sent[i].strands :
            HasBeen(x, pipelines[1], stage, IF Asked = <<>> THEN <<>> ELSE Front(Asked))

RInv == StageFits /\ CwdIsOfAKind /\ TodoIsLeft /\ CwdHasBeen /\ SentHasBeen

LEMMA SinceIs ==
    ASSUME NEW p \in Seq(Seq(STRING)), NEW first \in Nat, NEW n \in Nat, n <= Len(p)
    PROVE  /\ Since(p, first, n) \in Seq(STRING)
           /\ n + 1 <= Len(p) => Since(p, first, n + 1) = Since(p, first, n) \o RouteOf(p, first, n + 1)
           /\ n <= first => Since(p, first, n) = <<>>
<1> DEFINE m == Len(p)
           f == [k \in 1..m |-> RouteOf(p, first, k)]
           T == STRING
<1>1. m \in Nat
  OBVIOUS
<1>2. ASSUME NEW k \in 1..m
      PROVE  f[k] \in Seq(T) /\ f[k] = RouteOf(p, first, k)
  <2>1. p[k] \in Seq(STRING)
    <3> DEFINE S == Seq(STRING)
    <3> HIDE DEF S
    <3>1. p \in Seq(S)
      BY DEF S
    <3>2. p[k] \in S
      BY <3>1
    <3> QED
      BY <3>2 DEF S
  <2>2. HeadOf(p[k]) = "transduce" => Tail(p[k]) \in Seq(STRING)
    <3>1. CASE p[k] = <<>>
      <4>1. HeadOf(p[k]) # "transduce"
        BY <3>1 DEF HeadOf
      <4> QED
        BY <4>1
    <3>2. CASE p[k] # <<>>
      <4>1. \A c \in Seq(STRING) : c # <<>> => Tail(c) \in Seq(STRING)
        OBVIOUS
      <4> QED
        BY <2>1, <3>2, <4>1
    <3> QED
      BY <3>1, <3>2
  <2>3. <<>> \in Seq(STRING)
    BY EmptyList
  <2> QED
    BY <2>2, <2>3 DEF RouteOf
<1>3. \A j \in Nat : j <= m => Since(p, first, j) = Flat(f, j)
  <2> SUFFICES ASSUME NEW j \in Nat, j <= m
               PROVE  Since(p, first, j) = Flat(f, j)
    OBVIOUS
  <2>1. [k \in 1..j |-> RouteOf(p, first, k)] = [k \in 1..j |-> f[k]]
    BY <1>1
  <2> QED
    BY <2>1 DEF Since, Flat
<1> HIDE DEF f, T, m
<1>4. Pieces(f, m, T)
  BY <1>1, <1>2 DEF Pieces
<1>5. /\ Flat(f, 0) = <<>>
      /\ \A k \in Nat : k < m => Flat(f, k + 1) = Flat(f, k) \o f[k + 1]
      /\ \A k \in 0..m : Flat(f, k) \in Seq(T)
  BY <1>4, FlatIs
<1>6. Since(p, first, n) \in Seq(STRING)
  BY <1>1, <1>3, <1>5 DEF m, T
<1>7. n + 1 <= m => Since(p, first, n + 1) = Since(p, first, n) \o RouteOf(p, first, n + 1)
  <2> SUFFICES ASSUME n + 1 <= m
               PROVE  Since(p, first, n + 1) = Since(p, first, n) \o RouteOf(p, first, n + 1)
    OBVIOUS
  <2>1. n < m /\ n + 1 \in 1..m /\ n + 1 \in Nat /\ n <= m
    BY <1>1
  <2>2. f[n + 1] = RouteOf(p, first, n + 1)
    BY <1>2, <2>1
  <2> QED
    BY <1>3, <1>5, <2>1, <2>2
<1> DEFINE I == {j \in Nat : j <= m /\ j <= first => Flat(f, j) = <<>>}
<1>8. 0 \in I
  BY <1>5
<1>9. ASSUME NEW j \in Nat, j \in I
      PROVE  j + 1 \in I
  <2> SUFFICES ASSUME j + 1 <= m, j + 1 <= first PROVE Flat(f, j + 1) = <<>>
    OBVIOUS
  <2>1. j <= m /\ j < m /\ j + 1 \in 1..m /\ j <= first /\ ~(j + 1 > first)
    BY <1>1
  <2>2. Flat(f, j) = <<>>
    BY <1>9, <2>1
  <2>3. f[j + 1] = <<>>
    BY <1>2, <2>1 DEF RouteOf
  <2>4. Flat(f, j + 1) = Flat(f, j) \o f[j + 1]
    BY <1>5, <2>1
  <2>5. <<>> \o <<>> = <<>>
    OBVIOUS
  <2> QED
    BY <2>2, <2>3, <2>4, <2>5
<1>10. Nat \subseteq I
  <2> HIDE DEF I
  <2> QED
    BY <1>8, <1>9, SetInduction
<1>11. n <= first => Since(p, first, n) = <<>>
  BY <1>3, <1>10 DEF m
<1> QED
  BY <1>6, <1>7, <1>11 DEF m

LEMMA Joins ==
    ASSUME NEW S, NEW a \in Seq(S), NEW b \in Seq(S), NEW c \in Seq(S)
    PROVE  (a \o b) \o c = a \o (b \o c) /\ a \o <<>> = a
OBVIOUS

(* One more command, which asked those it names, if any.                   *)
LEMMA BeenOn ==
    ASSUME NEW p \in Seq(Seq(STRING)), NEW n \in Nat, n + 1 <= Len(p), NEW x, x.stage \in Nat,
           x.stage <= n, NEW asked, HasBeen(x, p, n, asked),
           asked = RouteOf(p, x.stage, n + 1), ReplacesNothing(p, n + 1)
    PROVE  HasBeen(x, p, n + 1, <<>>)
<1> DEFINE s == Since(p, x.stage, n + 1)
<1>1. s = Since(p, x.stage, n) \o asked /\ s \in Seq(STRING)
  <2>1. n <= Len(p) /\ n + 1 \in Nat
    OBVIOUS
  <2> QED
    BY <2>1, SinceIs
<1>2. x.via = s
  BY <1>1 DEF HasBeen
<1>3. s \o <<>> = s
  <2> HIDE DEF s
  <2> QED
    BY <1>1
<1>4. \A k \in x.stage + 1..n + 1 : ReplacesNothing(p, k)
  <2>1. \A k \in x.stage + 1..n + 1 : k = n + 1 \/ k \in x.stage + 1..n
    OBVIOUS
  <2> QED
    BY <2>1 DEF HasBeen
<1> QED
  BY <1>2, <1>3, <1>4 DEF HasBeen

(* A strand just made has been nowhere.                                    *)
LEMMA NewHasBeen ==
    ASSUME NEW p \in Seq(Seq(STRING)), NEW n \in Nat, n <= Len(p), NEW x, x.stage = n, x.via = <<>>
    PROVE  HasBeen(x, p, n, <<>>)
<1>1. Since(p, x.stage, n) = <<>>
  BY SinceIs
<1>2. <<>> \o <<>> = <<>>
  OBVIOUS
<1>3. x.stage + 1..n = {}
  OBVIOUS
<1> QED
  BY <1>1, <1>2, <1>3 DEF HasBeen

LEMMA PipelineTyped ==
    ASSUME IInv, pipelines # <<>>
    PROVE  pipelines[1] \in Seq(Seq(STRING)) /\ Len(pipelines[1]) \in Nat /\ stage \in Nat
<1> DEFINE S == Seq(Seq(STRING))
<1>1. pipelines \in Seq(S) /\ stage \in Nat
  BY DEF IInv, Typed
<1> HIDE DEF S
<1>2. pipelines[1] \in S
  BY <1>1
<1> QED
  BY <1>1, <1>2 DEF S

(* What cwd holds has followed the pipeline past the command under way.    *)
CwdFollows ==
    /\ CwdIsOfAKind'
    /\ \A i \in DOMAIN cwd'.items : \A x \in cwd'.items[i].strands :
           HasBeen(x, pipelines[1], stage + 1, <<>>)

LEMMA Going ==
    ASSUME IInv, pipelines # <<>>, stage < Len(pipelines[1]),
           Proceed, pipelines' = pipelines, CwdFollows
    PROVE  RInv'
<1>1. mode' = "run" /\ stage' = stage + 1
  BY DEF Proceed
<1>2. StageFits'
  BY <1>1, PipelineTyped DEF StageFits
<1>3. Asked' = <<>>
  BY <1>1 DEF Asked
<1>4. TodoIsLeft' /\ SentHasBeen'
  BY <1>1, <1>3 DEF TodoIsLeft, SentHasBeen
<1>5. CwdHasBeen'
  BY <1>1, <1>3 DEF CwdHasBeen, CwdFollows
<1> QED
  BY <1>2, <1>4, <1>5 DEF RInv, CwdFollows

LEMMA Stopping ==
    ASSUME RInv, NEW why, End(why), UNCHANGED <<pipelines, cwd>>
    PROVE  RInv'
<1>1. mode' = "ended" /\ stage' = stage
  BY DEF End
<1>2. Asked' = <<>>
  BY <1>1 DEF Asked
<1>3. StageFits' /\ TodoIsLeft' /\ CwdHasBeen'
  BY <1>1 DEF StageFits, TodoIsLeft, CwdHasBeen
<1>4. SentHasBeen'
  BY <1>1, <1>2 DEF SentHasBeen
<1>5. CwdIsOfAKind'
  BY DEF RInv, CwdIsOfAKind
<1> QED
  BY <1>3, <1>4, <1>5 DEF RInv

LEMMA NoneFollow ==
    ASSUME \A i \in DOMAIN cwd'.items : cwd'.items[i].strands = {},
           ~cwd'.given => DOMAIN cwd'.items = {}
    PROVE  CwdFollows
BY DEF CwdFollows, CwdIsOfAKind

(* A command that asked no transducer, and replaced no piece.              *)
Passes(command) ==
    /\ HeadOf(command) = "transduce" =>
          ~ValidTransducers(Tail(command)) \/ Tail(command) = <<>>
    /\ HeadOf(command) = "payload" =>
          Len(command) = 1 \/ ToSet(Tail(command)) \cap Unencodable # {}

LEMMA StrandsFollow ==
    ASSUME IInv, RInv, mode \in {"run", "call"}, pipelines # <<>>,
           stage < Len(pipelines[1]), Passes(Command)
    PROVE  \A i \in DOMAIN cwd.items : \A x \in cwd.items[i].strands :
               HasBeen(x, pipelines[1], stage + 1, <<>>)
<1> SUFFICES ASSUME NEW i \in DOMAIN cwd.items, NEW x \in cwd.items[i].strands
             PROVE  HasBeen(x, pipelines[1], stage + 1, <<>>)
  OBVIOUS
<1>1. x.stage \in Nat /\ x.stage <= stage
  BY DEF IInv, Typed, Labelled, CwdIsHere, Here
<1>2. HasBeen(x, pipelines[1], stage, <<>>)
  BY DEF RInv, CwdHasBeen, Asked
<1>3. ReplacesNothing(pipelines[1], stage + 1)
  BY DEF Passes, ReplacesNothing, Command
<1>4. RouteOf(pipelines[1], x.stage, stage + 1) = <<>>
  BY DEF Passes, RouteOf, Command
<1>5. pipelines[1] \in Seq(Seq(STRING)) /\ Len(pipelines[1]) \in Nat /\ stage \in Nat
  BY PipelineTyped
<1> DEFINE e == <<>>
<1>6. stage + 1 <= Len(pipelines[1])
  BY <1>5
<1> HIDE DEF e
<1>7. HasBeen(x, pipelines[1], stage, e) /\ e = RouteOf(pipelines[1], x.stage, stage + 1)
  BY <1>2, <1>4 DEF e
<1> QED
  BY <1>1, <1>3, <1>5, <1>6, <1>7, BeenOn

LEMMA CwdStays ==
    ASSUME IInv, RInv, mode \in {"run", "call"}, pipelines # <<>>,
           stage < Len(pipelines[1]), Passes(Command), cwd' = cwd
    PROVE  CwdFollows
<1>1. CwdIsOfAKind'
  BY DEF RInv, CwdIsOfAKind
<1> QED
  BY <1>1, StrandsFollow DEF CwdFollows

LEMMA Passing ==
    ASSUME IInv, RInv, mode \in {"run", "call"}, pipelines # <<>>,
           stage < Len(pipelines[1]), Passes(Command), Proceed, UNCHANGED <<pipelines, cwd>>
    PROVE  RInv'
BY CwdStays, Going

-----------------------------------------------------------------------------
LEMMA RInit == Init => RInv
<1> SUFFICES ASSUME Init PROVE RInv
  OBVIOUS
<1>1. stage = 0 /\ DOMAIN cwd.items = {} /\ mode = "prompt"
  <2>1. cwd.items = <<>>
    BY DEF Init, NoInput
  <2> QED
    BY <2>1, EmptyList DEF Init
<1>2. Asked = <<>>
  BY <1>1 DEF Asked
<1> QED
  BY <1>1, <1>2 DEF RInv, StageFits, CwdIsOfAKind, TodoIsLeft, CwdHasBeen, SentHasBeen

LEMMA TypeRoutes == IInv /\ RInv /\ Type /\ IInv' => RInv'
<1> SUFFICES ASSUME IInv, RInv, Type, IInv' PROVE RInv'
  OBVIOUS
<1>1. mode = "prompt" /\ mode' = "run" /\ UNCHANGED <<stage, cwd>>
  BY DEF Type
<1>2. stage = 0 /\ DOMAIN cwd.items = {}
  BY <1>1 DEF RInv, StageFits
<1>3. Asked' = <<>>
  BY <1>1 DEF Asked
<1>4. stage <= Len(pipelines'[1])
  <2>1. pipelines' # <<>>
    BY <1>1 DEF IInv, PromptIsIdle
  <2>2. Len(pipelines'[1]) \in Nat
    <3> DEFINE S == Seq(Seq(STRING))
    <3>1. pipelines' \in Seq(S)
      BY DEF IInv, Typed
    <3> HIDE DEF S
    <3>2. pipelines'[1] \in S
      BY <2>1, <3>1
    <3> QED
      BY <3>2 DEF S
  <2> QED
    BY <1>2, <2>2
<1> QED
  BY <1>1, <1>2, <1>3, <1>4 DEF RInv, StageFits, CwdIsOfAKind, TodoIsLeft, CwdHasBeen, SentHasBeen

LEMMA NextPipelineRoutes == IInv /\ RInv /\ NextPipeline /\ IInv' => RInv'
<1> SUFFICES ASSUME IInv, RInv, NextPipeline, IInv' PROVE RInv'
  OBVIOUS
<1>1. /\ mode' = IF Tail(pipelines) = <<>> THEN "prompt" ELSE "run"
      /\ pipelines' = Tail(pipelines) /\ stage' = 0 /\ cwd' = NoInput
  BY DEF NextPipeline
<1>2. DOMAIN cwd'.items = {}
  <2>1. cwd'.items = <<>>
    BY <1>1 DEF NoInput
  <2> QED
    BY <2>1, EmptyList
<1>3. Asked' = <<>> /\ mode' \in {"prompt", "run"}
  BY <1>1 DEF Asked
<1>4. mode' = "run" => 0 <= Len(pipelines'[1])
  <2> SUFFICES ASSUME mode' = "run" PROVE 0 <= Len(pipelines'[1])
    OBVIOUS
  <2> DEFINE S == Seq(Seq(STRING))
  <2>1. pipelines' \in Seq(S) /\ pipelines' # <<>>
    BY <1>1 DEF IInv, Typed
  <2>2. Len(pipelines'[1]) \in Nat
    <3> HIDE DEF S
    <3>1. pipelines'[1] \in S
      BY <2>1
    <3> QED
      BY <3>1 DEF S
  <2> QED
    BY <2>2
<1> QED
  BY <1>1, <1>2, <1>3, <1>4 DEF RInv, StageFits, CwdIsOfAKind, TodoIsLeft, CwdHasBeen, SentHasBeen

LEMMA EndingRoutes ==
    IInv /\ RInv /\ (EndOfFile \/ Interrupt \/ Exit \/ TransduceRaises) => RInv'
<1> SUFFICES ASSUME RInv, EndOfFile \/ Interrupt \/ Exit \/ TransduceRaises PROVE RInv'
  OBVIOUS
<1>1. \E why : End(why) /\ UNCHANGED <<pipelines, cwd>>
  BY DEF EndOfFile, Interrupt, Exit, TransduceRaises, linevars
<1> QED
  BY <1>1, Stopping

LEMMA PassRoutes == IInv /\ RInv /\ Pass => RInv'
<1> SUFFICES ASSUME IInv, RInv, Pass PROVE RInv'
  OBVIOUS
<1>1. /\ mode = "run" /\ stage < Len(pipelines[1]) /\ Proceed
      /\ UNCHANGED <<pipelines, cwd>> /\ pipelines # <<>>
  BY DEF Pass, linevars, IInv, PromptIsIdle
<1>2. Passes(Command)
  <2>1. CASE Command = <<>>
    BY <2>1 DEF Passes, HeadOf
  <2>2. CASE Command = <<"payload">>
    <3>1. Head(<<"payload">>) = "payload" /\ Len(<<"payload">>) = 1 /\ <<"payload">> # <<>>
      OBVIOUS
    <3> QED
      BY <2>2, <3>1 DEF Passes, HeadOf
  <2>3. CASE Command # <<>> /\ Head(Command) \notin Keywords
    BY <2>3 DEF Passes, HeadOf, Keywords
  <2> QED
    BY <2>1, <2>2, <2>3 DEF Pass
<1> QED
  BY <1>1, <1>2, Passing

LEMMA StrandRoutes ==
    ASSUME IInv, pipelines # <<>>, stage < Len(pipelines[1]), NEW frames
    PROVE  "via" \in DOMAIN Strand(frames) /\ HasBeen(Strand(frames), pipelines[1], stage + 1, <<>>)
<1> DEFINE x == Strand(frames)
<1>1. x.stage = stage + 1 /\ x.via = <<>> /\ "via" \in DOMAIN x
  BY DEF Strand
<1>2. pipelines[1] \in Seq(Seq(STRING)) /\ stage + 1 \in Nat /\ stage + 1 <= Len(pipelines[1])
  BY PipelineTyped
<1> HIDE DEF x
<1>3. HasBeen(x, pipelines[1], stage + 1, <<>>)
  BY <1>1, <1>2, NewHasBeen
<1> QED
  BY <1>1, <1>3 DEF x

LEMMA PayloadRoutes == IInv /\ RInv /\ Payload => RInv'
<1> SUFFICES ASSUME IInv, RInv, Payload PROVE RInv'
  OBVIOUS
<1>1. /\ mode = "run" /\ stage < Len(pipelines[1]) /\ Proceed /\ pipelines' = pipelines
      /\ pipelines # <<>> /\ Command # <<>> /\ Head(Command) = "payload"
  BY DEF Payload, At, linevars, IInv, PromptIsIdle
<1>2. CASE ToSet(Names) \cap Unencodable # {}
  <2>1. cwd' = cwd /\ Passes(Command)
    BY <1>1, <1>2 DEF Payload, Passes, HeadOf, Names
  <2> QED
    BY <1>1, <2>1, Passing
<1>3. CASE ToSet(Names) \cap Unencodable = {}
  <2> DEFINE x == Strand(<<>>)
             piece == Piece({x})
  <2>1. cwd' = Given([i \in DOMAIN Names |-> piece])
    BY <1>3 DEF Payload
  <2>2. \A i \in DOMAIN cwd'.items : cwd'.items[i] = piece
    BY <2>1 DEF Given
  <2>3. cwd'.given /\ piece.kind = "bytes" /\ piece.strands = {x}
    BY <2>1 DEF Given, Piece
  <2>4. "via" \in DOMAIN x /\ HasBeen(x, pipelines[1], stage + 1, <<>>)
    BY <1>1, StrandRoutes
  <2> HIDE DEF x, piece
  <2>5. CwdFollows
    BY <2>2, <2>3, <2>4 DEF CwdFollows, CwdIsOfAKind
  <2> QED
    BY <1>1, <2>5, Going
<1> QED
  BY <1>2, <1>3

LEMMA H2FramesRoutes == IInv /\ RInv /\ H2Frames => RInv'
<1> SUFFICES ASSUME IInv, RInv, H2Frames PROVE RInv'
  OBVIOUS
<1> DEFINE parse == Statement(Names)
           x == Strand(parse.frames)
           piece == Piece({x})
<1>1. /\ mode = "run" /\ stage < Len(pipelines[1]) /\ pipelines' = pipelines
      /\ pipelines # <<>> /\ Command # <<>> /\ Head(Command) = "h2frames"
  BY DEF H2Frames, At, linevars, IInv, PromptIsIdle
<1>2. (End("H2Error") /\ cwd' = cwd)
        \/ (Proceed /\ (\/ cwd' = cwd
                        \/ IsByteStream /\ cwd' = Given(Append(cwd.items, piece))
                        \/ cwd' = Given(<<piece>>)))
  BY DEF H2Frames
<1>3. piece.kind = "bytes" /\ piece.strands = {x}
  BY DEF Piece
<1>4. "via" \in DOMAIN x /\ HasBeen(x, pipelines[1], stage + 1, <<>>)
  BY <1>1, StrandRoutes
<1>5. Passes(Command)
  BY <1>1 DEF Passes, HeadOf
<1> HIDE DEF parse, x, piece
<1>6. CASE End("H2Error") /\ cwd' = cwd
  BY <1>1, <1>6, Stopping
<1>7. CASE Proceed /\ cwd' = cwd
  BY <1>1, <1>5, <1>7, Passing
<1>8. CASE Proceed /\ IsByteStream /\ cwd' = Given(Append(cwd.items, piece))
  <2>1. cwd'.given /\ cwd'.items = Append(cwd.items, piece) /\ IsSeq(cwd.items)
    BY <1>8, PiecesAreASequence DEF Given, IInv, Typed
  <2>2. \A i \in DOMAIN cwd'.items :
            cwd'.items[i] = piece \/ (i \in DOMAIN cwd.items /\ cwd'.items[i] = cwd.items[i])
    BY <2>1, Appending
  <2>3. \A i \in DOMAIN cwd.items : cwd.items[i].kind = "bytes"
    BY <1>8 DEF IsByteStream, IsListOf
  <2>4. \A i \in DOMAIN cwd.items : \A y \in cwd.items[i].strands :
            "via" \in DOMAIN y /\ HasBeen(y, pipelines[1], stage + 1, <<>>)
    BY <1>1, <1>5, StrandsFollow DEF RInv, CwdIsOfAKind
  <2>5. CwdIsOfAKind'
    BY <1>3, <1>4, <2>1, <2>2, <2>3, <2>4 DEF CwdIsOfAKind
  <2>6. CwdFollows
    BY <1>3, <1>4, <2>2, <2>4, <2>5 DEF CwdFollows
  <2> QED
    BY <1>1, <1>8, <2>6, Going
<1>9. CASE Proceed /\ cwd' = Given(<<piece>>)
  <2>1. cwd'.given /\ cwd'.items = <<piece>>
    BY <1>9 DEF Given
  <2>2. \A i \in DOMAIN cwd'.items : cwd'.items[i] = piece
    BY <2>1
  <2>3. CwdFollows
    BY <1>3, <1>4, <2>1, <2>2 DEF CwdFollows, CwdIsOfAKind
  <2> QED
    BY <1>1, <1>9, <2>3, Going
<1> QED
  BY <1>2, <1>6, <1>7, <1>8, <1>9

LEMMA GridOrClusterRoutes == IInv /\ RInv /\ GridOrCluster => RInv'
<1> SUFFICES ASSUME IInv, RInv, GridOrCluster PROVE RInv'
  OBVIOUS
<1>1. /\ mode = "run" /\ stage < Len(pipelines[1]) /\ pipelines' = pipelines
      /\ pipelines # <<>> /\ Command # <<>> /\ Head(Command) \in {"grid", "cluster"}
  BY DEF GridOrCluster, At, linevars, IInv, PromptIsIdle
<1>2. (Proceed /\ mode' = "run") \/ (mode' = "ended" /\ End("KeyError"))
  BY DEF GridOrCluster, LookUp, Proceed, End
<1>3. cwd' = (IF IsAnswers /\ mode' = "run" THEN NoInput ELSE cwd)
  BY DEF GridOrCluster
<1>4. Passes(Command)
  BY <1>1 DEF Passes, HeadOf
<1>5. CASE mode' = "ended" /\ End("KeyError")
  BY <1>1, <1>3, <1>5, Stopping
<1>6. CASE Proceed /\ cwd' = cwd
  BY <1>1, <1>4, <1>6, Passing
<1>7. CASE Proceed /\ cwd' = NoInput
  <2>1. DOMAIN cwd'.items = {}
    <3>1. cwd'.items = <<>>
      BY <1>7 DEF NoInput
    <3> QED
      BY <3>1, EmptyList
  <2>2. CwdFollows
    BY <2>1, NoneFollow
  <2> QED
    BY <1>1, <1>7, <2>2, Going
<1> QED
  BY <1>2, <1>3, <1>5, <1>6, <1>7

LEMMA HeadAndTail ==
    ASSUME NEW S, NEW s \in Seq(S), Len(s) # 0
    PROVE  /\ s # <<>> /\ Head(s) = s[1] /\ Head(s) \in S
           /\ Tail(s) \in Seq(S) /\ Len(Tail(s)) = Len(s) - 1
OBVIOUS

LEMMA OneMoreJoins ==
    ASSUME NEW S, NEW a \in Seq(S), NEW b \in Seq(S), NEW e \in S
    PROVE  Append(a \o b, e) = a \o (b \o <<e>>)
<1>1. a \o b \in Seq(S) /\ <<e>> \in Seq(S)
  OBVIOUS
<1>2. Append(a \o b, e) = (a \o b) \o <<e>>
  <2> DEFINE c == a \o b
  <2>1. c \in Seq(S)
    BY <1>1
  <2> HIDE DEF c
  <2>2. Append(c, e) = c \o <<e>>
    BY <2>1
  <2> QED
    BY <2>2 DEF c
<1>3. (a \o b) \o <<e>> = a \o (b \o <<e>>)
  <2> DEFINE d == <<e>>
  <2>1. d \in Seq(S)
    BY <1>1
  <2> HIDE DEF d
  <2>2. (a \o b) \o d = a \o (b \o d)
    BY <2>1, Joins
  <2> QED
    BY <2>2 DEF d
<1> QED
  BY <1>2, <1>3

(* m of the names were asked; left are the others, the first of them next.  *)
AsksOne(S, names, m, left) ==
    /\ left \in Seq(S) /\ Len(left) = Len(names) - m /\ Head(left) \in S
    /\ Tail(left) = SubSeq(names, m + 1 + 1, Len(names))
    /\ Len(Tail(left)) = Len(names) - (m + 1)
    /\ SubSeq(names, 1, m) \in Seq(S)
    /\ SubSeq(names, 1, m + 1) = SubSeq(names, 1, m) \o <<Head(left)>>
    /\ SubSeq(names, 1, m + 1) # <<>>
    /\ Front(SubSeq(names, 1, m + 1)) = SubSeq(names, 1, m)
    /\ Tail(left) = <<>> => SubSeq(names, 1, m + 1) = names

LEMMA OneAsked ==
    ASSUME NEW S, NEW names \in Seq(S), NEW m, m \in 0..Len(names) - 1, NEW left,
           left = SubSeq(names, m + 1, Len(names))
    PROVE  AsksOne(S, names, m, left)
<1> DEFINE n == Len(names)
           a == SubSeq(names, 1, m)
           b == SubSeq(names, 1, m + 1)
<1>1. n \in Nat /\ m \in Nat /\ m + 1 \in 1..n
  OBVIOUS
<1>2. /\ left \in Seq(S) /\ Len(left) = n - m
      /\ \A i \in 1..n - m : left[i] = names[m + i]
  BY <1>1
<1>3. left # <<>> /\ Head(left) = names[m + 1] /\ Head(left) \in S
  <2>1. Len(left) # 0 /\ left[1] = names[m + 1]
    BY <1>1, <1>2
  <2> QED
    BY <1>2, <2>1, HeadAndTail
<1>4. Tail(left) \in Seq(S) /\ Len(Tail(left)) = n - (m + 1)
  BY <1>1, <1>2, <1>3
<1>5. Tail(left) = SubSeq(names, m + 1 + 1, n)
  <2>1. \A i \in 1..n - (m + 1) : Tail(left)[i] = names[m + 1 + i]
    BY <1>1, <1>2, <1>3
  <2> DEFINE c == SubSeq(names, m + 1 + 1, n)
  <2>2. c \in Seq(S) /\ Len(c) = n - (m + 1) /\ \A i \in 1..n - (m + 1) : c[i] = names[m + 1 + i]
    BY <1>1
  <2> HIDE DEF c
  <2>3. Tail(left) = c
    BY <1>1, <1>4, <2>1, <2>2, SeqEqual
  <2> QED
    BY <2>3 DEF c
<1>6. a \in Seq(S) /\ Len(a) = m /\ \A i \in 1..m : a[i] = names[i]
  BY <1>1
<1>7. b \in Seq(S) /\ Len(b) = m + 1 /\ \A i \in 1..m + 1 : b[i] = names[i]
  BY <1>1
<1> HIDE DEF a, b
<1>8. b = a \o <<Head(left)>>
  <2> DEFINE h == Head(left)
             c == a \o <<h>>
  <2>1. h \in S /\ h = names[m + 1]
    BY <1>3
  <2> HIDE DEF h
  <2>2. c \in Seq(S) /\ Len(c) = m + 1 /\ \A i \in 1..m + 1 : c[i] = names[i]
    BY <1>1, <1>6, <2>1
  <2> HIDE DEF c
  <2>3. b = c
    BY <1>1, <1>7, <2>2, SeqEqual
  <2> QED
    BY <2>3 DEF c, h
<1>9. b # <<>>
  BY <1>1, <1>7
<1>10. Front(b) = a
  <2> DEFINE c == Front(b)
  <2>1. c \in Seq(S) /\ Len(c) = m /\ \A i \in 1..m : c[i] = names[i]
    <3>1. Len(b) - 1 = m
      BY <1>1, <1>7
    <3>2. c = SubSeq(b, 1, m)
      BY <3>1 DEF Front
    <3>3. SubSeq(b, 1, m) \in Seq(S) /\ Len(SubSeq(b, 1, m)) = m /\ \A i \in 1..m : SubSeq(b, 1, m)[i] = b[i]
      BY <1>1, <1>7
    <3> HIDE DEF c
    <3> QED
      BY <1>1, <1>7, <3>2, <3>3
  <2> HIDE DEF c
  <2>2. c = a
    BY <1>1, <1>6, <2>1, SeqEqual
  <2> QED
    BY <2>2 DEF c
<1>11. Tail(left) = <<>> => b = names
  <2> SUFFICES ASSUME Tail(left) = <<>> PROVE b = names
    OBVIOUS
  <2>1. n - (m + 1) = 0
    BY <1>4
  <2>2. m + 1 = n
    BY <1>1, <2>1
  <2> QED
    BY <1>1, <1>7, <2>2, SeqEqual
<1> QED
  BY <1>2, <1>3, <1>4, <1>5, <1>6, <1>8, <1>9, <1>10, <1>11 DEF a, b, AsksOne

LEMMA TransduceRoutes == IInv /\ RInv /\ Transduce => RInv'
<1> SUFFICES ASSUME IInv, RInv, Transduce PROVE RInv'
  OBVIOUS
<1>1. /\ UNCHANGED <<pipelines, cwd>> /\ pipelines # <<>> /\ mode = "run"
      /\ stage < Len(pipelines[1]) /\ Command # <<>> /\ Head(Command) = "transduce"
  BY DEF Transduce, At, linevars, IInv, PromptIsIdle
<1>2. Names \in Seq(STRING)
  BY <1>1, CommandTyped DEF IInv, Names
<1> DEFINE asks == Names # <<>> /\ ValidTransducers(Names) /\ IsByteStream
<1>3. CASE asks
  <2>1. mode' = "transduce" /\ UNCHANGED stage /\ todo' = Names
    BY <1>3 DEF Transduce, LookUp, ValidTransducers
  <2>2. Command' = Command /\ Names' = Names
    BY <1>1, <2>1 DEF Command, Names
  <2>3. Len(Names) \in Nat \ {0} /\ Names = SubSeq(Names, 0 + 1, Len(Names))
    <3> DEFINE n == Names
    <3>1. n \in Seq(STRING) /\ n # <<>>
      BY <1>2, <1>3
    <3> HIDE DEF n
    <3>2. Len(n) \in Nat \ {0} /\ n = SubSeq(n, 0 + 1, Len(n))
      BY <3>1
    <3> QED
      BY <3>2 DEF n
  <2>4. Asked = <<>> /\ Asked' = <<>>
    <3>1. SubSeq(Names, 1, Len(Names) - Len(Names)) = <<>>
      <4>1. Len(Names) - Len(Names) = 0
        BY <2>3
      <4>2. SubSeq(Names, 1, 0) = <<>>
        BY <1>2
      <4> QED
        BY <4>1, <4>2
    <3> QED
      BY <1>1, <2>1, <2>2, <3>1 DEF Asked
  <2>5. StageFits' /\ CwdIsOfAKind'
    BY <1>1, <2>1 DEF RInv, StageFits, CwdIsOfAKind
  <2>6. TodoIsLeft'
    <3>1. 0 \in 0..Len(Names) - 1
      BY <2>3
    <3> QED
      BY <1>3, <2>1, <2>2, <2>3, <3>1 DEF TodoIsLeft
  <2>7. CwdHasBeen'
    BY <1>1, <2>1, <2>4 DEF RInv, CwdHasBeen
  <2>8. SentHasBeen'
    BY <2>1, <2>4 DEF SentHasBeen
  <2> QED
    BY <2>5, <2>6, <2>7, <2>8 DEF RInv
<1>4. CASE ~asks
  <2>1. Proceed
    BY <1>4 DEF Transduce
  <2>2. CASE Names = <<>> \/ ~ValidTransducers(Names)
    <3>1. Passes(Command)
      BY <1>1, <2>2 DEF Passes, HeadOf, Names
    <3> QED
      BY <1>1, <2>1, <3>1, Passing
  <2>3. CASE ~IsByteStream
    <3>1. \A i \in DOMAIN cwd'.items : cwd'.items[i].strands = {}
      BY <1>1, <2>3 DEF RInv, CwdIsOfAKind, IsByteStream, IsListOf
    <3>2. ~cwd'.given => DOMAIN cwd'.items = {}
      BY <1>1 DEF RInv, CwdIsOfAKind
    <3>3. CwdFollows
      BY <3>1, <3>2, NoneFollow
    <3> QED
      BY <1>1, <2>1, <3>3, Going
  <2> QED
    BY <1>4, <2>2, <2>3
<1> QED
  BY <1>3, <1>4

LEMMA TransduceOneRoutes == IInv /\ RInv /\ TransduceOne => RInv'
<1> SUFFICES ASSUME IInv, RInv, TransduceOne PROVE RInv'
  OBVIOUS
<1> DEFINE p == pipelines[1]
           h == Head(todo)
<1>1. /\ pipelines' = pipelines /\ pipelines # <<>> /\ mode = "transduce"
      /\ sent' = cwd.items /\ todo' = Tail(todo) /\ stage < Len(p)
      /\ Command # <<>> /\ Head(Command) = "transduce"
  BY DEF TransduceOne, linevars, IInv, PromptIsIdle, Waiting
<1>2. p \in Seq(Seq(STRING)) /\ stage \in Nat /\ stage + 1 <= Len(p)
  BY <1>1, PipelineTyped
<1>3. Names \in Seq(STRING)
  <2>1. Command \in Seq(STRING)
    <3> DEFINE S == Seq(STRING)
    <3>1. p \in Seq(S) /\ stage + 1 \in 1..Len(p)
      BY <1>2
    <3> HIDE DEF S
    <3>2. p[stage + 1] \in S
      BY <3>1
    <3> QED
      BY <3>2 DEF S, Command
  <2> QED
    BY <1>1, <2>1 DEF Names
<1>4. PICK m \in 0..Len(Names) - 1 : todo = SubSeq(Names, m + 1, Len(Names))
  BY <1>1 DEF RInv, TodoIsLeft
<1> DEFINE n == Len(Names)
           a == SubSeq(Names, 1, m)
           b == SubSeq(Names, 1, m + 1)
<1>5. /\ todo \in Seq(STRING) /\ Len(todo) = n - m /\ h \in STRING
      /\ Tail(todo) = SubSeq(Names, m + 1 + 1, n) /\ Len(Tail(todo)) = n - (m + 1)
      /\ a \in Seq(STRING) /\ b = a \o <<h>> /\ b # <<>> /\ Front(b) = a
      /\ Tail(todo) = <<>> => b = Names
  <2> DEFINE w == Names
             left == todo
             T == STRING
  <2>1. w \in Seq(T) /\ m \in 0..Len(w) - 1 /\ left = SubSeq(w, m + 1, Len(w))
    BY <1>3, <1>4
  <2> HIDE DEF w, left, T
  <2>2. AsksOne(T, w, m, left)
    BY <2>1, OneAsked
  <2> QED
    BY <2>2 DEF AsksOne, w, left, T
<1>6. n \in Nat /\ m \in Nat /\ m <= n - 1 /\ n - (n - m) = m /\ n - (n - (m + 1)) = m + 1
  BY <1>3
<1>7. Asked = a
  BY <1>1, <1>5, <1>6 DEF Asked
<1>8. PICK k \in 0..MaxPieces : cwd' = Given([i \in 1..k |-> Through(h)])
  BY DEF TransduceOne
<1> DEFINE before == UNION {cwd.items[i].strands : i \in DOMAIN cwd.items}
           after(x) == [x EXCEPT !.via = Append(x.via, h)]
<1>9. /\ cwd'.given
      /\ \A i \in DOMAIN cwd'.items :
            cwd'.items[i].kind = "bytes" /\ cwd'.items[i].strands = {after(x) : x \in before}
  BY <1>8 DEF Given, Through, Piece
<1> HIDE DEF h, n, a, b
<1>10. ASSUME NEW x \in before
       PROVE  /\ HasBeen(x, p, stage, a) /\ "via" \in DOMAIN after(x)
              /\ after(x).stage = x.stage /\ x.stage \in Nat /\ x.stage <= stage
              /\ HasBeen(after(x), p, stage, b)
  <2>1. x.stage \in Nat /\ x.stage <= stage /\ "via" \in DOMAIN x /\ HasBeen(x, p, stage, a)
    BY <1>1, <1>7 DEF IInv, Typed, Labelled, CwdIsHere, Here, RInv, CwdHasBeen, CwdIsOfAKind
  <2>2. after(x).stage = x.stage /\ after(x).via = Append(x.via, h) /\ "via" \in DOMAIN after(x)
    BY <2>1
  <2> DEFINE s == Since(p, x.stage, stage)
  <2>3. s \in Seq(STRING)
    BY <1>2, <2>1, SinceIs
  <2>4. x.via = s \o a
    BY <2>1 DEF HasBeen
  <2>5. after(x).via = s \o b
    <3> HIDE DEF s, after
    <3>1. Append(s \o a, h) = s \o (a \o <<h>>)
      <4> DEFINE T == STRING
      <4>1. s \in Seq(T) /\ a \in Seq(T) /\ h \in T
        BY <1>5, <2>3
      <4> HIDE DEF T
      <4> QED
        BY <4>1, OneMoreJoins
    <3> QED
      BY <1>5, <2>2, <2>4, <3>1
  <2>6. HasBeen(after(x), p, stage, b)
    <3> HIDE DEF after
    <3> QED
      BY <2>1, <2>2, <2>5 DEF HasBeen
  <2> QED
    BY <2>1, <2>2, <2>6
<1> HIDE DEF after, before
<1>11. CwdIsOfAKind'
  BY <1>9, <1>10 DEF CwdIsOfAKind
<1>12. ASSUME NEW i \in DOMAIN cwd'.items, NEW y \in cwd'.items[i].strands
       PROVE  HasBeen(y, p, stage, b) /\ y.stage \in Nat /\ y.stage <= stage
  <2>1. PICK x \in before : y = after(x)
    BY <1>9
  <2> QED
    BY <1>10, <2>1
<1>13. CASE Tail(todo) = <<>>
  <2>1. Proceed
    BY <1>13 DEF TransduceOne
  <2>2. b = Names /\ ValidTransducers(Names)
    BY <1>1, <1>5, <1>13 DEF RInv, TodoIsLeft
  <2>3. ASSUME NEW i \in DOMAIN cwd'.items, NEW y \in cwd'.items[i].strands
        PROVE  HasBeen(y, p, stage + 1, <<>>)
    <3>1. HasBeen(y, p, stage, b) /\ y.stage \in Nat /\ y.stage <= stage
      BY <1>12
    <3>2. stage + 1 > y.stage
      BY <1>2, <3>1
    <3>3. HeadOf(p[stage + 1]) = "transduce"
      BY <1>1 DEF HeadOf, Command
    <3>4. b = RouteOf(p, y.stage, stage + 1)
      BY <2>2, <3>2, <3>3 DEF RouteOf, Command, Names
    <3>5. ReplacesNothing(p, stage + 1)
      BY <3>3 DEF ReplacesNothing
    <3> HIDE DEF p
    <3> QED
      BY <1>2, <3>1, <3>4, <3>5, BeenOn
  <2>4. CwdFollows
    BY <1>11, <2>3 DEF CwdFollows
  <2> QED
    BY <1>1, <2>1, <2>4, Going
<1>14. CASE Tail(todo) # <<>>
  <2>1. UNCHANGED <<mode, stage>>
    BY <1>14 DEF TransduceOne
  <2>2. Command' = Command /\ Names' = Names
    BY <1>1, <2>1 DEF Command, Names
  <2>3. Asked' = b
    BY <1>1, <1>5, <1>6, <2>1, <2>2 DEF Asked, n, b
  <2>4. StageFits'
    BY <1>1, <2>1 DEF StageFits
  <2>5. m + 1 \in 0..n - 1
    <3> DEFINE rest == Tail(todo)
               T == STRING
    <3>1. Len(todo) # 0
      BY <1>5, <1>6
    <3>2. rest \in Seq(T)
      BY <1>5, <3>1, HeadAndTail
    <3> HIDE DEF rest, T
    <3>3. rest # <<>>
      BY <1>14 DEF rest
    <3>4. Len(rest) \in Nat \ {0}
      BY <3>2, <3>3
    <3>5. Len(Tail(todo)) \in Nat \ {0}
      BY <3>4 DEF rest
    <3> QED
      BY <1>5, <1>6, <3>5
  <2>6. TodoIsLeft'
    <3>1. ValidTransducers(Names)
      BY <1>1 DEF RInv, TodoIsLeft
    <3>2. ValidTransducers(Names')
      BY <2>2, <3>1
    <3>3. todo' = SubSeq(Names', m + 1 + 1, Len(Names')) /\ m + 1 \in 0..Len(Names') - 1
      BY <1>1, <1>5, <2>2, <2>5 DEF n
    <3> QED
      BY <3>2, <3>3 DEF TodoIsLeft, ValidTransducers
  <2>7. CwdHasBeen'
    BY <1>1, <1>12, <2>1, <2>3 DEF CwdHasBeen
  <2>8. SentHasBeen'
    <3>1. ASSUME NEW i \in DOMAIN cwd.items, NEW x \in cwd.items[i].strands
          PROVE  HasBeen(x, p, stage, a)
      <4>1. x \in before
        BY DEF before
      <4> QED
        BY <1>10, <4>1
    <3> QED
      BY <1>1, <1>5, <2>1, <2>3, <3>1 DEF SentHasBeen
  <2> QED
    BY <1>11, <2>4, <2>6, <2>7, <2>8 DEF RInv
<1> QED
  BY <1>13, <1>14

LEMMA CallRoutes == IInv /\ RInv /\ Call => RInv'
<1> SUFFICES ASSUME IInv, RInv, Call PROVE RInv'
  OBVIOUS
<1>1. /\ UNCHANGED <<pipelines, cwd>> /\ pipelines # <<>> /\ mode = "run"
      /\ stage < Len(pipelines[1]) /\ Command # <<>> /\ Head(Command) \in Calls
  BY DEF Call, At, linevars, IInv, PromptIsIdle
<1>2. Passes(Command)
  BY <1>1 DEF Passes, HeadOf, Calls, ToTransducers, Parsed
<1>3. Proceed \/ End("KeyError") \/ (mode' = "call" /\ stage' = stage /\ sent' = cwd.items)
  BY DEF Call, LookUp
<1>4. CASE Proceed
  BY <1>1, <1>2, <1>4, Passing
<1>5. CASE End("KeyError")
  BY <1>1, <1>5, Stopping
<1>6. CASE mode' = "call" /\ stage' = stage /\ sent' = cwd.items
  <2>1. Asked = <<>> /\ Asked' = <<>>
    BY <1>1, <1>6 DEF Asked
  <2>2. \A i \in DOMAIN cwd.items : \A x \in cwd.items[i].strands :
            HasBeen(x, pipelines[1], stage, <<>>)
    BY <1>1, <2>1 DEF RInv, CwdHasBeen
  <2>3. StageFits' /\ CwdIsOfAKind' /\ TodoIsLeft'
    BY <1>1, <1>6 DEF RInv, StageFits, CwdIsOfAKind, TodoIsLeft
  <2>4. CwdHasBeen' /\ SentHasBeen'
    BY <1>1, <1>6, <2>1, <2>2 DEF CwdHasBeen, SentHasBeen
  <2> QED
    BY <2>3, <2>4 DEF RInv
<1> QED
  BY <1>3, <1>4, <1>5, <1>6

LEMMA SameRoutes ==
    ASSUME RInv, UNCHANGED <<mode, pipelines, stage, cwd, todo, sent>>
    PROVE  RInv'
<1>1. Command' = Command /\ Names' = Names
  BY DEF Command, Names
<1>2. Asked' = Asked
  BY <1>1 DEF Asked
<1>3. StageFits' /\ CwdIsOfAKind' /\ TodoIsLeft'
  BY <1>1 DEF RInv, StageFits, CwdIsOfAKind, TodoIsLeft, ValidTransducers
<1>4. CwdHasBeen' /\ SentHasBeen'
  BY <1>2 DEF RInv, CwdHasBeen, SentHasBeen
<1> QED
  BY <1>3, <1>4 DEF RInv

LEMMA CallReturnsRoutes == IInv /\ RInv /\ CallReturns => RInv'
<1> SUFFICES ASSUME IInv, RInv, CallReturns PROVE RInv'
  OBVIOUS
<1>1. /\ pipelines' = pipelines /\ pipelines # <<>> /\ mode = "call"
      /\ stage < Len(pipelines[1]) /\ Command # <<>> /\ Head(Command) \in Calls
  BY DEF CallReturns, linevars, IInv, PromptIsIdle, Waiting, RInv, StageFits
<1>2. Passes(Command)
  BY <1>1 DEF Passes, HeadOf, Calls, ToTransducers, Parsed
<1>3. \/ Proceed /\ cwd' = cwd
      \/ Proceed /\ cwd' = Given([i \in 1..called |-> Answer(returned[2][i])])
      \/ End(returned[2]) /\ cwd' = cwd
  BY DEF CallReturns
<1>4. CASE Proceed /\ cwd' = cwd
  BY <1>1, <1>2, <1>4, Passing
<1>5. CASE Proceed /\ cwd' = Given([i \in 1..called |-> Answer(returned[2][i])])
  <2>1. cwd'.given /\ \A i \in DOMAIN cwd'.items : cwd'.items[i].strands = {}
    BY <1>5 DEF Given, Answer
  <2>2. CwdFollows
    BY <2>1, NoneFollow
  <2> QED
    BY <1>1, <1>5, <2>2, Going
<1>6. CASE End(returned[2]) /\ cwd' = cwd
  BY <1>1, <1>6, Stopping
<1> QED
  BY <1>3, <1>4, <1>5, <1>6

LEMMA RoutesInvariance == Spec => [](IInv /\ RInv)
<1>1. IInv /\ IInv' /\ RInv /\ [Next]_vars => RInv'
  <2> SUFFICES ASSUME IInv, IInv', RInv, [Next]_vars PROVE RInv'
    OBVIOUS
  <2>1. IInv'
    OBVIOUS
  <2>2. CASE Calling \/ UNCHANGED vars
    BY <2>1, <2>2, SameRoutes DEF Calling, vars, linevars
  <2>3. CASE Next
    <3>1. CASE Calling
      BY <2>2, <3>1
    <3> QED
      BY <2>1, <2>3, <3>1, TypeRoutes, NextPipelineRoutes, EndingRoutes, PassRoutes, PayloadRoutes,
         H2FramesRoutes, GridOrClusterRoutes, TransduceRoutes, TransduceOneRoutes, CallRoutes,
         CallReturnsRoutes DEF Next
  <2> QED
    BY <2>1, <2>2, <2>3
<1>2. Init => RInv
  BY RInit
<1> QED
  BY <1>1, <1>2, Invariance, PTL DEF Spec

(***************************************************************************)
(* Whatever is typed and whatever transducers give back, a server is sent  *)
(* only what commands of this pipeline made, after all transducers named   *)
(* since, once each and in their order, and nothing that a later payload   *)
(* replaced (repl.py 310, 319, 342-347, 386-390).                          *)
(***************************************************************************)
THEOREM SentAsThePipelineSays == Spec => []SentFromThisPipeline
<1>1. IInv /\ RInv => SentFromThisPipeline
  <2> SUFFICES ASSUME IInv, RInv PROVE SentFromThisPipeline
    OBVIOUS
  <2>1. SentHere
    BY DEF IInv
  <2>2. \A first : TransducersSince(first) = Since(pipelines[1], first, stage)
    BY DEF TransducersSince, Since, RouteOf
  <2>3. SentHasBeen
    BY DEF RInv
  <2> QED
    BY <2>1, <2>2, <2>3 DEF SentFromThisPipeline, SentHasBeen, HasBeen, Asked, ReplacesNothing
<1> QED
  BY RoutesInvariance, <1>1, PTL

-----------------------------------------------------------------------------
(* The call of fanout under way: every answer there is, is that of the     *)
(* server at its place.                                                    *)
Raisings == {<<"raise", why>> : why \in {"OSError", "ParseError"}}

CallFits ==
    /\ mode \notin {"call", "ended"} => returned = <<>>
    /\ mode = "call" =>
        /\ called = Len(AskedServers)
        /\ DOMAIN outcome = 1..called
        /\ \A i \in 1..called : outcome[i] \in {<<>>, <<"ok", AskedServers[i]>>} \cup Raisings
        /\ returned # <<>> => \/ returned[1] = "raise"
                              \/ returned = <<"ok", [i \in 1..called |-> AskedServers[i]]>>

(* The answers in cwd were gathered by one of the commands executed, from  *)
(* the servers it listed; or there are none, after a transducer.           *)
ListedBy(command) == Defaulted(Tail(command), OriginNames)

AsksAllItLists(command) ==
    HeadOf(command) = "h2fanout" => \A s \in ToSet(ListedBy(command)) : AllowsHttp2(s)

GatheredBy(p, n, items) ==
    \E k \in 1..n : /\ HeadOf(p[k]) \in Parsed
                    /\ AsksAllItLists(p[k]) => By(items) = ListedBy(p[k])

Transduced(p, n) == \E k \in 1..n : HeadOf(p[k]) = "transduce"

AnswersGathered ==
    mode # "ended" /\ IsAnswers =>
        \/ GatheredBy(pipelines[1], stage, cwd.items)
        \/ DOMAIN cwd.items = {} /\ (mode = "transduce" \/ Transduced(pipelines[1], stage))

SInv == CallFits /\ AnswersGathered

LEMMA NamesTyped ==
    ASSUME NEW role
    PROVE  NamesOf(role) \in Seq(STRING)
<1> DEFINE m == Len(Services)
           T == STRING
           f == [i \in 1..m |-> IF Services[i].role = role /\ Extracted(Services[i])
                                  THEN <<Services[i].name>> ELSE <<>>]
<1>1. m \in Nat /\ DOMAIN Services = 1..m
  BY ReplAssumption
<1>2. ASSUME NEW i \in 1..m
      PROVE  f[i] \in Seq(T)
  <2>1. Services[i] \in ServiceType
    BY ReplAssumption
  <2>2. Services[i].name \in T
    BY <2>1 DEF ServiceType
  <2>3. <<Services[i].name>> \in Seq(T) /\ <<>> \in Seq(T)
    <3> HIDE DEF T
    <3> QED
      BY <2>2
  <2> QED
    BY <2>3
<1>3. NamesOf(role) = Flat(f, m)
  <2>1. [i \in 1..m |-> f[i]] = f
    OBVIOUS
  <2> QED
    BY <1>1, <2>1 DEF NamesOf, Flat
<1> HIDE DEF f, T, m
<1>4. Pieces(f, m, T)
  BY <1>1, <1>2 DEF Pieces
<1>5. m \in 0..m
  BY <1>1
<1>6. Flat(f, m) \in Seq(T)
  BY <1>4, <1>5, FlatIs
<1> QED
  BY <1>3, <1>6 DEF T

(* Keeping those that know HTTP/2 of servers that all do, keeps them all.  *)
LEMMA WithHttp2Is ==
    ASSUME NEW names \in Seq(STRING)
    PROVE  /\ WithHttp2(names) \in Seq(STRING)
           /\ (\A s \in ToSet(names) : AllowsHttp2(s)) => WithHttp2(names) = names
<1> DEFINE m == Len(names)
           T == STRING
           f == [i \in 1..m |-> IF AllowsHttp2(names[i]) THEN <<names[i]>> ELSE <<>>]
<1>1. m \in Nat /\ DOMAIN names = 1..m /\ \A i \in 1..m : names[i] \in T
  OBVIOUS
<1>2. ASSUME NEW i \in 1..m
      PROVE  f[i] \in Seq(T)
  <2>1. <<names[i]>> \in Seq(T) /\ <<>> \in Seq(T)
    <3> DEFINE e == names[i]
    <3>1. e \in T
      BY <1>1
    <3> HIDE DEF T, e
    <3>2. <<e>> \in Seq(T) /\ <<>> \in Seq(T)
      BY <3>1
    <3> QED
      BY <3>2 DEF e
  <2> QED
    BY <2>1
<1>3. WithHttp2(names) = Flat(f, m)
  <2>1. [i \in 1..m |-> f[i]] = f
    OBVIOUS
  <2> QED
    BY <1>1, <2>1 DEF WithHttp2, Flat
<1>4. (\A s \in ToSet(names) : AllowsHttp2(s)) => \A i \in 1..m : f[i] = <<names[i]>>
  BY <1>1 DEF ToSet
<1> HIDE DEF f, T, m
<1>5. Pieces(f, m, T)
  BY <1>1, <1>2 DEF Pieces
<1>6. /\ Flat(f, 0) = <<>>
      /\ \A k \in Nat : k < m => Flat(f, k + 1) = Flat(f, k) \o f[k + 1]
      /\ \A k \in 0..m : Flat(f, k) \in Seq(T)
  BY <1>5, FlatIs
<1>7. m \in 0..m
  BY <1>1
<1>8. ASSUME \A s \in ToSet(names) : AllowsHttp2(s)
      PROVE  WithHttp2(names) = names
  <2> DEFINE I == {k \in Nat : k <= m => /\ Len(Flat(f, k)) = k
                                         /\ \A i \in 1..k : Flat(f, k)[i] = names[i]}
  <2>1. 0 \in I
    BY <1>6
  <2>2. ASSUME NEW k \in Nat, k \in I
        PROVE  k + 1 \in I
    <3> SUFFICES ASSUME k + 1 <= m
                 PROVE  /\ Len(Flat(f, k + 1)) = k + 1
                        /\ \A i \in 1..k + 1 : Flat(f, k + 1)[i] = names[i]
      OBVIOUS
    <3>1. k < m /\ k <= m /\ k \in 0..m /\ k + 1 \in 1..m
      BY <1>1
    <3> DEFINE a == Flat(f, k)
               e == names[k + 1]
    <3>2. a \in Seq(T) /\ Len(a) = k /\ \A i \in 1..k : a[i] = names[i]
      BY <1>6, <2>2, <3>1
    <3>3. Flat(f, k + 1) = a \o <<e>> /\ e \in T
      BY <1>1, <1>4, <1>6, <1>8, <3>1
    <3> HIDE DEF a, e
    <3>4. Len(a \o <<e>>) = k + 1 /\ \A i \in 1..k + 1 : (a \o <<e>>)[i] = IF i = k + 1 THEN e ELSE a[i]
      BY <3>2, <3>3
    <3> QED
      BY <3>2, <3>3, <3>4 DEF e
  <2>3. Nat \subseteq I
    <3> HIDE DEF I
    <3> QED
      BY <2>1, <2>2, SetInduction
  <2>4. Len(Flat(f, m)) = m /\ \A i \in 1..m : Flat(f, m)[i] = names[i]
    BY <1>1, <2>3
  <2> DEFINE w == Flat(f, m)
  <2>5. w \in Seq(T) /\ names \in Seq(T)
    BY <1>6, <1>7 DEF T
  <2>6. w = names
    <3> HIDE DEF w
    <3>1. Len(w) = Len(names) /\ \A i \in 1..Len(w) : w[i] = names[i]
      BY <2>4 DEF m, w
    <3> QED
      BY <2>5, <3>1, SeqEqual
  <2> QED
    BY <1>3, <2>6
<1> QED
  BY <1>3, <1>6, <1>7, <1>8 DEF T

LEMMA CommandIsTyped ==
    ASSUME IInv, pipelines # <<>>, stage < Len(pipelines[1]), Command # <<>>
    PROVE  /\ Command \in Seq(STRING) /\ Names \in Seq(STRING)
           /\ Listed \in Seq(STRING) /\ AskedServers \in Seq(STRING)
<1>1. Command \in Seq(STRING)
  <2> DEFINE S == Seq(STRING)
             p == pipelines[1]
  <2>1. p \in Seq(S) /\ stage + 1 \in 1..Len(p)
    BY PipelineTyped
  <2> HIDE DEF S, p
  <2>2. p[stage + 1] \in S
    BY <2>1
  <2> QED
    BY <2>2 DEF S, p, Command
<1>2. Names \in Seq(STRING)
  BY <1>1 DEF Names
<1>3. Listed \in Seq(STRING)
  BY <1>2, NamesTyped DEF Listed, Defaulted, Dict, OriginNames, TransducerNames
<1> QED
  BY <1>1, <1>2, <1>3, WithHttp2Is DEF AskedServers

(* A table of servers beside their own answers.                            *)
LEMMA RowsAreOwn ==
    ASSUME NEW S, NEW names \in Seq(S)
    PROVE  OwnRows(Rows(names, names), names)
<1> DEFINE n == Len(names)
           r == [i \in 1..n |-> [label |-> names[i], by |-> names[i]]]
<1>1. n \in Nat
  OBVIOUS
<1> HIDE DEF n
<1>2. Min({n, n}) = n
  BY <1>1 DEF Min
<1>3. Rows(names, names) = r
  BY <1>2 DEF Rows, n
<1>4. Len(r) = n /\ DOMAIN r = 1..n
  BY <1>1
<1>5. \A i \in 1..n : r[i] = [label |-> names[i], by |-> names[i]]
  OBVIOUS
<1> HIDE DEF r
<1> QED
  BY <1>3, <1>4, <1>5 DEF OwnRows, n

-----------------------------------------------------------------------------
LEMMA GatheredLonger ==
    ASSUME NEW p, NEW n \in Nat, NEW items
    PROVE  /\ GatheredBy(p, n, items) => GatheredBy(p, n + 1, items)
           /\ Transduced(p, n) => Transduced(p, n + 1)
<1>1. \A k \in 1..n : k \in 1..n + 1
  OBVIOUS
<1> QED
  BY <1>1 DEF GatheredBy, Transduced

(* Where cwd stays, the answers in it are still those gathered.            *)
LEMMA AnswersStay ==
    ASSUME IInv, SInv, mode \in {"run", "call"}, pipelines # <<>>,
           UNCHANGED <<pipelines, cwd>>, stage' \in {stage, stage + 1}
    PROVE  AnswersGathered'
<1> SUFFICES ASSUME IsAnswers'
             PROVE  GatheredBy(pipelines[1], stage', cwd.items)
                      \/ (DOMAIN cwd.items = {} /\ Transduced(pipelines[1], stage'))
  BY DEF AnswersGathered
<1>1. IsAnswers
  BY DEF IsAnswers, IsListOf
<1>2. GatheredBy(pipelines[1], stage, cwd.items)
        \/ (DOMAIN cwd.items = {} /\ Transduced(pipelines[1], stage))
  BY <1>1 DEF SInv, AnswersGathered
<1> QED
  BY <1>2, PipelineTyped, GatheredLonger

(* A list with a piece is none of answers.                                 *)
LEMMA PiecesAreNoAnswers ==
    ASSUME NEW i \in DOMAIN cwd'.items, cwd'.items[i].kind = "bytes"
    PROVE  AnswersGathered'
BY DEF AnswersGathered, IsAnswers, IsListOf

LEMMA NotCalling ==
    ASSUME mode' # "call", mode' = "ended" \/ returned' = <<>>
    PROVE  CallFits'
BY DEF CallFits

LEMMA EndedShows ==
    ASSUME mode' = "ended"
    PROVE  SInv'
BY DEF SInv, CallFits, AnswersGathered

LEMMA SInit == Init => SInv
<1> SUFFICES ASSUME Init PROVE SInv
  OBVIOUS
<1>1. mode = "prompt" /\ returned = <<>> /\ cwd.given = FALSE
  BY DEF Init, NoInput
<1> QED
  BY <1>1 DEF SInv, CallFits, AnswersGathered, IsAnswers, IsListOf

(* Commands that are no calls, and give what is no answers, or the same.   *)
LEMMA QuietShows ==
    ASSUME IInv, SInv, mode = "run", Proceed, pipelines # <<>>, UNCHANGED <<pipelines, callvars>>,
           cwd' = cwd \/ AnswersGathered'
    PROVE  SInv'
<1>1. returned' = <<>> /\ mode' = "run" /\ stage' = stage + 1
  BY DEF SInv, CallFits, callvars, Proceed
<1>2. CallFits'
  BY <1>1, NotCalling
<1>3. AnswersGathered'
  BY <1>1, AnswersStay
<1> QED
  BY <1>2, <1>3 DEF SInv

LEMMA TypeShows == IInv /\ SInv /\ Type /\ RInv => SInv'
<1> SUFFICES ASSUME IInv, SInv, Type, RInv PROVE SInv'
  OBVIOUS
<1>1. mode = "prompt" /\ mode' = "run" /\ UNCHANGED <<stage, cwd, callvars>>
  BY DEF Type
<1>2. stage = 0
  BY <1>1 DEF RInv, StageFits
<1>3. ~IsAnswers
  BY <1>1, <1>2 DEF SInv, AnswersGathered, GatheredBy, Transduced
<1>4. AnswersGathered'
  BY <1>1, <1>3 DEF AnswersGathered, IsAnswers, IsListOf
<1>5. CallFits'
  BY <1>1 DEF SInv, CallFits, callvars
<1> QED
  BY <1>4, <1>5 DEF SInv

LEMMA NextPipelineShows == IInv /\ SInv /\ NextPipeline => SInv'
<1> SUFFICES ASSUME IInv, SInv, NextPipeline PROVE SInv'
  OBVIOUS
<1>1. mode = "run" /\ mode' \in {"run", "prompt"} /\ cwd' = NoInput /\ UNCHANGED callvars
  BY DEF NextPipeline
<1>2. AnswersGathered'
  BY <1>1 DEF AnswersGathered, IsAnswers, IsListOf, NoInput
<1>3. CallFits'
  BY <1>1 DEF SInv, CallFits, callvars
<1> QED
  BY <1>2, <1>3 DEF SInv

LEMMA EndingShows == EndOfFile \/ Interrupt \/ Exit \/ TransduceRaises => SInv'
<1>1. EndOfFile \/ Interrupt \/ Exit \/ TransduceRaises => mode' = "ended"
  BY DEF EndOfFile, Interrupt, Exit, TransduceRaises, End
<1> QED
  BY <1>1, EndedShows

LEMMA PassShows == IInv /\ SInv /\ Pass => SInv'
<1> SUFFICES ASSUME IInv, SInv, Pass PROVE SInv'
  OBVIOUS
<1>1. mode = "run" /\ Proceed /\ UNCHANGED <<pipelines, cwd, callvars>> /\ pipelines # <<>>
  BY DEF Pass, linevars, IInv, PromptIsIdle
<1> QED
  BY <1>1, QuietShows

LEMMA PayloadShows == IInv /\ SInv /\ Payload => SInv'
<1> SUFFICES ASSUME IInv, SInv, Payload PROVE SInv'
  OBVIOUS
<1>1. /\ mode = "run" /\ Proceed /\ UNCHANGED <<pipelines, callvars>> /\ pipelines # <<>>
      /\ Command # <<>> /\ Names # <<>> /\ stage < Len(pipelines[1])
  BY DEF Payload, At, linevars, IInv, PromptIsIdle
<1>2. CASE cwd' = cwd
  BY <1>1, <1>2, QuietShows
<1>3. CASE cwd' = Given([i \in DOMAIN Names |-> Piece({Strand(<<>>)})])
  <2>1. 1 \in DOMAIN Names
    <3> DEFINE n == Names
    <3>1. n \in Seq(STRING) /\ n # <<>>
      BY <1>1, CommandIsTyped
    <3> HIDE DEF n
    <3>2. 1 \in DOMAIN n
      BY <3>1
    <3> QED
      BY <3>2 DEF n
  <2>2. 1 \in DOMAIN cwd'.items /\ cwd'.items[1].kind = "bytes"
    BY <1>3, <2>1 DEF Given, Piece
  <2>3. AnswersGathered'
    BY <2>2, PiecesAreNoAnswers
  <2> QED
    BY <1>1, <2>3, QuietShows
<1> QED
  BY <1>2, <1>3 DEF Payload

LEMMA H2FramesShows == IInv /\ SInv /\ H2Frames => SInv'
<1> SUFFICES ASSUME IInv, SInv, H2Frames PROVE SInv'
  OBVIOUS
<1> DEFINE piece == Piece({Strand(Statement(Names).frames)})
<1>1. mode = "run" /\ UNCHANGED <<pipelines, callvars>> /\ pipelines # <<>>
  BY DEF H2Frames, At, linevars, IInv, PromptIsIdle
<1>2. End("H2Error")
        \/ (Proceed /\ (\/ cwd' = cwd
                        \/ IsByteStream /\ cwd' = Given(Append(cwd.items, piece))
                        \/ cwd' = Given(<<piece>>)))
  BY DEF H2Frames
<1>3. piece.kind = "bytes"
  BY DEF Piece
<1> HIDE DEF piece
<1>4. CASE End("H2Error")
  BY <1>4, EndedShows DEF End
<1>5. CASE Proceed /\ cwd' = cwd
  BY <1>1, <1>5, QuietShows
<1>6. CASE Proceed /\ IsByteStream /\ cwd' = Given(Append(cwd.items, piece))
  <2> DEFINE s == cwd.items
             S == {s[i] : i \in DOMAIN s} \cup {piece}
  <2>1. s \in Seq(S) /\ piece \in S
    BY <1>6, PiecesAreASequence DEF IInv, Typed, IsSeq
  <2>2. cwd'.items = Append(s, piece)
    BY <1>6 DEF Given
  <2> HIDE DEF s, S
  <2>3. Len(s) + 1 \in DOMAIN Append(s, piece) /\ Append(s, piece)[Len(s) + 1] = piece
    BY <2>1
  <2>4. AnswersGathered'
    BY <1>3, <2>2, <2>3, PiecesAreNoAnswers
  <2> QED
    BY <1>1, <1>6, <2>4, QuietShows
<1>7. CASE Proceed /\ cwd' = Given(<<piece>>)
  <2>1. cwd'.items = <<piece>>
    BY <1>7 DEF Given
  <2>2. 1 \in DOMAIN cwd'.items /\ cwd'.items[1] = piece
    BY <2>1
  <2>3. AnswersGathered'
    BY <1>3, <2>2, PiecesAreNoAnswers
  <2> QED
    BY <1>1, <1>7, <2>3, QuietShows
<1> QED
  BY <1>2, <1>4, <1>5, <1>6, <1>7

LEMMA GridOrClusterShows == IInv /\ SInv /\ GridOrCluster => SInv'
<1> SUFFICES ASSUME IInv, SInv, GridOrCluster PROVE SInv'
  OBVIOUS
<1>1. mode = "run" /\ UNCHANGED <<pipelines, callvars>> /\ pipelines # <<>>
  BY DEF GridOrCluster, At, linevars, IInv, PromptIsIdle
<1>2. Proceed \/ End("KeyError")
  BY DEF GridOrCluster, LookUp
<1>3. cwd' = cwd \/ cwd' = NoInput
  BY DEF GridOrCluster
<1>4. CASE End("KeyError")
  BY <1>4, EndedShows DEF End
<1>5. CASE Proceed /\ cwd' = cwd
  BY <1>1, <1>5, QuietShows
<1>6. CASE Proceed /\ cwd' = NoInput
  <2>1. AnswersGathered'
    BY <1>6 DEF AnswersGathered, IsAnswers, IsListOf, NoInput
  <2> QED
    BY <1>1, <1>6, <2>1, QuietShows
<1> QED
  BY <1>2, <1>3, <1>4, <1>5, <1>6

LEMMA TransduceShows == IInv /\ SInv /\ Transduce => SInv'
<1> SUFFICES ASSUME IInv, SInv, Transduce PROVE SInv'
  OBVIOUS
<1>1. mode = "run" /\ UNCHANGED <<pipelines, cwd, callvars>> /\ pipelines # <<>>
  BY DEF Transduce, At, linevars, IInv, PromptIsIdle
<1>2. Proceed \/ End("KeyError") \/ (mode' = "transduce" /\ stage' = stage)
  BY DEF Transduce, LookUp
<1>3. CASE Proceed
  BY <1>1, <1>3, QuietShows
<1>4. CASE End("KeyError")
  BY <1>4, EndedShows DEF End
<1>5. CASE mode' = "transduce" /\ stage' = stage
  <2>1. CallFits'
    BY <1>1, <1>5 DEF SInv, CallFits, callvars
  <2>2. AnswersGathered'
    BY <1>1, <1>5, AnswersStay
  <2> QED
    BY <2>1, <2>2 DEF SInv
<1> QED
  BY <1>2, <1>3, <1>4, <1>5

LEMMA TransduceOneShows == IInv /\ SInv /\ TransduceOne => SInv'
<1> SUFFICES ASSUME IInv, SInv, TransduceOne PROVE SInv'
  OBVIOUS
<1>1. /\ mode = "transduce" /\ UNCHANGED <<pipelines, callvars>> /\ pipelines # <<>>
      /\ Command # <<>> /\ Head(Command) = "transduce"
  BY DEF TransduceOne, linevars, IInv, PromptIsIdle, Waiting
<1>2. PICK n \in 0..MaxPieces : cwd' = Given([i \in 1..n |-> Through(Head(todo))])
  BY DEF TransduceOne
<1>3. (mode' = "run" /\ stage' = stage + 1) \/ (mode' = "transduce" /\ stage' = stage)
  BY <1>1 DEF TransduceOne, Proceed
<1>4. CallFits'
  BY <1>1, <1>3 DEF SInv, CallFits, callvars
<1>5. cwd'.items = [i \in 1..n |-> Through(Head(todo))]
  BY <1>2 DEF Given
<1>6. CASE DOMAIN cwd'.items = {}
  <2>1. CASE mode' = "transduce"
    BY <1>4, <1>6, <2>1 DEF AnswersGathered, SInv
  <2>2. CASE stage' = stage + 1
    <3>1. stage + 1 \in 1..stage + 1
      BY <1>1, PipelineTyped
    <3>2. HeadOf(pipelines[1][stage + 1]) = "transduce"
      BY <1>1 DEF HeadOf, Command
    <3>3. Transduced(pipelines[1], stage + 1)
      BY <3>1, <3>2 DEF Transduced
    <3> QED
      BY <1>1, <1>4, <1>6, <2>2, <3>3 DEF AnswersGathered, SInv
  <2> QED
    BY <1>3, <1>4, <2>1, <2>2 DEF SInv
<1>7. CASE DOMAIN cwd'.items # {}
  <2>1. PICK i : i \in DOMAIN cwd'.items
    BY <1>7
  <2>2. cwd'.items[i].kind = "bytes"
    BY <1>5, <2>1 DEF Through, Piece
  <2> QED
    BY <1>4, <2>1, <2>2, PiecesAreNoAnswers DEF SInv
<1> QED
  BY <1>6, <1>7

LEMMA CallShows == IInv /\ SInv /\ Call => SInv'
<1> SUFFICES ASSUME IInv, SInv, Call PROVE SInv'
  OBVIOUS
<1>1. /\ mode = "run" /\ UNCHANGED <<pipelines, cwd, working, returned>> /\ pipelines # <<>>
      /\ stage < Len(pipelines[1]) /\ Command # <<>> /\ returned = <<>>
  BY DEF Call, At, linevars, IInv, PromptIsIdle, SInv, CallFits
<1>2. Proceed \/ End("KeyError") \/ (mode' = "call" /\ stage' = stage)
  BY DEF Call, LookUp
<1>3. CASE Proceed
  <2>1. mode' = "run" /\ stage' = stage + 1
    BY <1>3 DEF Proceed
  <2>2. CallFits'
    BY <1>1, <2>1, NotCalling
  <2>3. AnswersGathered'
    BY <1>1, <2>1, AnswersStay
  <2> QED
    BY <2>2, <2>3 DEF SInv
<1>4. CASE End("KeyError")
  BY <1>4, EndedShows DEF End
<1>5. CASE mode' = "call" /\ stage' = stage
  <2>1. AnswersGathered'
    BY <1>1, <1>5, AnswersStay
  <2>2. Command' = Command /\ AskedServers' = AskedServers
    BY <1>1, <1>5 DEF Command, AskedServers, Listed, Dict, Names
  <2>3. called' = Len(AskedServers) /\ outcome' = [i \in 1..called' |-> <<>>]
    BY <1>5 DEF Call
  <2>4. CallFits'
    BY <1>1, <1>5, <2>2, <2>3 DEF CallFits
  <2> QED
    BY <2>1, <2>4 DEF SInv
<1> QED
  BY <1>2, <1>3, <1>4, <1>5

LEMMA CallingShows == IInv /\ SInv /\ Calling => SInv'
<1> SUFFICES ASSUME IInv, SInv, Calling PROVE SInv'
  OBVIOUS
<1>1. UNCHANGED <<mode, pipelines, stage, cwd>> /\ mode = "call" /\ pipelines # <<>>
  BY DEF Calling, linevars, IInv, PromptIsIdle
<1>2. AnswersGathered'
  <2>1. mode' = "call"
    BY <1>1
  <2> QED
    BY <1>1, AnswersStay
<1>3. AskedServers' = AskedServers
  BY <1>1 DEF Command, AskedServers, Listed, Dict, Names
<1>4. /\ called = Len(AskedServers) /\ DOMAIN outcome = 1..called
      /\ \A i \in 1..called : outcome[i] \in {<<>>, <<"ok", AskedServers[i]>>} \cup Raisings
      /\ returned # <<>> => \/ returned[1] = "raise"
                            \/ returned = <<"ok", [i \in 1..called |-> AskedServers[i]]>>
  BY <1>1 DEF SInv, CallFits
<1>5. CASE Fanout!Return
  <2>1. called' = called /\ outcome' = outcome
    BY <1>5 DEF Fanout!Return
  <2>2. CASE \E why \in Fanout!MayRaise : returned' = <<"raise", why>>
    <3>1. returned'[1] = "raise"
      BY <2>2
    <3> QED
      BY <1>1, <1>2, <1>3, <1>4, <2>1, <3>1 DEF CallFits, SInv
  <2>3. CASE /\ \A i \in 1..called : outcome[i] # <<>> /\ outcome[i][1] = "ok"
             /\ returned' = <<"ok", [i \in 1..called |-> outcome[i][2]]>>
    <3>1. \A i \in 1..called : outcome[i] = <<"ok", AskedServers[i]>>
      <4> SUFFICES ASSUME NEW i \in 1..called PROVE outcome[i] = <<"ok", AskedServers[i]>>
        OBVIOUS
      <4>1. outcome[i] # <<>> /\ outcome[i][1] = "ok"
        BY <2>3
      <4>2. outcome[i] \notin Raisings
        BY <4>1 DEF Raisings
      <4> QED
        BY <1>4, <4>1, <4>2
    <3>2. [i \in 1..called |-> outcome[i][2]] = [i \in 1..called |-> AskedServers[i]]
      BY <3>1
    <3>3. returned' = <<"ok", [i \in 1..called |-> AskedServers[i]]>>
      BY <2>3, <3>2
    <3> QED
      BY <1>1, <1>2, <1>3, <1>4, <2>1, <3>3 DEF CallFits, SInv
  <2> QED
    BY <1>5, <2>2, <2>3 DEF Fanout!Return, Fanout!Asked
<1>6. CASE \E i \in 1..called :
             \/ Fanout!Ask(i)
             \/ Fanout!SettleAs(i, <<"ok", AskedServers[i]>>)
             \/ \E why \in Fanout!MayRaise : Fanout!SettleAs(i, <<"raise", why>>)
  <2>1. called' = called /\ returned' = returned
    BY <1>6 DEF Fanout!Ask, Fanout!SettleAs
  <2>2. /\ DOMAIN outcome' = 1..called
        /\ \A i \in 1..called : outcome'[i] \in {<<>>, <<"ok", AskedServers[i]>>} \cup Raisings
    <3>1. CASE \E i \in 1..called : Fanout!Ask(i)
      BY <1>4, <3>1 DEF Fanout!Ask
    <3>2. ASSUME NEW i \in 1..called, NEW o \in {<<"ok", AskedServers[i]>>} \cup Raisings,
                 Fanout!SettleAs(i, o)
          PROVE  /\ DOMAIN outcome' = 1..called
                 /\ \A j \in 1..called :
                        outcome'[j] \in {<<>>, <<"ok", AskedServers[j]>>} \cup Raisings
      <4>1. outcome' = [outcome EXCEPT ![i] = o]
        BY <3>2 DEF Fanout!SettleAs
      <4>2. DOMAIN outcome' = 1..called
            /\ \A j \in 1..called : outcome'[j] = IF j = i THEN o ELSE outcome[j]
        BY <1>4, <4>1
      <4> QED
        BY <1>4, <3>2, <4>2
    <3>3. \A why \in Fanout!MayRaise : <<"raise", why>> \in Raisings
      BY DEF Raisings, Fanout!MayRaise
    <3> QED
      BY <1>6, <3>1, <3>2, <3>3
  <2>3. CallFits'
    BY <1>1, <1>3, <1>4, <2>1, <2>2 DEF CallFits
  <2> QED
    BY <1>2, <2>3 DEF SInv
<1> QED
  BY <1>5, <1>6 DEF Calling

LEMMA CallReturnsShows == IInv /\ RInv /\ SInv /\ CallReturns => SInv'
<1> SUFFICES ASSUME IInv, RInv, SInv, CallReturns PROVE SInv'
  OBVIOUS
<1>1. /\ pipelines' = pipelines /\ pipelines # <<>> /\ mode = "call" /\ returned' = <<>>
      /\ stage < Len(pipelines[1]) /\ Command # <<>> /\ Head(Command) \in Calls
  BY DEF CallReturns, linevars, IInv, PromptIsIdle, Waiting, RInv, StageFits
<1>2. CASE returned[1] # "ok"
  BY <1>2, EndedShows DEF CallReturns, End
<1>3. CASE returned[1] = "ok"
  <2>1. Proceed /\ mode' = "run" /\ stage' = stage + 1
    BY <1>3 DEF CallReturns, Proceed
  <2>2. CallFits'
    BY <1>1, <2>1, NotCalling
  <2>3. CASE cwd' = cwd
    BY <1>1, <2>1, <2>2, <2>3, AnswersStay DEF SInv
  <2>4. CASE /\ Head(Command) \in Parsed
             /\ cwd' = Given([i \in 1..called |-> Answer(returned[2][i])])
    <3>1. called = Len(AskedServers) /\ AskedServers \in Seq(STRING) /\ Listed \in Seq(STRING)
      BY <1>1, CommandIsTyped DEF SInv, CallFits
    <3>2. returned[2] = [i \in 1..called |-> AskedServers[i]]
      <4>1. returned # <<>> /\ returned[1] # "raise"
        BY <1>3 DEF CallReturns
      <4> QED
        BY <1>1, <4>1 DEF SInv, CallFits
    <3>3. By(cwd'.items) = AskedServers
      <4> DEFINE a == AskedServers
      <4>1. a = [i \in 1..Len(a) |-> a[i]]
        <5>1. a \in Seq(STRING)
          BY <3>1
        <5> HIDE DEF a
        <5> QED
          BY <5>1
      <4>2. cwd'.items = [i \in 1..called |-> Answer(returned[2][i])]
        BY <2>4 DEF Given
      <4>3. By(cwd'.items) = [i \in 1..called |-> returned[2][i]]
        BY <4>2 DEF By, Answer
      <4> QED
        BY <3>1, <3>2, <4>1, <4>3
    <3>4. HeadOf(Command) = Head(Command) /\ Listed = ListedBy(Command)
      BY <1>1, <2>4 DEF HeadOf, Listed, ListedBy, Dict, Names, ToTransducers, Parsed
    <3>5. AsksAllItLists(Command) => AskedServers = Listed
      BY <3>1, <3>4, WithHttp2Is DEF AsksAllItLists, AskedServers
    <3>6. stage + 1 \in 1..stage + 1 /\ Command = pipelines[1][stage + 1]
      BY <1>1, PipelineTyped DEF Command
    <3>7. GatheredBy(pipelines[1], stage + 1, cwd'.items)
      BY <2>4, <3>3, <3>4, <3>5, <3>6 DEF GatheredBy
    <3> QED
      BY <1>1, <2>1, <2>2, <3>7 DEF AnswersGathered, SInv
  <2> QED
    BY <1>3, <2>3, <2>4 DEF CallReturns
<1> QED
  BY <1>2, <1>3

LEMMA SameShows ==
    ASSUME SInv, UNCHANGED vars
    PROVE  SInv'
<1>1. UNCHANGED <<mode, pipelines, stage, cwd, called, outcome, working, returned>>
  BY DEF vars, linevars, callvars
<1>2. AskedServers' = AskedServers
  BY <1>1 DEF Command, AskedServers, Listed, Dict, Names
<1>3. CallFits'
  BY <1>1, <1>2 DEF SInv, CallFits
<1>4. AnswersGathered'
  BY <1>1 DEF SInv, AnswersGathered, IsAnswers, IsListOf
<1> QED
  BY <1>3, <1>4 DEF SInv

LEMMA ShownInvariance == Spec => [](IInv /\ RInv /\ SInv)
<1>1. IInv /\ RInv /\ SInv /\ [Next]_vars => SInv'
  BY TypeShows, NextPipelineShows, EndingShows, PassShows, PayloadShows, H2FramesShows,
     GridOrClusterShows, TransduceShows, TransduceOneShows, CallShows, CallingShows,
     CallReturnsShows, SameShows DEF Next
<1> QED
  BY RoutesInvariance, SInit, <1>1, PTL DEF Spec

-----------------------------------------------------------------------------
(* Only tables, lists and calls change what is shown.                      *)
LEMMA GridOrClusterShown == IInv /\ RInv /\ SInv /\ GridOrCluster => Shows
<1> SUFFICES ASSUME IInv, RInv, SInv, GridOrCluster, screen' # screen PROVE Shows
  BY DEF Shows
<1>1. /\ mode = "run" /\ pipelines # <<>> /\ Command # <<>>
      /\ stage < Len(pipelines[1]) /\ Head(Command) \in {"grid", "cluster"}
  BY DEF GridOrCluster, At, linevars, IInv, PromptIsIdle
<1>2. Listed = Defaulted(Names, OriginNames) /\ Listed \in Seq(STRING) /\ Before = 1..stage
  BY <1>1, CommandIsTyped DEF Listed, Dict, ToTransducers, Before
<1>3. IsAnswers /\ screen' = Rows(Listed, By(cwd.items))
  BY <1>2 DEF GridOrCluster
<1>4. CASE GatheredBy(pipelines[1], stage, cwd.items)
  <2>1. PICK k \in 1..stage : /\ HeadOf(pipelines[1][k]) \in Parsed
                              /\ AsksAllItLists(pipelines[1][k]) =>
                                    By(cwd.items) = ListedBy(pipelines[1][k])
    BY <1>4 DEF GatheredBy
  <2>2. CASE AsksAllItLists(pipelines[1][k]) /\ ListedBy(pipelines[1][k]) = Listed
    <3>1. screen' = Rows(Listed, Listed)
      BY <1>3, <2>1, <2>2
    <3>2. OwnRows(screen', Listed)
      BY <1>2, <3>1, RowsAreOwn
    <3> QED
      BY <3>2 DEF Shows
  <2>3. CASE ~AsksAllItLists(pipelines[1][k]) \/ ListedBy(pipelines[1][k]) # Listed
    <3>1. ~Gathered(k) \/ Defaulted(Tail(pipelines[1][k]), OriginNames) # Listed
      BY <2>3 DEF AsksAllItLists, ListedBy, Gathered
    <3> QED
      BY <1>1, <1>2, <2>1, <3>1 DEF Shows
  <2> QED
    BY <2>2, <2>3
<1>5. CASE DOMAIN cwd.items = {} /\ Transduced(pipelines[1], stage)
  <2>1. screen' = <<>>
    <3> DEFINE by == By(cwd.items)
               n == Len(Listed)
    <3>1. by = <<>>
      BY <1>5 DEF By
    <3> HIDE DEF by
    <3>2. Len(by) = 0 /\ n \in Nat
      BY <1>2, <3>1
    <3>3. Min({n, 0}) = 0
      <4> HIDE DEF n
      <4>1. \A y \in {n, 0} : 0 <= y
        BY <3>2
      <4>2. \A x \in {n, 0} : (\A y \in {n, 0} : x <= y) => x = 0
        BY <3>2
      <4> QED
        BY <4>1, <4>2 DEF Min
    <3>4. Rows(Listed, by) = <<>>
      <4> DEFINE r == [i \in 1..0 |-> [label |-> Listed[i], by |-> by[i]]]
      <4>1. Rows(Listed, by) = r
        BY <3>2, <3>3 DEF Rows
      <4>2. r = <<>>
        OBVIOUS
      <4> QED
        BY <4>1, <4>2
    <3> QED
      BY <1>3, <3>4 DEF by
  <2>2. \E k \in 1..stage : HeadOf(pipelines[1][k]) = "transduce"
    BY <1>5 DEF Transduced
  <2> QED
    BY <1>1, <1>2, <2>1, <2>2 DEF Shows
<1> QED
  BY <1>1, <1>3, <1>4, <1>5 DEF SInv, AnswersGathered

LEMMA CallReturnsShown == IInv /\ RInv /\ SInv /\ CallReturns => Shows
<1> SUFFICES ASSUME IInv, RInv, SInv, CallReturns, screen' # screen PROVE Shows
  BY DEF Shows
<1>1. /\ pipelines # <<>> /\ mode = "call"
      /\ stage < Len(pipelines[1]) /\ Command # <<>> /\ Head(Command) \in Calls
  BY DEF CallReturns, linevars, IInv, PromptIsIdle, Waiting, RInv, StageFits
<1>2. called = Len(AskedServers) /\ AskedServers \in Seq(STRING) /\ Listed \in Seq(STRING)
  BY <1>1, CommandIsTyped DEF SInv, CallFits
<1>3. returned[1] = "ok"
        /\ screen' = Rows(IF Head(Command) \in Parsed THEN Listed ELSE AskedServers, returned[2])
  BY DEF CallReturns
<1>4. returned[2] = AskedServers
  <2>1. returned # <<>> /\ returned[1] # "raise"
    BY <1>3 DEF CallReturns
  <2>2. returned[2] = [i \in 1..called |-> AskedServers[i]]
    BY <1>1, <2>1 DEF SInv, CallFits
  <2> DEFINE a == AskedServers
  <2>3. a = [i \in 1..Len(a) |-> a[i]]
    <3>1. a \in Seq(STRING)
      BY <1>2
    <3> HIDE DEF a
    <3> QED
      BY <3>1
  <2> QED
    BY <1>2, <2>2, <2>3
<1>5. CASE Head(Command) = "h2fanout" /\ \E s \in ToSet(Listed) : ~AllowsHttp2(s)
  BY <1>5 DEF Shows
<1>6. CASE ~(Head(Command) = "h2fanout" /\ \E s \in ToSet(Listed) : ~AllowsHttp2(s))
  <2>1. AskedServers = Listed
    BY <1>2, <1>6, WithHttp2Is DEF AskedServers
  <2>2. screen' = Rows(Listed, Listed)
    BY <1>3, <1>4, <2>1
  <2>3. OwnRows(screen', Listed)
    BY <1>2, <2>2, RowsAreOwn
  <2> QED
    BY <2>3 DEF Shows
<1> QED
  BY <1>5, <1>6

(***************************************************************************)
(* Whatever is typed, each server that a table or list names is beside the *)
(* answer it gave itself, but in the cases that the property names: h2-    *)
(* fanout labels servers it did not ask, and a text for answers gathered   *)
(* from others, or for the nothing of a transducer (repl.py 285-287, 331,  *)
(* 356, 365).                                                              *)
(***************************************************************************)
THEOREM AnswersUnderOwnNames == Spec => ShownUnderOwnName
<1>1. IInv /\ RInv /\ SInv /\ [Next]_vars => [Shows]_vars
  <2> SUFFICES ASSUME IInv, RInv, SInv, [Next]_vars PROVE [Shows]_vars
    OBVIOUS
  <2>1. CASE screen' = screen
    BY <2>1 DEF Shows
  <2>2. CASE GridOrCluster \/ CallReturns
    BY <2>2, GridOrClusterShown, CallReturnsShown
  <2>3. CASE screen' # screen /\ ~GridOrCluster /\ ~CallReturns
    <3>1. UNCHANGED vars => screen' = screen
      BY DEF vars
    <3>2. Next => GridOrCluster \/ CallReturns \/ screen' = screen
      BY DEF Next, Type, EndOfFile, Interrupt, NextPipeline, Pass, Exit, Payload, H2Frames,
             Transduce, TransduceOne, TransduceRaises, Call, Calling
    <3> QED
      BY <2>3, <3>1, <3>2
  <2> QED
    BY <2>1, <2>2, <2>3
<1> QED
  BY ShownInvariance, <1>1, PTL DEF Spec, ShownUnderOwnName

-----------------------------------------------------------------------------
(* Frames: what an h2frames leaves, as long as it is the last command.     *)
LeavesFrames(command, n, items) ==
    HeadOf(command) = "h2frames" /\ Statement(Tail(command)).at = "outside" =>
        /\ items # <<>>
        /\ \E x \in Last(items).strands :
               Last(items).strands = {x} /\ x.stage = n /\ x.frames = Statement(Tail(command)).frames

FInv == mode = "run" /\ stage > 0 => LeavesFrames(pipelines[1][stage], stage, cwd.items)

LEMMA OtherCommands ==
    ASSUME stage' = stage + 1, pipelines' = pipelines, HeadOf(Command) # "h2frames"
    PROVE  FInv'
BY DEF FInv, LeavesFrames, Command, HeadOf

LEMMA OtherSteps ==
    IInv /\ RInv /\ Next /\ ~H2Frames => FInv'
<1> SUFFICES ASSUME IInv, RInv, Next, ~H2Frames PROVE FInv'
  OBVIOUS
<1>1. CASE Type
  <2>1. stage' = 0
    BY <1>1 DEF Type, RInv, StageFits
  <2> QED
    BY <2>1 DEF FInv
<1>2. CASE NextPipeline
  BY <1>2 DEF NextPipeline, FInv
<1>3. CASE EndOfFile \/ Interrupt \/ Exit \/ TransduceRaises \/ Calling
  BY <1>3 DEF EndOfFile, Interrupt, Exit, TransduceRaises, Calling, End, FInv
<1>4. CASE Pass
  <2>1. stage' = stage + 1 /\ pipelines' = pipelines /\ HeadOf(Command) # "h2frames"
    BY <1>4 DEF Pass, Proceed, linevars, HeadOf, Keywords
  <2> QED
    BY <2>1, OtherCommands
<1>5. CASE Payload \/ GridOrCluster \/ Transduce \/ Call
  <2>1. pipelines' = pipelines /\ HeadOf(Command) # "h2frames"
    BY <1>5 DEF Payload, GridOrCluster, Transduce, Call, At, linevars, HeadOf, Calls, ToTransducers, Parsed
  <2>2. stage' = stage + 1 \/ mode' # "run"
    BY <1>5 DEF Payload, GridOrCluster, Transduce, Call, LookUp, Proceed, End
  <2>3. CASE mode' # "run"
    BY <2>3 DEF FInv
  <2> QED
    BY <2>1, <2>2, <2>3, OtherCommands
<1>6. CASE TransduceOne
  <2>1. pipelines' = pipelines /\ HeadOf(Command) # "h2frames"
    BY <1>6 DEF TransduceOne, linevars, HeadOf, IInv, Waiting
  <2>2. stage' = stage + 1 \/ mode' # "run"
    BY <1>6 DEF TransduceOne, Proceed
  <2>3. CASE mode' # "run"
    BY <2>3 DEF FInv
  <2> QED
    BY <2>1, <2>2, <2>3, OtherCommands
<1>7. CASE CallReturns
  <2>1. pipelines' = pipelines /\ HeadOf(Command) # "h2frames"
    BY <1>7 DEF CallReturns, linevars, HeadOf, IInv, Waiting, Calls, ToTransducers, Parsed
  <2>2. stage' = stage + 1 \/ mode' # "run"
    BY <1>7 DEF CallReturns, Proceed, End
  <2>3. CASE mode' # "run"
    BY <2>3 DEF FInv
  <2> QED
    BY <2>1, <2>2, <2>3, OtherCommands
<1> QED
  BY <1>1, <1>2, <1>3, <1>4, <1>5, <1>6, <1>7 DEF Next

LEMMA H2FramesLeavesFrames == IInv /\ H2Frames => FInv'
<1> SUFFICES ASSUME IInv, H2Frames, mode' = "run"
             PROVE  /\ LeavesFrames(Command, stage + 1, cwd'.items)
                    /\ stage' = stage + 1 /\ pipelines' = pipelines
  BY DEF FInv, Command
<1> DEFINE parse == Statement(Names)
           x == Strand(parse.frames)
           piece == Piece({x})
<1>1. stage' = stage + 1 /\ pipelines' = pipelines
  BY DEF H2Frames, End, Proceed, linevars
<1>2. SUFFICES ASSUME parse.at = "outside"
               PROVE  cwd'.items # <<>> /\ \E y \in Last(cwd'.items).strands :
                          Last(cwd'.items).strands = {y} /\ y.stage = stage + 1 /\ y.frames = parse.frames
  BY <1>1 DEF LeavesFrames, Names
<1>3. cwd' = IF IsByteStream THEN Given(Append(cwd.items, piece)) ELSE Given(<<piece>>)
  BY <1>2 DEF H2Frames
<1>4. cwd'.items # <<>> /\ Last(cwd'.items) = piece
  <2>1. CASE IsByteStream
    <3>1. IsSeq(cwd.items)
      BY <2>1, PiecesAreASequence DEF IInv, Typed
    <3> DEFINE S == {cwd.items[i] : i \in DOMAIN cwd.items} \cup {piece}
               s == cwd.items
    <3>2. s \in Seq(S) /\ piece \in S
      BY <3>1 DEF IsSeq
    <3> HIDE DEF S, s, piece
    <3>3. Append(s, piece) # <<>> /\ Last(Append(s, piece)) = piece
      BY <3>2 DEF Last
    <3> QED
      BY <1>3, <2>1, <3>3 DEF Given, s
  <2>2. CASE ~IsByteStream
    <3> HIDE DEF piece
    <3>1. <<piece>> # <<>> /\ Last(<<piece>>) = piece
      BY DEF Last
    <3> QED
      BY <1>3, <2>2, <3>1 DEF Given
  <2> QED
    BY <2>1, <2>2
<1>5. piece.strands = {x}
  BY DEF Piece
<1>6. x.stage = stage + 1 /\ x.frames = parse.frames
  BY DEF Strand
<1> HIDE DEF x, piece
<1> QED
  BY <1>4, <1>5, <1>6

LEMMA FramesInvariance == Spec => [](IInv /\ FInv)
<1>1. IInv /\ RInv /\ FInv /\ [Next]_vars => FInv'
  <2> SUFFICES ASSUME IInv, RInv, FInv, [Next]_vars PROVE FInv'
    OBVIOUS
  <2>1. CASE UNCHANGED vars
    BY <2>1 DEF vars, linevars, FInv
  <2> QED
    BY <2>1, OtherSteps, H2FramesLeavesFrames
<1>2. Init => FInv
  BY DEF Init, FInv
<1> QED
  BY <1>1, <1>2, RoutesInvariance, PTL DEF Spec

(***************************************************************************)
(* Whatever frames a user wants, the statement that writes them down makes *)
(* them, one after the other, whatever cwd was; no frame takes over what   *)
(* the one before it said (repl.py 229-283, 386-390).                      *)
(***************************************************************************)
THEOREM FramesAreMade == Spec => []FramesAsWritten
<1>1. IInv /\ FInv => FramesAsWritten
  <2> SUFFICES ASSUME FInv, mode = "run", stage > 0, HeadOf(pipelines[1][stage]) = "h2frames",
                      NEW frames \in Wanted, Tail(pipelines[1][stage]) = Written(frames)
               PROVE  /\ cwd.items # <<>>
                      /\ \E x \in Last(cwd.items).strands :
                             Last(cwd.items).strands = {x} /\ x.stage = stage /\ x.frames = frames
    BY DEF FramesAsWritten
  <2>1. Statement(Written(frames)).at = "outside" /\ Statement(Written(frames)).frames = frames
    BY WrittenRead, ReplAssumption
  <2> QED
    BY <2>1 DEF FInv, LeavesFrames
<1> QED
  BY <1>1, FramesInvariance, PTL
=============================================================================
