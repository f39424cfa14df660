-------------------------------- MODULE Repl --------------------------------
(***************************************************************************)
(* tools/repl.py: pipelines of commands, and cwd, what one command hands   *)
(* to the next: nothing, pieces of bytes, or the answers of servers.       *)
(* Talking to servers goes through fanout, taken here at its word          *)
(* (FanoutPromise), or one transducer at a time.                           *)
(*                                                                         *)
(* A piece is the set of its strands: what a command of this session made, *)
(* which passed since through transducers.  A list of answers is known by  *)
(* the servers that gave them.                                             *)
(***************************************************************************)
EXTENDS FrameStatement

CONSTANTS
    Services,       \* the services of both YAML files, in the order of names
    Lines,          \* what is typed: sequences of tokens
    MaxLines,       \* bound: how many lines are typed
    MaxPieces,      \* bound: how many pieces a transducer gives back
    Wanted          \* lists of frames a user may want to send

ServiceType ==
    [name : STRING, role : {"origin", "transducer", "none"}, running : BOOLEAN,
     external : BOOLEAN, address : BOOLEAN, http2 : BOOLEAN]

ASSUME ReplAssumption ==
    /\ Services \in Seq(ServiceType) /\ Lines \subseteq Seq(STRING)
    /\ \A i, j \in DOMAIN Services : Services[i].name = Services[j].name => i = j
    /\ MaxLines \in Nat /\ MaxPieces \in Nat /\ Wanted \subseteq Seq(Writable)

VARIABLES
    mode,           \* "prompt", "run", "transduce", "call" or "ended"
    ending,         \* what ended the program
    lines,          \* how many lines were typed
    pipelines,      \* the pipelines left of the line, the current one first
    number,         \* the current one's number in the session
    stage,          \* commands of it that were executed
    cwd,
    todo,           \* the transducers a transduce command has yet to ask
    sent,           \* the pieces last sent to a server
    screen,         \* the last table or list: its lines, label and answer
    called, outcome, working, returned      \* the call of fanout under way

linevars == <<lines, pipelines, number>>
callvars == <<called, outcome, working, returned>>
vars == <<mode, ending, linevars, stage, cwd, todo, sent, screen, callvars>>

-----------------------------------------------------------------------------
(* targets.py: the services that can be talked to, read at import.         *)

Extracted(s) ==
    /\ s.role # "none"
    /\ s.running \/ (s.external /\ s.address)

NamesOf(role) ==
    FlattenSeq([i \in DOMAIN Services |->
        IF Services[i].role = role /\ Extracted(Services[i]) THEN <<Services[i].name>> ELSE <<>>])

OriginNames == NamesOf("origin")            \* the keys of ORIGIN_DICT
TransducerNames == NamesOf("transducer")    \* the keys of TRANSDUCER_DICT

AllowsHttp2(name) == \E i \in DOMAIN Services : Services[i].name = name /\ Services[i].http2

-----------------------------------------------------------------------------
(* What cwd may be: None, or a list.  An empty list is one of both kinds.  *)

NoInput == [given |-> FALSE, items |-> <<>>]
Given(items) == [given |-> TRUE, items |-> items]

Piece(strands) == [kind |-> "bytes", strands |-> strands]
Answer(server) == [kind |-> "answer", strands |-> {}, by |-> server]

IsListOf(kind) == cwd.given /\ \A i \in DOMAIN cwd.items : cwd.items[i].kind = kind

IsByteStream == IsListOf("bytes")
IsAnswers == IsListOf("answer")

Strand(frames) == [number |-> number, stage |-> stage + 1, via |-> <<>>, frames |-> frames]

-----------------------------------------------------------------------------
OneMoreToken(parts, t, separator) ==
    IF t = separator THEN Append(parts, <<>>)
    ELSE [parts EXCEPT ![Len(parts)] = Append(@, t)]

SplitAt(tokens, separator) ==
    LET S[n \in 0..Len(tokens)] ==
            IF n = 0 THEN <<<<>>>> ELSE OneMoreToken(S[n - 1], tokens[n], separator)
    IN  S[Len(tokens)]

Pipelines(line) ==
    LET parts == SplitAt(line, ";")
    IN  [i \in DOMAIN parts |-> SplitAt(parts[i], "|")]

Init ==
    /\ mode = "prompt" /\ ending = "" /\ lines = 0
    /\ pipelines = <<>> /\ number = 0 /\ stage = 0
    /\ cwd = NoInput /\ todo = <<>> /\ sent = <<>> /\ screen = <<>>
    /\ called = 0 /\ outcome = <<>> /\ working = {} /\ returned = <<>>

Command == pipelines[1][stage + 1]
Names == Tail(Command)

At(words) ==
    /\ mode = "run" /\ stage < Len(pipelines[1])
    /\ Command # <<>> /\ Head(Command) \in words

Proceed == mode' = "run" /\ stage' = stage + 1 /\ UNCHANGED ending

(* An exception that nothing catches, or sys.exit. *)
End(why) == mode' = "ended" /\ ending' = why /\ UNCHANGED stage

(* input and shlex; a line that cannot be lexed is as good as none. *)
Type ==
    /\ mode = "prompt" /\ lines < MaxLines
    /\ \E line \in Lines : pipelines' = Pipelines(line)
    /\ mode' = "run" /\ lines' = lines + 1
    /\ UNCHANGED <<ending, number, stage, cwd, todo, sent, screen, callvars>>

EndOfFile ==
    /\ mode = "prompt" /\ End("EOFError")
    /\ UNCHANGED <<linevars, cwd, todo, sent, screen, callvars>>

(* Ctrl-C: at the prompt it is caught.                                     *)
Interrupt ==
    /\ mode \in {"run", "transduce", "call"} /\ End("KeyboardInterrupt")
    /\ UNCHANGED <<linevars, cwd, todo, sent, screen, callvars>>

(* Wrong: the next pipeline begins with what this one left. *)
KeepCwd ==
    /\ mode = "run" /\ stage = Len(pipelines[1])
    /\ pipelines' = Tail(pipelines)
    /\ mode' = IF Tail(pipelines) = <<>> THEN "prompt" ELSE "run"
    /\ number' = number + 1 /\ stage' = 0
    /\ UNCHANGED <<ending, lines, cwd, todo, sent, screen, callvars>>

NextPipeline ==
    /\ mode = "run" /\ stage = Len(pipelines[1])
    /\ pipelines' = Tail(pipelines)
    /\ mode' = IF Tail(pipelines) = <<>> THEN "prompt" ELSE "run"
    /\ number' = number + 1 /\ stage' = 0 /\ cwd' = NoInput
    /\ UNCHANGED <<ending, lines, todo, sent, screen, callvars>>

-----------------------------------------------------------------------------
(* The commands                                                            *)

Keywords == {"payload", "grid", "cluster", "transduce", "fanout", "h2fanout",
             "unparsed_fanout", "uf", "unparsed_transducer_fanout", "utf", "h2frames"}

IsExit == Command \in {<<"exit">>, <<"quit">>}

(* An empty command, one that only prints, and what is no command at all.  *)
Pass ==
    /\ mode = "run" /\ stage < Len(pipelines[1])
    /\ \/ Command \in {<<>>, <<"payload">>}
       \/ Command # <<>> /\ Head(Command) \notin Keywords /\ ~IsExit
    /\ Proceed
    /\ UNCHANGED <<linevars, cwd, todo, sent, screen, callvars>>

Exit ==
    /\ mode = "run" /\ stage < Len(pipelines[1]) /\ IsExit
    /\ End("exit")
    /\ UNCHANGED <<linevars, cwd, todo, sent, screen, callvars>>

Payload ==
    /\ At({"payload"}) /\ Names # <<>>
    /\ cwd' = IF ToSet(Names) \cap Unencodable # {} THEN cwd
              ELSE Given([i \in DOMAIN Names |-> Piece({Strand(<<>>)})])
    /\ Proceed
    /\ UNCHANGED <<linevars, todo, sent, screen, callvars>>

H2Frames ==
    /\ At({"h2frames"})
    /\ LET parse == Statement(Names)
           piece == Piece({Strand(parse.frames)})
       IN  /\ cwd' = IF parse.at # "outside" THEN cwd
                     ELSE IF IsByteStream THEN Given(Append(cwd.items, piece))
                     ELSE Given(<<piece>>)
           /\ IF parse.at = "H2Error" THEN End("H2Error") ELSE Proceed
    /\ UNCHANGED <<linevars, todo, sent, screen, callvars>>

ValidServers(names) == ToSet(names) \subseteq ToSet(OriginNames) \cup ToSet(TransducerNames)

(* Wrong: transducers' names are validated as the servers' are.            *)
AnyServers(names) == ToSet(names) \subseteq ToSet(OriginNames) \cup ToSet(TransducerNames)

ValidTransducers(names) == ToSet(names) \subseteq ToSet(TransducerNames)

(* Validated names are looked up in one of the dictionaries.               *)
LookUp(names, dict, next) ==
    IF ToSet(names) \subseteq ToSet(dict) THEN next ELSE End("KeyError")

Defaulted(names, dict) == IF names = <<>> THEN dict ELSE names

(* The lines of a table or list: labels beside answers, as far as there    *)
(* are both.                                                               *)
Rows(labels, by) ==
    [i \in 1..Min({Len(labels), Len(by)}) |-> [label |-> labels[i], by |-> by[i]]]

By(items) == [i \in DOMAIN items |-> items[i].by]

GridOrCluster ==
    /\ At({"grid", "cluster"})
    /\ LET names == Defaulted(Names, OriginNames)
           shows == IsAnswers /\ ValidServers(names) /\ names # <<>>
       IN  /\ IF shows THEN LookUp(names, OriginNames, Proceed) ELSE Proceed
           /\ screen' = IF shows /\ mode' = "run" THEN Rows(names, By(cwd.items)) ELSE screen
           /\ cwd' = IF IsAnswers /\ mode' = "run" THEN NoInput ELSE cwd
    /\ UNCHANGED <<linevars, todo, sent, callvars>>

Transduce ==
    /\ At({"transduce"})
    /\ IF Names # <<>> /\ ValidTransducers(Names) /\ IsByteStream
         THEN LookUp(Names, TransducerNames, mode' = "transduce" /\ UNCHANGED <<ending, stage>>)
         ELSE Proceed
    /\ todo' = IF mode' = "transduce" THEN Names ELSE <<>>
    /\ UNCHANGED <<linevars, cwd, sent, screen, callvars>>

(* One transducer's roundtrip: any number of pieces, of all that was sent. *)
Through(t) ==
    Piece({[x EXCEPT !.via = Append(@, t)] :
              x \in UNION {cwd.items[i].strands : i \in DOMAIN cwd.items}})

TransduceOne ==
    /\ mode = "transduce"
    /\ sent' = cwd.items
    /\ \E n \in 0..MaxPieces : cwd' = Given([i \in 1..n |-> Through(Head(todo))])
    /\ todo' = Tail(todo)
    /\ IF Tail(todo) = <<>> THEN Proceed ELSE UNCHANGED <<mode, stage, ending>>
    /\ UNCHANGED <<linevars, screen, callvars>>

(* It cannot be talked to; or an answer came whose body is no gzip, or has *)
(* a chunk too long, and parsing it raises what catches of ValueError and  *)
(* of the EOFError of input do not catch ("ParseError" here).              *)
TransduceRaises ==
    /\ mode = "transduce"
    /\ \E why \in {"OSError", "ParseError"} : End(why)
    /\ sent' = cwd.items
    /\ UNCHANGED <<linevars, cwd, todo, screen, callvars>>

-----------------------------------------------------------------------------
(* fanout and the commands like it *)

ToTransducers == {"unparsed_transducer_fanout", "utf"}
Parsed == {"fanout", "h2fanout"}
Calls == ToTransducers \cup Parsed \cup {"unparsed_fanout", "uf"}

(* A transducer's answers are parsed also where the command's are not.     *)
ParsesAnswers == Head(Command) \in Parsed \cup ToTransducers

Fanout == INSTANCE FanoutPromise WITH Answers <- STRING, parses <- ParsesAnswers

Dict == IF Head(Command) \in ToTransducers THEN TransducerNames ELSE OriginNames
Listed == Defaulted(Names, Dict)

(* Wrong: a server that is named twice is asked once.                      *)
AskedOnce == SelectSeq(OriginNames \o TransducerNames, LAMBDA s : s \in ToSet(Listed))

WithHttp2(names) ==
    FlattenSeq([i \in DOMAIN names |-> IF AllowsHttp2(names[i]) THEN <<names[i]>> ELSE <<>>])

AskedServers == IF Head(Command) = "h2fanout" THEN WithHttp2(Listed) ELSE Listed

ValidListed ==
    IF Head(Command) \in ToTransducers THEN ValidTransducers(Listed) ELSE ValidServers(Listed)

Call ==
    /\ At(Calls)
    /\ IF IsByteStream /\ ValidListed
         THEN LookUp(Listed, Dict, mode' = "call" /\ UNCHANGED <<ending, stage>>)
         ELSE Proceed
    /\ called' = IF mode' = "call" THEN Len(AskedServers) ELSE 0
    /\ outcome' = [i \in 1..called' |-> <<>>]
    /\ sent' = IF mode' = "call" THEN cwd.items ELSE sent
    /\ UNCHANGED <<linevars, cwd, todo, screen, working, returned>>

(* Meanwhile: an answer is known by its server.                            *)
Calling ==
    /\ mode = "call"
    /\ UNCHANGED <<mode, ending, linevars, stage, cwd, todo, sent, screen>>
    /\ \/ Fanout!Return
       \/ \E i \in 1..called :
            \/ Fanout!Ask(i)
            \/ Fanout!SettleAs(i, <<"ok", AskedServers[i]>>)
            \/ \E why \in Fanout!MayRaise : Fanout!SettleAs(i, <<"raise", why>>)

CallReturns ==
    /\ mode = "call" /\ returned # <<>>
    /\ LET ok == returned[1] = "ok"
           labels == IF Head(Command) \in Parsed THEN Listed ELSE AskedServers
       IN  /\ IF ok THEN Proceed ELSE End(returned[2])
           /\ screen' = IF ok THEN Rows(labels, returned[2]) ELSE screen
           /\ cwd' = IF ok /\ Head(Command) \in Parsed
                       THEN Given([i \in 1..called |-> Answer(returned[2][i])]) ELSE cwd
    /\ called' = 0 /\ outcome' = <<>> /\ working' = {} /\ returned' = <<>>
    /\ UNCHANGED <<linevars, todo, sent>>

-----------------------------------------------------------------------------
Next ==
    \/ Type \/ EndOfFile \/ Interrupt \/ NextPipeline
    \/ Pass \/ Exit \/ Payload \/ H2Frames \/ GridOrCluster
    \/ Transduce \/ TransduceOne \/ TransduceRaises
    \/ Call \/ Calling \/ CallReturns

Spec == Init /\ [][Next]_vars
-----------------------------------------------------------------------------
(* Properties *)

Before == 1..(IF mode = "ended" THEN 0 ELSE stage)      \* the stages executed
HeadOf(command) == IF command = <<>> THEN "" ELSE Head(command)

Gathered(k) ==  \* the stage called servers for answers of the named ones
    /\ HeadOf(pipelines[1][k]) \in Parsed
    /\ HeadOf(pipelines[1][k]) = "h2fanout" =>
           \A s \in ToSet(Defaulted(Tail(pipelines[1][k]), OriginNames)) : AllowsHttp2(s)

(***************************************************************************)
(* Each server a table or list names is beside the answer it gave itself,  *)
(* also one that is named twice.  Otherwise h2fanout named one that it did *)
(* not ask; or the answers compared were gathered from other servers, by a *)
(* text that names others or in another order; or they are the nothing of  *)
(* a transducer, which passes for a list of answers (repl.py 285-287, 331, *)
(* 356, 365).                                                              *)
(***************************************************************************)
OwnRows(rows, names) ==
    Len(rows) = Len(names)
        /\ \A i \in DOMAIN rows : rows[i] = [label |-> names[i], by |-> names[i]]

Shows ==
    screen' # screen =>
        \/ OwnRows(screen', Listed)
        \/ /\ Head(Command) = "h2fanout"
           /\ \E s \in ToSet(Listed) : ~AllowsHttp2(s)
        \/ /\ Head(Command) \in {"grid", "cluster"}
           /\ \E k \in Before :
                 /\ HeadOf(pipelines[1][k]) \in Parsed
                 /\ ~Gathered(k) \/ Defaulted(Tail(pipelines[1][k]), OriginNames) # Listed
        \/ /\ Head(Command) \in {"grid", "cluster"} /\ screen' = <<>>
           /\ \E k \in Before : HeadOf(pipelines[1][k]) = "transduce"

ShownUnderOwnName == [][Shows]_vars

(***************************************************************************)
(* Only these end the session: the end of input, exit, the user, a server  *)
(* that cannot be talked to, an answer that raises something other than a  *)
(* ValueError when it is parsed, a command for origins that was given the  *)
(* name of a transducer, and a stream identifier that is none.  No other   *)
(* mistake in a line does, and uf, which parses nothing, survives whatever *)
(* is answered (repl.py 124-137, 273-282, 331-381; http1.py 287-301).      *)
(***************************************************************************)
EndsOnlyFor ==
    mode = "ended" =>
        \/ ending = "EOFError" /\ pipelines = <<>>
        \/ ending = "KeyboardInterrupt" /\ pipelines # <<>>
        \/ ending = "exit" /\ Len(Command) = 1
        \/ /\ ending = "OSError" /\ cwd.given
           /\ Head(Command) \in Calls \cup {"transduce"}
        \/ /\ ending = "ParseError" /\ cwd.given
           /\ Head(Command) \in Parsed \cup ToTransducers \cup {"transduce"}
        \/ /\ ending = "KeyError" /\ cwd.given
           /\ Head(Command) \in ({"grid", "cluster"} \cup Calls) \ ToTransducers
           /\ ToSet(Names) \cap ToSet(TransducerNames) # {}
        \/ /\ ending = "H2Error" /\ Head(Command) = "h2frames"
           /\ \E t \in ToSet(Names) \cap DOMAIN Number : Number[t] \notin 0..MaxStreamId

(* What a server has just been sent was made by commands of this pipeline. *)
Here(items) ==
    \A i \in DOMAIN items : \A x \in items[i].strands : x.number = number /\ x.stage <= stage

SentHere ==
    mode = "call" \/ (mode = "transduce" /\ Len(todo) < Len(Names)) => Here(sent)

(* The transducers that a piece made at one stage has been through.        *)
TransducersSince(first) ==
    FlattenSeq([k \in 1..stage |->
        IF k > first /\ HeadOf(pipelines[1][k]) = "transduce"
                     /\ ValidTransducers(Tail(pipelines[1][k]))
          THEN Tail(pipelines[1][k]) ELSE <<>>])

(***************************************************************************)
(* What a server is sent was made by this very pipeline, and has been      *)
(* through all transducers named since, once each and in their order:      *)
(* nothing of another pipeline or of a payload since replaced gets to it   *)
(* (repl.py 310, 319, 342-347, 386-390).                                   *)
(***************************************************************************)
SentFromThisPipeline ==
    LET asked == IF mode = "transduce"
                   THEN SubSeq(Names, 1, Len(Names) - Len(todo)) ELSE <<>>
    IN  /\ SentHere
        /\ mode = "call" \/ asked # <<>> =>
            \A i \in DOMAIN sent : \A x \in sent[i].strands :
                /\ x.via = TransducersSince(x.stage)
                              \o (IF asked = <<>> THEN <<>> ELSE Front(asked))
                /\ \A k \in x.stage + 1..stage :
                       HeadOf(pipelines[1][k]) = "payload" =>
                           Len(pipelines[1][k]) = 1
                           \/ ToSet(Tail(pipelines[1][k])) \cap Unencodable # {}

(***************************************************************************)
(* Frames can be written: the statement that says of each frame only what  *)
(* is not the default makes these frames, one after the other, and nothing *)
(* said of a frame is said of the next (repl.py 229-283).                  *)
(***************************************************************************)
FramesAsWritten ==
    mode = "run" /\ stage > 0 /\ HeadOf(pipelines[1][stage]) = "h2frames" =>
        \A frames \in Wanted : Tail(pipelines[1][stage]) = Written(frames) =>
            /\ cwd.items # <<>>
            /\ \E x \in Last(cwd.items).strands :
                   Last(cwd.items).strands = {x} /\ x.stage = stage /\ x.frames = frames
=============================================================================
