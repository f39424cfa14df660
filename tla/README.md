# HTTP Garden in TLA+

The HTTP Garden sends the same bytes to many HTTP servers and proxies, collects what each
understood, and shows where two disagree. These modules model the Python tools of the
repository (`src/tools`), check them with TLC and prove some of the results with TLAPS. Line
numbers below are those of the repository's files.

## The system

A pipeline such as `payload ... | transduce haproxy | fanout | grid` goes through these parts:

| Part | State it keeps | Operations | Interacts with |
|---|---|---|---|
| REPL (`repl.py`) | `cwd`: a byte stream, answers or `None` | one per command; the parser of `h2frames` | calls all below |
| Extraction of services (`targets.py`) | the dictionaries of origins and transducers | once, at import | Docker, two YAML files, the REPL |
| Roundtrip (`util.py`, `targets.py`) | a socket, the bytes of the current `recvall`, the pieces | connect, TLS handshake, send, recv, time out | a server over TCP |
| Fanout (`fanout.py`, `eager_pmap`) | a thread pool, the results by place | map | many roundtrips, and whoever called |
| Answers (`targets.py`, `http1.py`) | `remaining`, `result` or `pieces` | one turn of a loop | the bytes of a roundtrip |
| Comparison (`diff.py`) | none of its own | `normalize_request`, `categorize_discrepancy` | sorts its caller's answers |
| Grid, clusters (`grid.py`) | the answers, the grid or clusters so far | one comparison after the other | the comparison |
| Quirk probing (`probe_quirks.py`, `garden.sh`) | `quirks.yml`, each `Server`'s quirks | load, probe, print | roundtrips, the next process |
| Echo server (`echo_server.py`) | per connection the frames by stream; one global `frame_counter` | accept; receive, echo, frame handlers | every proxy under test |
| HTTP/1 (`http1.py`) | none | parse, rewrite headers | all of the above |
| HTTP/2 frames (`http2.py`) | none | parse, write, specialize | the echo server, roundtrips |
| HPACK (`hpack.py`) | the dynamic table | parse, write, process a field block | the quirk probes |
| Mutations (`mutations.py`) | none | thirteen random edits | the HTTP/1 parser |

What is hard in it, and what makes each part correct:

- *REPL*: what one command leaves is what the next finds, also when one refused its input; names
  are checked in one place and used in another, and a fanout's servers are named by one text and its
  answers' labels by another. Answers appear under the name of their server, nothing of another
  pipeline is sent, and no slip of the user ends the session.
- *Echo server*: threads race on the counter whose stamps put the frames of a response in
  order; a timeout cuts the bytes anywhere; a send may fail; stream identifiers are used again.
  A response must hold what the peer sent on that stream, in order, once; every stream that
  ends must be answered; an HTTP/1 thread must end.
- *Roundtrip*: a timeout races a late answer, and a reset interrupts a receive. What was read
  is in the pieces, in order, and a piece never holds an answer to something sent after it.
- *Fanout*: threads finish in any order and one of them raises. Answers are at their server's
  place, nobody is left talking, and the caller is woken.
- *Answers*: the two loops go on as long as bytes remain, through half a dozen ways of failing
  to parse them. No byte may be read twice, what can be read must be reported, loops must end.
- *Comparison, grid, clusters*: excuses of either server, in either order, over streams of
  different lengths, on requests shared between comparisons. A verdict depends on what the two
  servers said, not on what was compared before, nor on the order of the servers.
- *HTTP/2 frames, HPACK*: lengths, flags, padding and prefixes share octets, and input may end
  anywhere. What was written is read again, a cut between two units is an end and a cut inside one an
  error, and the dynamic table forgets at once what does not fit.
- *Mutations*: a change of one header rewrites a whole stream through a parser and a writer that
  do not agree on everything. A mutation makes one change, leaves the rest, and returns.
- *Quirk probing*: each probe must find what the comparison will need, through `Server` objects
  that carry the quirks of an earlier probe. Benign differences are ignored, real ones are not.

## Modules

| Module | Models | Proofs |
|---|---|---|
| `EchoServer` | the echo server | `EchoServerProofs` |
| `Roundtrip` | one exchange with each of several servers | `FanoutProofs` |
| `Fanout` | the thread pool over `Roundtrip` (EXTENDS it) | `FanoutProofs` |
| `FanoutPromise` | what a fanout promises; `Fanout` implements it, `Repl` relies on it | `FanoutProofs` |
| `Repl` | lines, pipelines and commands (EXTENDS `FrameStatement`, composes `FanoutPromise`) | `ReplProofs` |
| `FrameStatement` | the parser of the statement that `h2frames` is given, as operators | `ReplProofs` |
| `Responses` | the loops that cut bytes into answers | `ResponsesProofs` |
| `Diff` | the comparison of two lists of answers, as operators | `GridProofs` |
| `Grid` | the grid and the clusters (EXTENDS `Diff`) | `GridProofs` |
| `Quirks` | probing, `quirks.yml` and the comparison by it (EXTENDS `Diff`) | |
| `Http2Frames` | HTTP/2 frames, generic and typed | `Http2FramesProofs` |
| `Hpack` | field blocks and the dynamic table | `HpackProofs` |
| `HpackPromise` | what the dynamic table promises; `Hpack` implements it | `HpackProofs` |
| `Mutations` | `mutate`, its mutations and the HTTP/1 request parser | |

`MCx` gives the constants of `x` their values for TLC. A definition whose comment begins with
`Wrong:` is a plausible bug of the definition that follows it; no specification uses it. It is
there to be put in that definition's place, upon which the run named in `PROJECT.json` fails.

### EchoServer

`Logs`, a constant, is the set of cases of what peers send: functions from the connections made to
units; a connection that is not in the function is not made. What a peer sends is a sequence of units (a preface, a frame, or some bytes of HTTP/1). A
`recvall` takes any number of further units (`avail`), the handler consumes them (`pos`).
`pc[c]` is the place of the connection's thread: `H1Send` and `H1Recv` are the HTTP/1 loop (lines
18-31), `H2Recv`, `ParseGenericFrames` and `ParseTornFrame` the HTTP/2 loop (80-120), and the other
actions the cases of its `match`. `collect_frame` is two actions, `Collect` (reads the counter)
and `CountAndReact` (increments it), for another thread may run in between. The increment itself
is one step: CPython switches threads neither inside `+= 1` on a global, between its load and its
store, in the versions the repository asks for (3.12 and later, with the interpreter lock); the
mutant `CountedFromStamp` shows what would happen otherwise. An exception that nothing catches
ends the thread (`Die`). With TLS the handshake runs in `accept`, on the main thread, and its
failure ends the accept loop (`AcceptFails`).

### Roundtrip, Fanout, FanoutPromise

`Begin`, `Connect`, `Handshake`, `Send`, `Recv`, `RecvallEnds`, `RecvRaises` and `Parse` are the client's steps;
`Emit`, `Deliver` and `Hangup` the server's and the network's. `Parse` ends the item: if the call wants answers
parsed (`fanout`, and what transducers answer), in the same thread, what came may raise something that is no
`ValueError` (false or torn gzip, a chunk size too large: `http1.py:287`, `:301`), which no one catches; `Responses` says
what is made of it otherwise. An output unit is the number of
pieces its server had been sent when it emitted it, so that a piece's contents tell what caused
them. `recvall` cannot tell a timeout from an end of stream, so `RecvallEnds` may happen whenever
nothing is waiting to be read. `Fanout` adds the pool of `multiprocessing.pool` (external, from how
`eager_pmap` uses it): chunks, workers, the report of a chunk, the first exception. The refinement
maps the state of the pool to the `outcome` of each server and the set `working`. A call (`Calls`) is the
number of servers, which of them have TLS, the pieces, whether answers are parsed and what the servers may emit.

### Repl, FrameStatement

`Type` splits a line at `;` and `|`; `pipelines`, `number` and `stage` are the place of the two `for` loops, and
each command of the `match` is an action, with its refusals (the command is passed over and `cwd` stays)
and the exceptions that nothing catches (`End`): among them the `OSError` of a server that cannot be talked to and what
parsing an answer raises, which the model calls `ParseError` whether it is `BadGzipFile`, `EOFError`, `zlib.error` or
`OverflowError`. `Call`, `Calling` and `CallReturns` are the four kinds of fanout:
in between the state is that of `FanoutPromise`, whose `Ask`, `SettleAs` and `Return` it takes. `TransduceOne` asks one
transducer after the other. A piece is known by where it was made and which transducers it
has passed, an answer by its server, and `screen` keeps the labels of the last table beside the answers shown.
`None`, a list of bytes and a list of answers are told apart as in the code, so that the empty list is both.
`Services` stands for the YAML files and the running containers; `NamesOf` makes the dictionaries of it.
In `FrameStatement` a parse is at one place of the grammar after each token, which is where the three functions
stand that share an iterator; `Written` writes frames down as a user would.

### Responses

The bytes are a sequence of units (a response with or without a length and with a body of some
kind, one whose body makes the parser raise, frames, HTTP/0.9, junk) and `remaining` is the units from `at` on. One action is one turn of
a loop. `response` and `newAt` are the local variables that survive a turn.

### Diff, Grid

A request's headers are a function from lower-cased names to the values in order of arrival: two
requests are compared by the sorted list of their pairs, so that only the order within a name can
matter. A value is a sequence of atoms, so that a joined value keeps its parts. `PairVerdict` is the
body of the loop of `categorize_discrepancy`, `Decision` the loop. `Grid` makes one comparison per
step, as `generate_grid` and `generate_clusters` do, and keeps in `pts` the answers as they are in
memory: `normalize_request` sorts the caller's request when nothing made it work on a copy
(`SortsInPlace`), which `Comparing` does to the answers.

### Quirks

A server is a behaviour: what it accepts and how it changes what it is sent. `Start` loads
`quirks.yml`, which the shell has emptied if the output is redirected to it and which `garden.sh`
leaves alone until the script has succeeded; `RequireHosts`, `CheckSanity`, `Diagnose` (a thread per
server), `Abort` and `PrintQuirks` are `main`. The probes are operators that ask the server and read its
answers as the functions of the same names do. After printing, `Payloads` are sent to the servers by
the quirks found and the answers compared by `Diff`. `AllowsHttp09` and `AllowsHttp2` probe with bytes that
are not HTTP/1.1; what a server makes of these is its own field (`on09`, `speaks2`).

### Http2Frames

`Receive` takes the octets of a list of frames, all of them or as many as arrived before a timeout.
`ParseFrame`, `ParseRaises` and `ParseEnds` are `parse_generic_frames`, `SpecializeFrame` and the actions beside
it `parse_frames`. `Typed` and `TypedToGeneric` dispatch on the type as `specialize` and `to_generic` do.
Everything is octets; a number of 31 or 32 bits is a word of four, so that none overflows, and
`Top` and `Low` take it apart, for its top bit is a flag in one field and reserved in another.

### Hpack, HpackPromise

`Written` is what a peer makes of a block of fields, in every form that HPACK has for it, `Receive` cuts it.
`ParseOne`, `ParseRaises` and `ParseEnds` are `parse_field_block` with the integers, strings and fields below it;
`ProcessIndexed`, `ProcessLiteral`, `ProcessPartial` and `UpdateTableCapacity` are the cases of `process_field_block`, and
`AssertionFails` its assertions. `HpackPromise` makes room before it takes an entry in and knows
neither blocks nor octets; under its mapping every step of the code is one of its own or none.

### Mutations

A stream is a sequence of lines, and a line is what the code's byte is: the unit that is edited,
counted by a Content-Length or a chunk, and cut. Each mutation is the set of its outcomes, one for each
draw of `random`: a payload, its own AssertionError, or an exception that came out of the parser. `Choose`
is a turn of the loop in `mutate`. The parser is as permissive as its patterns: two words on one line or on
two are a request line of HTTP/0.9, and the white space behind them belongs to it.

## Runs

| Run | Shows | Bounds |
|---|---|---|
| `echo` | `EchoFaithful`, `EndsAnswered`, `StampOrder`, `EndingStreamsHoldFrames`, `H1EchoesAll`; `H1Ends`, `EndEventuallyAnswered` under fairness | one connection, any two units of every kind and a third that ends or refills a stream, cut into reads everywhere, and two connections which race on every stamp; two streams; payloads of up to three frames fit, so that the fourth does not |
| `fanout` | `NothingReadIsLost`, `PieceAnswersEarlierData`, `Implements` (the refinement); `RoundtripEnds`, `FanoutEnds` | three servers, one with TLS, two threads, chunks of two: one chunk is full and one is not; one server with or without TLS, three pieces, four units of output: an answer may come one, two or three pieces late; two servers with a piece; no server; answers parsed, but in one call |
| `grid` | `GridTypeOK`, `GridJudgesWhatWasSaid`, `SymmetricGrid`, `RejectionsShownAsAgreement`, `ClusterAgrees`, `TwinsShareACluster` | pairs with up to two answers, trios with one, and every profile of quirks with every kind of answer |
| `grid_joined` | a violation: a request sorted in place no longer matches its joined duplicates | two servers |
| `responses` | `BodiesAreRelayed`, `AnswersDisjoint`, `NoAnswerLost`; `OriginEnds` under fairness | every stream of up to three units of every kind, both loops, all quirks |
| `responses_stale` | a violation: the stale `response` of a transducer's loop | streams of two units |
| `quirks` | `RecordedAsItIs`, `BenignIgnored`, `RealDiscrepanciesShown` | one server that differs in two ways and one that differs in one, of all that is probed: any two of 23 ways with any other; two probes |
| `quirks_09` | a violation: a request taken as HTTP/0.9 by the server named second is a discrepancy with a first one that refuses HTTP/0.9 | two servers that differ from a plain one in one way each |
| `http2_frames` | `FramesAreTheData`, `OnlyATearIsRefused`, `BuiltFramesComeBack`, `SpecializedForGood` | every type of frame, with the flags that its parser looks at, valid or not, alone or between two others, cut everywhere |
| `hpack` | `HpackTypeOK`, `FieldsComeBack`, `OnlyTornBlocksAreRefused`, `Implements` (the refinement) | blocks of every form of field, cut everywhere, through a table of three entries |
| `mutations` | `RaisesOnlyFor`, `OneChangeAtATime`, `OthersStand` | payloads of up to two streams of thirteen lines, one of each framing, and one of three streams; those of up to four lines are mutated twice |
| `repl` | `ShownUnderOwnName`, `EndsOnlyFor`, `SentFromThisPipeline`, `FramesAsWritten` | five services of every kind; every pair of some forty commands, three or four stages behind a payload, a second pipeline; statements of two frames and malformed ones; transducers give up to two pieces |

Why the bounds are enough. A response of the echo server is decided by the last close of its
stream and of stream 0, so three units behind the preface hold a use, a close and a second use;
two threads suffice for any order of stamps, since each compares only its own. A timeout moves
an answer by whole pieces, so three pieces separate "late" from "very late". The pool treats
chunks alike, and two of different length on two threads finish in every order. Clusters compare
a newcomer with the members of a group: with three servers agreement can fail to be transitive.
The loops of `Responses` look at one unit and at what is left, and a stale variable needs one turn
to be set and one to be used. Two quirks on one server and one on the other is every interaction of
two quirks within a server and of each with another's.
A frame is parsed from its own length alone, so a frame between two others shows whether it
takes too much or too little. A table of three entries holds one that is evicted, one that stays and
one that comes in. A mutation looks at one stream, or two that are neighbours, and at one request
with what is before and behind it.
A command of the REPL looks at `cwd` and its names only; three commands suffice for each kind of `cwd` to
meet each command, a fourth for one that was refused to come in between. What a first pipeline leaves is
met by a second; a line ends as a pipeline does, so that one line is enough (`MaxLines`).

`maxout` bounds what a server emits in a roundtrip and `MaxPieces` the list of `responses_stale`, which
would grow for ever; `MaxProbes` how often the script is run; `MaxCalls` and `MaxUnits` how often, and up to which
length, a payload is mutated again; `PayloadLimit` stands for 2^24 - 1 bytes.
Deadlock is not checked: every part may stop, a thread at its end and a REPL's call when it returns.

Fairness. Threads are scheduled by the operating system, so each one that can take a step does in
the end: weak fairness of each thread of the echo server, of each worker and of the caller of `map`.
`recvall` returns when its timeout passes without a byte, so a roundtrip's receive is fair as
well, and parsing comes to its end, as `OriginEnds` shows of an origin (of a transducer it need not, see `responses_stale`: a
call for which it does not is none of `Calls`). Since `recvall` goes on as long as bytes come in time, this needs a server that stops at some
point, which `maxout` grants. `connect` has the operating system's timeout. The TLS handshake runs
before `settimeout` (`targets.py:166-167`) and gets no fairness: `RoundtripEnds` is claimed without
TLS, `FanoutEnds` on condition that no handshake waits for ever.  Of peers nothing is assumed.

No combination of ways to differ is left out of `quirks`. What the code does not do of what is promised is named in
the properties, so that they claim everything else: `RecordedAsItIs` says exactly which servers are recorded as
accepting a protocol that they refuse (`PassesFor09`, `PassesFor2`), and `BenignIgnored` which benign differences are
reported all the same, each by the server and the payload that shows it (`ReportedAllTheSame`, five cases, and
`AsksTheWrongOne`); without any one of them the run fails. Finding 4 and those below it list them. Of servers that
reject by closing `BenignIgnored` claims less: they may be reported for the length of their stream, since
`diff.py:74-75` returns before the excuse of line 91 can look at a missing answer.

`TwinsShareACluster` and `SymmetricGrid` say in their preconditions what they cannot claim: a server with an invalid
answer joins the first cluster there is (`grid.py:27`), of valid servers too, and bars it to their
like; the HTTP/0.9 excuse works one way round. `GridJudgesWhatWasSaid` and `SymmetricGrid`, which is about the cells of the grid and
what the comparison makes of the answers in memory once a cell is filled, except pairs of which one server joins duplicates,
which the sort in place does affect (run `grid_joined`), and no other pair of such a line-up.
`NoAnswerLost` says of every answer that an origin parses whether it is reported, also of the one kind that never is.

## Proofs

Every theorem holds for every value of the constants that the assumptions named here allow. They say what
the constants are, and no more than the code grants: a service's name is a key of a dictionary, an answer is
what the parser returns, a Huffman code is prefix-free.

- `EchoServerProofs` (`EchoAssumption`). `StampsOrderFrames` and `EndingStreamsHeld`, by `IInv`. `StampOrder` is not
  inductive: a frame collected now gets the present counter, and to be above all earlier stamps of its
  connection these must be below the counter. `StampsCounted` says so, with the exception that makes it
  delicate: the latest frame, between `Collect` and `CountAndReact`, has a stamp equal to the counter unless
  another thread has counted meanwhile; `FrameInHand` is needed to know that this frame is the last one.
  On it rest `AnswersAreFaithful`, `EndingFramesAnswered` and `H1EchoesEverything`, by `AnswersInv`: a connection
  is in one of five phases, and a handler in `Answering` holds of each stream exactly the frames since
  it was closed (`Since`) and has answered exactly those that were to be answered (`Owed`). Since the stamps
  order the frames held, sorting them restores the order in which they were sent (`SortRestores`).
- `FanoutProofs` (`RoundtripAssumption`, `FanoutAssumption`). `RTInv` is about the roundtrips: cursors in order, a
  piece for each piece sent, and of each position in a piece when its server emitted it; it gives `Lossless`
  and `CausedByWhatWasSent`. `PoolInv` is about the pool: each chunk is untaken, in one worker's hands or
  reported (a count, by cardinality), a server before the worker's in its chunk is done, and what was
  reported is what the roundtrips returned. By both, `KeepsThePromise`: each step is one of `FanoutPromise` or a stutter.
- `GridProofs` (`DiffAssumption`, `GridAssumption`). `VerdictsAreSymmetric`, for any two lists of answers: swapping the
  servers swaps the excuses pairwise. For the rest, `AllInv`. A comparison may sort
  the answers in memory, and what it leaves has the same values under each name (`PtsInv`); a
  comparison looks at no more unless one of its servers joins duplicates, so each cell is the verdict on what was
  said (`GridJudges`), whatever the others of the line-up did to the answers. So is the verdict on the answers as they
  are in memory by then, the other way round, whence `GridsAreSymmetric`. Two servers which rejected everything are shown as agreeing (`GridShowsRejections`).
  Clusters hold the servers placed so far, once each (`SeatsInv`, `GridTypes`); the members that a search has passed have
  the verdict it is for (`SearchInv`), whence `ClustersAgree`; and a server is outside a cluster because of a member it
  disagrees with (`KeptOutInv`), so that twins, which disagree with the same members, end in one (`TwinsMeet`).
- `HpackProofs` (`HpackAssumption`). From the bottom, for integers behind every prefix and with any padding,
  strings raw or Huffman-coded, and every form of field: what is written looks like that form and no
  other, comes back whatever octets follow (`FieldComesBack`), and is refused when cut (`TornFieldRefused`). `InStep` then says
  where a parser is in a block, and gives `FieldsReturn` and `TornBlocksRefused`. Huffman strings need the whole
  assumption: no codeword begins another, and one of more than seven bits, all ones, is EOS, else
  padding could be a symbol. `HpackTypes` is that the table never outgrows its capacity: an eviction
  leaves the longest beginning that fits. For `HpackKeepsThePromise`, evicting after an entry came in leaves what
  making room first leaves, also when the entry fits in no table.
- `Http2FramesProofs` (`ProgramsAssumption`: a program's frames have the fields their dataclasses declare, in the ranges
  `__post_init__` checks, and a payload below 2^24 octets). From the bottom: eight flags and an octet are each other's
  inverse, the top bit of a word comes off and leaves the rest. A generic frame at the front of any octets
  is read back (`GenericComesBack`), and a part of one is refused. Then each of the ten types both ways. What its constructor takes is
  read back as it was (`Returns`, `TypedComesBack`; `AsRead` is HEADERS whose priority was not whole); where padding, priority and fragment
  share the payload, `PaddedGeneric` says that each is found where it was put. What `from_h2frame` takes, padding of
  any octets included, is written in as many octets as it came in (`Stands`, `ValidStands`). `InStep` is the machine's invariant: the parser stands at
  the end of one of the frames that were built, those before it are in `frames`, and it raises inside the next one. The runs'
  properties are not inductive without it: that the octets parsed are those consumed says nothing of where the parser stands in
  what was built. With it `FramesAreTheOctets`, `OnlyTheTornIsRefused`, `TheBuiltComeBack` and `TheSpecializedStay`.
- `ReplProofs` (`ReplAssumption`, `StatementAssumption`). A line splits into commands, lists of tokens, by following
  `list_split` token by token. `IInv` says what is so while a command waits for servers: that it is still that
  command (`Waiting`), and that all strands in `cwd` are of this pipeline and of no later stage (`CwdIsHere`). With it
  `SessionsEndForAReason`: a call raises what it may raise (`Failing`), nothing of parsing if the command does not
  parse; that an H2Error has its cause among the tokens follows the parser of `h2frames`
  through the statement. `RInv` follows the pieces: each has been through what the commands since it was made
  named and through the transducers asked so far (`CwdHasBeen`, `SentHasBeen`), and gives `SentAsThePipelineSays`.
  `SInv` follows the answers: those of a call under way are at the places of their servers (`CallFits`), and those in
  `cwd` were gathered by a command of this pipeline from the servers that it lists, or are the nothing of a
  transducer (`AnswersGathered`). It gives `AnswersUnderOwnNames`, for every step that shows answers.
  `FramesAreMade` follows the parser through what `Written` makes of the wanted frames: each clause takes it from where a
  clause may begin to there again and sets one field (`OneToken`, `LeadsByTwo`), so each frame adds
  itself and the whole statement the whole list (`WrittenRead`); `FInv` keeps the frames in `cwd` until the next
  command. It assumes that the wanted frames can be sent (`Writable`) and that no word of the statement is a number.
- `ResponsesProofs` (`ResponsesAssumption`). `TypeCorrect`, `BodiesRelayed`, `AnswersAreDisjoint` and `AnswersAreReported`. The
  invariant relates the list to `at`: nothing reported lies at or behind `at`, what was parsed
  before it is in the list but for a request over HTTP/0.9, and as long as a transducer has met no bytes that do not parse its
  list and `at` move together.
- `InductionLemmas` holds what the others rest on. The library states induction for a predicate that is a
  parameter, which the provers do not instantiate, so `SetInduction` states it for a set of numbers, and a
  proof takes the numbers up to n, or their subset, for which its claim holds. By it a recursive function
  exists and is unique (`RecursionExists`, `ScanExists`): without that, nothing follows from its definition. `FlattenAppend` is
  about `FlattenSeq`, and `RanksPermute` about sorting by rank, which is how the models sort: `Rank` counts the
  entries that come no later, and is a permutation. `FlatGrows` and `CutPiece` are about pieces that were put one behind the other
  and cut off anywhere: what follows a number of whole pieces begins with the next one, or is a part of it.

So that they can be reasoned about, the modules that are proved about have recursive functions and no
`RECURSIVE` operator, pick from a sequence by `FlattenSeq` of singletons and empty sequences instead of
`SelectSeq`, and sort by rank.

Only checked by TLC: liveness under fairness, which is beyond the prover; and all of `Quirks` and `Mutations`.
What `Quirks` promises is what a fixed list of probes finds out about a fixed list of ways to differ, and that the
rules of `diff.py` then excuse the answers to a fixed list of payloads: a proof would go through the combinations
of the three one by one, as TLC does. `Mutations` compares what a mutation makes with what a parser makes of it, and that
parser goes on by recursion over the lines of a text.

## Findings

1. `targets.py:248`: after one response that parsed, bytes that do not parse make
   `Transducer.unparsed_roundtrip` append the same body for ever (`responses_stale`).
2. `diff.py:42`: sorting the caller's headers makes a later comparison report duplicates that a
   server joined in their original order (`grid_joined`).
3. `diff.py:82`: the mirrored HTTP/0.9 excuse asks `s2` again instead of `s1`, so that a request that only the
   server named second takes as HTTP/0.9 is shown as a discrepancy (`quirks_09`); hence the precondition of
   `SymmetricGrid`.

Found on the way, and stated in a property as what the code does:

4. `probe_quirks.py:1-3` says that quirks are detected "so that they can later be ignored", `:311` that
   "these benign discrepancies can be ignored". Five are reported all the same (`ReportedAllTheSame`): the version of a server
   that answers every request with its own (recorded at `:265`, and no comparison looks at it); `requires-alphabetical-method`
   (recorded at `:279`, never loaded by `targets.py:131-145`); HTTP/0.9 refused with another code than 400, which
   `allows_http_0_9` takes for an acceptance (`:69`); HTTP/0.9 accepted by a server that reports no versions; and a header
   that a server adds under a name that it renames, recorded under the new name, which `diff.py` renames again.
5. `probe_quirks.py:102-106`: a server that closes without a byte is recorded as allowing HTTP/2 (`RecordedAsItIs`).
6. `targets.py:197-199`: a request that was parsed over HTTP/0.9 is dropped, for the `break` is in front of the append, and
   with it nothing is printed either (`Dropped`, `NoAnswerLost`).
7. `http1.py:258` says "Raises ValueError on failure", and the callers catch that. A body that is said to be gzip and is not
   raises `BadGzipFile`, `EOFError` or `zlib.error` (`:301`), a chunk size larger than `re` repeats an `OverflowError` (`:287`).
   `parsed_roundtrip` then loses all answers it had collected (`NoAnswerLost`), a fanout those of all
   other servers (`Implements`), and the REPL ends (`repl.py:345`, `:355`, `EndsOnlyFor`).
8. `mutations.py:226-227`: a boundary that is shifted leaves the two streams swapped, for both halves are inserted at the same
   place with the first half first; `:238-239`, for a split, insert them the other way (`OneChange`).

Other places where the code does not do what is said beside it, or does what its caller will not
expect. The modules model them as they are; no run is about them alone.

- `probe_quirks.py:327-334`: with a server in `quirks.yml` that wants its own Host, a second
  `garden.sh probe_quirks` fails its own sanity check, for the probe itself was adjusted.
- `repl.py:364-365`: after `h2fanout` the answers stand under the names of all that were given, also of those that
  were not asked; `grid` and `cluster` name them by their own text (`:331`, `:338`). `ShownUnderOwnName` states the
  cases.
- `repl.py:126`: names of transducers pass `validate_server_names`, and `ORIGIN_DICT[s]` then raises a KeyError that
  ends the session; so does the H2Error of a stream identifier beyond 31 bits (`:282`).
- `mutations.py:172`: an inserted header takes the place of the one at `idx`; the comment above says "You can
  insert in n + 1 places".
- `mutations.py:123`: the trailer that `_randomly_chunk` appends is an error to `parse_body` (`http1.py:286-291`), so that no
  header of such a request can be mutated again. A body that was read unpacked is written unpacked
  under `Content-Encoding: gzip`, and the next mutation of a header raises `BadGzipFile`.
- `http2.py:254`: the comparisons of `check_priority` are chained, so that it lets two of three values pass.
- `http2.py:329`: `specialize` catches `H2Error` alone; a pad length beyond the payload fails an assertion of
  `bslice` instead, which ends `parse_frames`.
- `hpack.py:520`: a parsed string has the number of its decoded octets for a length, with which
  `to_bytes` writes a compressed string that does not parse.
- `echo_server.py:102`, `:120`, `:159`: a stream whose headers end in a CONTINUATION is not answered; after a peer's FIN
  the HTTP/2 loop never ends; one failed handshake ends the accept loop.

## Not modelled

Bytes, wording and layout are abstracted throughout: a parser's verdict
on a unit is a field of the unit, but in `Http2Frames` and `Hpack`, which are about octets, and `Mutations`, about
lines. `parse_response_json` and the formatting of answers are conversions without a state.
The extraction of services is modelled as far as it decides who is an origin or a transducer and with
which quirks; reading Docker and YAML is not, nor is `shlex`, which gives `Type` its tokens. `normalize_grid` and
`validate_origin_names` have no caller. The maintenance scripts are left out; the servers under `images/` are the programs under test.

## Plan

What is left, in this order:

1. Proofs of `Mutations`, as far as they do not follow the parser: a boundary that is moved keeps the text.
2. `HTTP1Framing` (`http1.py`): responses cut by Content-Length and chunks, against a reference that says
   where one ends; with it, the verdicts that `Responses` takes from its units.
