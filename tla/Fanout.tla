------------------------------- MODULE Fanout -------------------------------
(***************************************************************************)
(* fanout.py and util.py's eager_pmap: the roundtrips of Roundtrip, run by *)
(* a pool of threads.  The pool is Python's multiprocessing.pool, modelled *)
(* from how eager_pmap uses it: map cuts the servers into chunks, a thread *)
(* runs the items of its chunk in order, an exception ends the chunk, and  *)
(* the caller wakes when every chunk has reported.                         *)
(***************************************************************************)
EXTENDS Roundtrip

CONSTANTS
    Workers,        \* cpu_count() threads
    ChunkSize       \* the servers per thread and 4, rounded up

ASSUME FanoutAssumption == ChunkSize \in Nat \ {0}

VARIABLES
    taken,      \* chunks taken from the task queue
    at,         \* the server each worker is at, 0 when it has no chunk
    reported,   \* chunks that have reported
    value,      \* the slices reported: server -> <<>> or <<pieces>>
    failure,    \* the first exception reported: <<>> or <<its server>>
    returned    \* what map gave its caller

poolvars == <<taken, at, reported, value, failure, returned>>
fovars == <<rtvars, poolvars>>

Places == 1..call.servers
Chunk(i) == (i - 1) \div ChunkSize
Chunks == {Chunk(i) : i \in Places}
LastOfChunk(i) == i + 1 \notin Places \/ Chunk(i + 1) # Chunk(i)

Init ==
    /\ RTInit
    /\ taken = 0
    /\ at = [w \in Workers |-> 0]
    /\ reported = 0
    /\ value = [i \in Places |-> <<>>]
    /\ failure = <<>>
    /\ returned = <<>>

TakeChunk(w) ==
    /\ at[w] = 0 /\ taken \in Chunks
    /\ LET i == taken * ChunkSize + 1
       IN  at' = [at EXCEPT ![w] = i] /\ Begin(i)
    /\ taken' = taken + 1
    /\ UNCHANGED <<reported, value, failure, returned>>

Finished(w, ends) == at[w] # 0 /\ pc[at[w]] \in ends

NextItem(w) ==
    /\ Finished(w, Returned) /\ ~LastOfChunk(at[w])
    /\ at' = [at EXCEPT ![w] = @ + 1]
    /\ Begin(at[w] + 1)
    /\ UNCHANGED <<taken, reported, value, failure, returned>>

(* Wrong: a chunk's answers are put back last first. *)
SliceReversed(c, slice) ==
    [i \in Places |-> IF Chunk(i) = c THEN <<Reverse(slice)[i - c * ChunkSize]>>
                                      ELSE value[i]]

Slice(c, slice) ==
    [i \in Places |-> IF Chunk(i) = c THEN <<slice[i - c * ChunkSize]>> ELSE value[i]]

ReportChunk(w) ==
    /\ Finished(w, Returned) /\ LastOfChunk(at[w])
    /\ LET c == Chunk(at[w])
       IN  value' = IF failure # <<>> THEN value
                    ELSE Slice(c, [k \in 1..(at[w] - c * ChunkSize) |->
                                    result[c * ChunkSize + k]])
    /\ at' = [at EXCEPT ![w] = 0]
    /\ reported' = reported + 1
    /\ UNCHANGED <<rtvars, taken, failure, returned>>

(* Wrong: a chunk that failed is not counted among the reports. *)
FailureUncounted(w) ==
    /\ Finished(w, Raised)
    /\ failure' = IF failure = <<>> THEN <<at[w]>> ELSE failure
    /\ at' = [at EXCEPT ![w] = 0]
    /\ UNCHANGED <<rtvars, taken, reported, value, returned>>

ReportFailure(w) ==
    /\ Finished(w, Raised)
    /\ failure' = IF failure = <<>> THEN <<at[w]>> ELSE failure
    /\ reported' = reported + 1
    /\ at' = [at EXCEPT ![w] = 0]
    /\ UNCHANGED <<rtvars, taken, value, returned>>

Exception(end) == IF end = "unparsable" THEN "ParseError" ELSE "OSError"

(* map returns the list or raises the first exception. *)
MapReturns ==
    /\ returned = <<>> /\ reported = Cardinality(Chunks)
    /\ returned' = IF failure = <<>>
                     THEN <<"ok", [i \in Places |-> value[i][1]]>>
                     ELSE <<"raise", Exception(pc[failure[1]])>>
    /\ UNCHANGED <<rtvars, taken, at, reported, value, failure>>

Work(w) == TakeChunk(w) \/ NextItem(w) \/ ReportChunk(w) \/ ReportFailure(w)

Exchange(s) == (Client(s) \/ Peer(s)) /\ UNCHANGED poolvars

Next ==
    \/ \E w \in Workers : Work(w)
    \/ \E s \in Servers : Exchange(s)
    \/ MapReturns

(* Threads are scheduled fairly; timeouts fire and the operating system    *)
(* gives up on a connect, so each step of the client is taken in the end,  *)
(* save a handshake the server does not answer.  Parsing comes to its end. *)
Fairness ==
    /\ \A w \in Workers : WF_fovars(Work(w))
    /\ \A s \in Servers :
         WF_fovars((Connect(s) \/ Send(s) \/ Recv(s) \/ RecvallEnds(s) \/ Parse(s))
                     /\ UNCHANGED poolvars)
    /\ WF_fovars(MapReturns)

Spec == Init /\ [][Next]_fovars
FairSpec == Spec /\ Fairness
-----------------------------------------------------------------------------
Busy == {s \in Servers : pc[s] \in {"connect", "handshake"} \cup Talking \cup Received}

(* The refinement: how the state of the pool shows as outcomes. *)
Outcome(s) ==
    CASE pc[s] \in Returned -> <<"ok", result[s]>>
      [] pc[s] \in Raised -> <<"raise", Exception(pc[s])>>
      [] OTHER -> <<>>

Outcomes == [s \in Places |-> Outcome(s)]

Promise == INSTANCE FanoutPromise WITH
    outcome <- Outcomes,
    called <- call.servers,
    parses <- call.parses,
    working <- Busy,
    Answers <- Seq(Seq(Nat))

(* fanout keeps FanoutPromise: the list is in the caller's order however   *)
(* the chunks finish, and one server's exception, be it of talking to it   *)
(* or of parsing what it said, discards all the others' answers but        *)
(* interrupts none of them (util.py:74-76, fanout.py:13, 20).              *)
Implements == Promise!FanoutSpec

(* Unless a server leaves a thread waiting in its TLS handshake for ever,  *)
(* the caller gets an answer: every chunk is reported, failed ones too.    *)
FanoutEnds ==
    (\A s \in Servers : []<>(pc[s] # "handshake")) => <>(returned # <<>>)
=============================================================================
