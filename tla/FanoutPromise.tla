--------------------------- MODULE FanoutPromise ----------------------------
(***************************************************************************)
(* What fanout promises the REPL and the prober: each server is asked for  *)
(* itself, and the caller gets either every server's answer, listed in the *)
(* order it named the servers, or one server's exception and nothing else, *)
(* and only when nobody is still talking to a server.  A server is known   *)
(* by its place in the caller's list.                                      *)
(***************************************************************************)
EXTENDS Naturals, Sequences

CONSTANT Answers    \* the answers a server may give

VARIABLES
    called,         \* how many servers the caller listed
    parses,         \* whether it wants their answers parsed
    outcome,        \* each server's: <<>>, <<"ok", a>> or <<"raise", why>>
    working,        \* the servers being talked to
    returned        \* what the caller got: <<>>, <<"ok", as>> or <<"raise", why>>

fvars == <<called, parses, outcome, working, returned>>

(* A server that cannot be talked to, and an answer whose parsing raises   *)
(* something that the loops over it do not catch: they catch ValueError.   *)
MayRaise == {"OSError"} \cup (IF parses THEN {"ParseError"} ELSE {})

Asked == 1..called

FInit ==
    /\ outcome = [s \in Asked |-> <<>>]
    /\ working = {}
    /\ returned = <<>>

Ask(s) ==
    /\ returned = <<>> /\ outcome[s] = <<>> /\ s \notin working
    /\ working' = working \cup {s}
    /\ UNCHANGED <<called, parses, outcome, returned>>

SettleAs(s, o) ==
    /\ s \in working
    /\ outcome' = [outcome EXCEPT ![s] = o]
    /\ working' = working \ {s}
    /\ UNCHANGED <<called, parses, returned>>

Settle(s) ==
    \/ \E why \in MayRaise : SettleAs(s, <<"raise", why>>)
    \/ /\ SettleAs(s, outcome'[s])
       /\ Len(outcome'[s]) = 2 /\ outcome'[s][1] = "ok"
       /\ outcome'[s][2] \in Answers

Return ==
    /\ returned = <<>> /\ working = {}
    /\ \/ /\ \A s \in Asked : outcome[s] # <<>> /\ outcome[s][1] = "ok"
          /\ returned' = <<"ok", [s \in Asked |-> outcome[s][2]]>>
       \/ \E s \in Asked, why \in MayRaise :
            outcome[s] = <<"raise", why>> /\ returned' = <<"raise", why>>
    /\ UNCHANGED <<called, parses, outcome, working>>

FNext == Return \/ \E s \in Asked : Ask(s) \/ Settle(s)

FanoutSpec == FInit /\ [][FNext]_fvars
=============================================================================
