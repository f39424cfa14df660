-------------------------------- MODULE Grid --------------------------------
(***************************************************************************)
(* tools/grid.py: the REPL's `grid` and `cluster`, which compare the       *)
(* parsed answers of a line-up of servers pair by pair.  One action is one *)
(* call of categorize_discrepancy with the loop steps around it.           *)
(*                                                                         *)
(* The loops share the answers: normalize_request sorts the headers of the *)
(* caller's own request when it had no reason to copy it (diff.py:42), so  *)
(* one comparison may change what a later one reads.                       *)
(***************************************************************************)
EXTENDS Diff

CONSTANT
    Lineups     \* sequences of a server and the answers parsed from it

(* What http1.py parses an answer to. *)
Requests == [kind : {"request"}, valid : BOOLEAN, method : STRING, version : STRING,
             content : STRING, headers : [Names -> Seq(Seq(Int))]]
Responses == [kind : {"response"}, code : Nat]

ASSUME GridAssumption ==
    \A l \in Lineups : /\ l \in Seq(Range(l))
                       /\ \A i \in DOMAIN l : l[i].pts \in Seq(Requests \cup Responses)

VARIABLES
    lineup,     \* the servers and what each said
    command,    \* "grid" or "cluster"
    pts,        \* the answers in memory
    grid,       \* the verdicts so far, "None" elsewhere
    cell,       \* the next cell of the grid
    clusters,   \* the clusters so far, as sequences of places in the line-up
    search      \* the server to be placed and how far its search has come

vars == <<lineup, command, pts, grid, cell, clusters, search>>

Places == DOMAIN lineup
Quirks(i) == lineup[i].server
Said(i) == lineup[i].pts

SearchFor(k) == [server |-> k, group |-> 1, member |-> 1, verdict |-> "OK"]

Init ==
    /\ lineup \in Lineups
    /\ command \in {"grid", "cluster"}
    /\ pts = [i \in Places |-> Said(i)]
    /\ grid = [i \in Places |-> [j \in Places |-> "None"]]
    /\ cell = <<1, 1>>
    /\ clusters = <<>>
    /\ search = SearchFor(1)

(* Wrong: duplicates are joined in the caller's request.                   *)
JoinedInPlace(r) == [r EXCEPT !.headers = [n \in Names |-> Joined(@[n], 0)]]

(* list.sort on (name, value) pairs, values being compared like words in a *)
(* dictionary: a value's place is the number of those of its name that     *)
(* come no later.                                                          *)
Before(v, w) ==
    \E k \in 1 .. Len(w) :
        /\ k <= Len(v) + 1 /\ \A l \in 1 .. k - 1 : v[l] = w[l]
        /\ k = Len(v) + 1 \/ v[k] < w[k]

NoLater(values, j, i) ==
    Before(values[j], values[i]) \/ (values[j] = values[i] /\ j <= i)

Rank(values, i) == Cardinality({j \in DOMAIN values : NoLater(values, j, i)})

Sorted(values) ==
    [k \in DOMAIN values |-> values[CHOOSE i \in DOMAIN values : Rank(values, i) = k]]

SortedRequest(r) == [r EXCEPT !.headers = [n \in Names |-> Sorted(@[n])]]

SortedAt(list, places) ==
    [p \in DOMAIN list |-> IF p \in places THEN SortedRequest(list[p]) ELSE list[p]]

Verdict(i, j) == CategorizeDiscrepancy(pts[i], pts[j], Quirks(i), Quirks(j))

(* What a call of categorize_discrepancy leaves of its arguments.          *)
Comparing(i, j) ==
    LET read == Normalized(pts[i], pts[j], Quirks(i), Quirks(j))
        sorted(k) == \/ k = i /\ SortsInPlace(Quirks(i), Quirks(j))
                     \/ k = j /\ SortsInPlace(Quirks(j), Quirks(i))
    IN  pts' = [k \in Places |-> IF sorted(k) THEN SortedAt(pts[k], read) ELSE pts[k]]

-----------------------------------------------------------------------------
(* generate_grid: the cells on and above the diagonal, row by row.         *)
GridStep ==
    LET i == cell[1]
        j == cell[2]
    IN  /\ command = "grid" /\ i \in Places
        /\ grid' = [grid EXCEPT ![i][j] = Verdict(i, j)]
        /\ Comparing(i, j)
        /\ cell' = IF j < Len(lineup) THEN <<i, j + 1>> ELSE <<i + 1, i + 1>>
        /\ UNCHANGED <<lineup, command, clusters, search>>

(* generate_clusters: server k joins the first cluster with all of whose   *)
(* members it has verdict OK, or with all of whose members INVALID; both   *)
(* all() stop at the first member with another verdict.                    *)
Searching == command = "cluster" /\ search.server \in Places
Group == clusters[search.group]
Hit == Verdict(search.server, Group[search.member]) = search.verdict

NextMember ==
    /\ Searching /\ search.group \in DOMAIN clusters
    /\ Hit /\ search.member < Len(Group)
    /\ search' = [search EXCEPT !.member = @ + 1]
    /\ Comparing(search.server, Group[search.member])
    /\ UNCHANGED <<lineup, command, grid, cell, clusters>>

(* Wrong: a cluster is joined on agreement with one of its members.        *)
JoinGroupOfOne ==
    /\ Searching /\ search.group \in DOMAIN clusters /\ Hit
    /\ clusters' = [clusters EXCEPT ![search.group] = Append(@, search.server)]
    /\ search' = SearchFor(search.server + 1)
    /\ Comparing(search.server, Group[search.member])
    /\ UNCHANGED <<lineup, command, grid, cell>>

(* Wrong: no break, the search goes on to the next cluster.                *)
JoinGroupAndGoOn ==
    /\ Searching /\ search.group \in DOMAIN clusters
    /\ Hit /\ search.member = Len(Group)
    /\ clusters' = [clusters EXCEPT ![search.group] = Append(@, search.server)]
    /\ search' = [search EXCEPT !.group = @ + 1, !.member = 1, !.verdict = "OK"]
    /\ Comparing(search.server, Group[search.member])
    /\ UNCHANGED <<lineup, command, grid, cell>>

JoinGroup ==
    /\ Searching /\ search.group \in DOMAIN clusters
    /\ Hit /\ search.member = Len(Group)
    /\ clusters' = [clusters EXCEPT ![search.group] = Append(@, search.server)]
    /\ search' = SearchFor(search.server + 1)
    /\ Comparing(search.server, Group[search.member])
    /\ UNCHANGED <<lineup, command, grid, cell>>

TryInvalid ==
    /\ Searching /\ search.group \in DOMAIN clusters
    /\ ~Hit /\ search.verdict = "OK"
    /\ search' = [search EXCEPT !.member = 1, !.verdict = "INVALID"]
    /\ Comparing(search.server, Group[search.member])
    /\ UNCHANGED <<lineup, command, grid, cell, clusters>>

(* Wrong: a server not in the first cluster founds one of its own.         *)
NextGroupGivesUp ==
    /\ Searching /\ search.group \in DOMAIN clusters
    /\ ~Hit /\ search.verdict = "INVALID"
    /\ search' = [search EXCEPT !.group = Len(clusters) + 1]
    /\ Comparing(search.server, Group[search.member])
    /\ UNCHANGED <<lineup, command, grid, cell, clusters>>

NextGroup ==
    /\ Searching /\ search.group \in DOMAIN clusters
    /\ ~Hit /\ search.verdict = "INVALID"
    /\ search' = [search EXCEPT !.group = @ + 1, !.member = 1, !.verdict = "OK"]
    /\ Comparing(search.server, Group[search.member])
    /\ UNCHANGED <<lineup, command, grid, cell, clusters>>

NewGroup ==
    /\ Searching /\ search.group \notin DOMAIN clusters
    /\ clusters' = Append(clusters, <<search.server>>)
    /\ search' = SearchFor(search.server + 1)
    /\ UNCHANGED <<lineup, command, pts, grid, cell>>

Next == GridStep \/ NextMember \/ JoinGroup \/ TryInvalid \/ NextGroup \/ NewGroup

Spec == Init /\ [][Next]_vars

Finished == IF command = "grid" THEN cell[1] \notin Places ELSE search.server \notin Places

-----------------------------------------------------------------------------
(* A place in a cluster, and the server that has it. *)
Seats == UNION {{<<g, m>> : m \in DOMAIN clusters[g]} : g \in DOMAIN clusters}
Seated(p) == clusters[p[1]][p[2]]

(* The verdicts are ErrorTypes, on and above the diagonal only; clusters   *)
(* hold the servers placed so far, each once.                              *)
GridTypeOK ==
    /\ \A i, j \in Places : grid[i][j] \in IF i <= j THEN ErrorTypes \cup {"None"} ELSE {"None"}
    /\ \A g \in DOMAIN clusters : clusters[g] # <<>>
    /\ UNION {ToSet(clusters[g]) : g \in DOMAIN clusters} = 1 .. search.server - 1
    /\ \A p, q \in Seats : Seated(p) = Seated(q) => p = q

NobodyJoins == \A i \in Places : ~Quirks(i).joins

VerdictOnWhatWasSaid(i, j) ==
    CategorizeDiscrepancy(Said(i), Said(j), Quirks(i), Quirks(j))

(* Neither of two servers joins duplicate headers: their order decides no  *)
(* verdict on the two.                                                     *)
KeepApart(i, j) == ~Quirks(i).joins /\ ~Quirks(j).joins

(* The cell of two servers that do not join duplicate headers is the       *)
(* verdict on what the two said: no earlier comparison, of these or other  *)
(* servers, has a say in it (grid.py:17).                                  *)
GridJudgesWhatWasSaid ==
    \A i, j \in Places :
        KeepApart(i, j) => grid[i][j] \in {"None", VerdictOnWhatWasSaid(i, j)}

(* generate_grid need not compute the triangle below the diagonal          *)
(* (grid.py:14): the mirrored cell, compared at any later moment over the  *)
(* answers as the comparisons up to then have sorted them in place, would  *)
(* be the cell above.  Two exceptions: a server that joins duplicate       *)
(* headers is sensitive to the sort, and HTTP/0.9 refused by one server of *)
(* two is excused one way round only (diff.py:82).                         *)
SymmetricGrid ==
    \A i, j \in Places :
        /\ i < j /\ grid[i][j] # "None"
        /\ KeepApart(i, j) /\ Quirks(i).allows09 = Quirks(j).allows09
        => Verdict(j, i) = grid[i][j]

Shown(verdict) == verdict \in {"OK", "RESPONSE_DISCREPANCY"}

Rejects(list) == \A p \in DOMAIN list : IsResponse(list[p]) /\ list[p].code # 200

(* Servers that rejected all of the payload, by whatever code or by saying *)
(* nothing, are shown as agreeing (README.md:119-121, repl.py:87).         *)
RejectionsShownAsAgreement ==
    \A i, j \in Places :
        Rejects(Said(i)) /\ Rejects(Said(j)) /\ grid[i][j] # "None" => Shown(grid[i][j])

AllValid(i) == \A p \in DOMAIN Said(i) : ~Invalid(Said(i)[p])

(* Servers of one cluster whose answers are valid agree with each other,   *)
(* not only with a representative of the cluster (grid.py:26).             *)
ClusterAgrees ==
    NobodyJoins =>
        \A g \in DOMAIN clusters : \A m, k \in DOMAIN clusters[g] :
            LET i == clusters[g][m]
                j == clusters[g][k]
            IN  m < k /\ AllValid(i) /\ AllValid(j) => VerdictOnWhatWasSaid(j, i) = "OK"

(* Servers with the same quirks and the same answer share a cluster, when  *)
(* no answer of the line-up is invalid and the verdicts are symmetric: an  *)
(* invalid one joins a cluster of valid ones (grid.py:27) and bars it to   *)
(* their like, an HTTP/0.9 answer is excused one way round only.           *)
TwinsShareACluster ==
    /\ NobodyJoins /\ Finished /\ command = "cluster"
    /\ \A i, j \in Places : AllValid(i) /\ Quirks(i).allows09 = Quirks(j).allows09
    => \A i, j \in Places : lineup[i] = lineup[j] =>
            \E g \in DOMAIN clusters : {i, j} \subseteq ToSet(clusters[g])

-----------------------------------------------------------------------------
(* What a comment says of the comparison, of servers whose answers are one *)
(* element long.                                                           *)

AsOne(i) == Len(Said(i)) = 1
Decided(i, j) == i < j /\ grid[i][j] # "None"

(* probe_quirks.py:311: quirks.yml is there "so that these benign          *)
(* discrepancies can be ignored", of a server that joins duplicate headers *)
(* in the order they came and one that keeps them apart in that order.     *)
JoinedDuplicatesIgnored ==
    \A i, j \in Places : Decided(i, j) /\ AsOne(i) /\ AsOne(j) =>
        LET ri == Said(i)[1]
            rj == Said(j)[1]
            joined == [n \in Names |-> Joined(ri.headers[n], Quirks(j).joiner)]
        IN  (/\ IsRequest(ri) /\ ri.valid
             /\ rj = [ri EXCEPT !.headers = joined]
             /\ ~Quirks(i).joins /\ Quirks(j) = [Quirks(i) EXCEPT !.joins = TRUE])
            => grid[i][j] = "OK"
=============================================================================
