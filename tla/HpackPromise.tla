---------------------------- MODULE HpackPromise ----------------------------
(***************************************************************************)
(* What an HPACK decoder promises: the headers of a field block are those  *)
(* its fields denote, one after the other, in one index space of the       *)
(* static table and, behind it, the dynamic table with its newest entry    *)
(* first.  The dynamic table makes room before an entry comes in: of the   *)
(* old entries it keeps the newest that still fit beside it, and an entry  *)
(* that is larger than the whole table empties it.                         *)
(***************************************************************************)
EXTENDS Naturals, Sequences

CONSTANTS StaticTable, MaxCapacity, EntrySize(_)

VARIABLES
    fields,     \* those of the block that are still to be decoded
    headers,    \* the headers decoded from it
    table,      \* the dynamic table
    capacity

pvars == <<fields, headers, table, capacity>>

PInit == fields = <<>> /\ headers = <<>> /\ table = <<>> /\ capacity = MaxCapacity

PSize(t) ==
    LET S[n \in 0..Len(t)] == IF n = 0 THEN 0 ELSE S[n - 1] + EntrySize(t[n])
    IN  S[Len(t)]

(* The newest entries of t that fit into the room there is. *)
Newest(t, room) ==
    LET fitting == {n \in 0..Len(t) : PSize(SubSeq(t, 1, n)) <= room}
    IN  SubSeq(t, 1, CHOOSE n \in fitting : \A m \in fitting : m <= n)

Inserted(h) ==
    IF EntrySize(h) > capacity THEN <<>>
    ELSE <<h>> \o Newest(table, capacity - EntrySize(h))

IndexSpace == StaticTable \o table

Decode(h, cached) ==
    /\ fields # <<>> /\ fields' = Tail(fields)
    /\ headers' = Append(headers, h)
    /\ table' = IF cached THEN Inserted(h) ELSE table
    /\ UNCHANGED capacity

DecodeField ==
    LET f == Head(fields)
    IN  \/ /\ f.kind = "indexed" /\ f.index \in DOMAIN IndexSpace
           /\ Decode(IndexSpace[f.index], FALSE)
        \/ /\ f.kind = "partial" /\ f.index \in DOMAIN IndexSpace
           /\ Decode(<<IndexSpace[f.index][1], f.val>>, f.prop = "CACHED")
        \/ /\ f.kind = "literal"
           /\ Decode(<<f.key, f.val>>, f.prop = "CACHED")

Resize ==
    /\ Head(fields).kind = "resize" /\ Head(fields).size <= MaxCapacity
    /\ fields' = Tail(fields)
    /\ capacity' = Head(fields).size
    /\ table' = Newest(table, capacity')
    /\ UNCHANGED headers

(* An index nobody gave out, or a table larger than allowed. *)
Refuse ==
    /\ \/ /\ Head(fields).kind \in {"indexed", "partial"}
          /\ Head(fields).index \notin DOMAIN IndexSpace
       \/ Head(fields).kind = "resize" /\ Head(fields).size > MaxCapacity
    /\ fields' = <<>> /\ headers' = <<>> /\ capacity' \in Nat
    /\ UNCHANGED table

Begin == fields = <<>> /\ headers = <<>> /\ UNCHANGED <<headers, table, capacity>>

Deliver == fields = <<>> /\ headers' = <<>> /\ UNCHANGED <<fields, table, capacity>>

PNext ==
    \/ Begin \/ Deliver
    \/ fields # <<>> /\ (DecodeField \/ Resize \/ Refuse)

HpackPromiseSpec == PInit /\ [][PNext]_pvars
=============================================================================
