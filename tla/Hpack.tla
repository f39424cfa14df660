------------------------------- MODULE Hpack --------------------------------
(***************************************************************************)
(* tools/hpack.py: header compression.  A program writes a block of        *)
(* fields; another receives the octets, or as many of them as came in      *)
(* time, parses them into fields (parse_field_block) and lets an           *)
(* HPACKState turn these into headers (process_field_block), by way of its *)
(* dynamic table, which later blocks refer to.                             *)
(*                                                                         *)
(* An octet is a number below 256, a name or a value a sequence of octets, *)
(* a bit 0 or 1.  The static table and the Huffman code are parameters.    *)
(***************************************************************************)
EXTENDS Integers, SequencesExt

CONSTANTS
    StaticTable,    \* STATIC_TABLE, a sequence of headers
    Codewords,      \* HUFFMAN_CODEWORDS by code point, the last one is EOS
    MaxCapacity,    \* max_table_capacity
    Blocks          \* the field blocks a program may write

EOS == CHOOSE c \in DOMAIN Codewords : \A d \in DOMAIN Codewords : d <= c
CodePoints == DOMAIN Codewords \ {EOS}

Octet == 0..255
Bit == {0, 1}
Header == {h \in Seq(Seq(Octet)) : Len(h) = 2}
Props == {"CACHED", "UNCACHED", "VERBATIM"}

AtMostOne(S) == {s \in Seq(S) : Len(s) <= 1}    \* an option, <<>> for None

WrittenInt == [val : Nat, padding : Nat]
WrittenString ==
    {s \in [data : Seq(Octet), compressed : BOOLEAN,
            length : AtMostOne(Nat), padding : AtMostOne(Seq(Bit))] :
        s.compressed => s.data \in Seq(CodePoints)}
WrittenField ==
    [kind : {"indexed"}, index : WrittenInt]
        \cup [kind : {"partial"}, index : WrittenInt, val : WrittenString, prop : Props]
        \cup [kind : {"literal"}, key : WrittenString, val : WrittenString, prop : Props]
        \cup [kind : {"resize"}, size : WrittenInt]

(* No codeword begins another, and the bits of EOS are the padding.        *)
ASSUME HpackAssumption ==
    /\ MaxCapacity \in Nat /\ StaticTable \in Seq(Header) /\ Blocks \subseteq Seq(WrittenField)
    /\ EOS \in 1..256 /\ Codewords \in [0..EOS -> Seq(Bit)]
    /\ \A c, d \in 0..EOS : IsPrefix(Codewords[c], Codewords[d]) => c = d
    /\ Len(Codewords[EOS]) > 7 /\ \A i \in DOMAIN Codewords[EOS] : Codewords[EOS][i] = 1

From(d, n) == SubSeq(d, n + 1, Len(d))

(* A parser returns <<>> for an HPACKError and <<r>> for a result r, which *)
(* goes on to the rest of the parser.                                      *)
Then(result, Go(_)) == IF result = <<>> THEN <<>> ELSE Go(result[1])

-----------------------------------------------------------------------------
(* HPACKInt: i.val behind a prefix octet, and i.padding octets of zeros.   *)
(* to_bytes refuses to pad a value that fits the prefix; Blocks have none. *)

Mask(prefix_len) == 2^prefix_len - 1

Digits[v \in Nat] ==
    IF v < 128 THEN <<v>> ELSE <<128 + (v % 128)>> \o Digits[v \div 128]

Padded(digits, padding) ==
    IF padding = 0 THEN digits
    ELSE [digits EXCEPT ![Len(digits)] = @ + 128]
            \o [n \in 1..padding |-> IF n = padding THEN 0 ELSE 128]

IntBytes(i, prefix_len, preprefix) ==
    LET first == preprefix * 2^prefix_len
    IN  IF i.val < Mask(prefix_len) THEN <<first + i.val>>
        ELSE <<first + Mask(prefix_len)>>
                \o Padded(Digits[i.val - Mask(prefix_len)], i.padding)

(* Seven bits an octet, the lowest first: the last k octets stand for V[k]. *)
Value(octets) ==
    LET m == Len(octets)
        V[k \in 0..m] == IF k = 0 THEN 0 ELSE (octets[m - k + 1] % 128) + 128 * V[k - 1]
    IN  V[m]

(* The octets behind the prefix, of which the first below 128 is the last. *)
LongInt(d, first, ends) ==
    IF ends = {} THEN <<>>
    ELSE <<[val |-> first + Value(SubSeq(d, 2, Min(ends))), rest |-> From(d, Min(ends))]>>

(* Wrong: what the prefix stands for is not added to the rest. *)
ParseIntAfresh(d, prefix_len) ==
    IF d[1] % 2^prefix_len # Mask(prefix_len)
    THEN <<[val |-> d[1] % 2^prefix_len, rest |-> Tail(d)]>>
    ELSE LongInt(d, 0, {n \in 2..Len(d) : d[n] < 128})

(* _parse_hpack_int of data that is not empty. *)
ParseInt(d, prefix_len) ==
    IF d[1] % 2^prefix_len # Mask(prefix_len)
    THEN <<[val |-> d[1] % 2^prefix_len, rest |-> Tail(d)]>>
    ELSE LongInt(d, Mask(prefix_len), {n \in 2..Len(d) : d[n] < 128})

-----------------------------------------------------------------------------
(* HPACKString: s.data, s.compressed, and two options, <<>> for None: the  *)
(* length to announce and the padding bits.                                *)

ToBits(octet) == [i \in 1..8 |-> (octet \div 2^(8 - i)) % 2]
OctetOf(bits) ==
    128 * bits[1] + 64 * bits[2] + 32 * bits[3] + 16 * bits[4]
        + 8 * bits[5] + 4 * bits[6] + 2 * bits[7] + bits[8]

Bits(octets) ==
    [k \in 1..8 * Len(octets) |-> ToBits(octets[((k - 1) \div 8) + 1])[((k - 1) % 8) + 1]]
Octets(bits) ==
    [n \in 1..(Len(bits) \div 8) |-> OctetOf(SubSeq(bits, 8*n - 7, 8*n))]

Bitstring(s) ==
    IF s.compressed THEN FlattenSeq([i \in DOMAIN s.data |-> Codewords[s.data[i]]])
    ELSE Bits(s.data)

WholeOctets(s) ==
    LET bits == Bitstring(s)
    IN  Octets(bits \o IF s.padding = <<>> THEN [i \in 1..((0 - Len(bits)) % 8) |-> 1]
                       ELSE s.padding[1])

StringBytes(s) ==
    LET octets == WholeOctets(s)
        length == IF s.length = <<>> THEN Len(octets) ELSE s.length[1]
    IN  IntBytes([val |-> length, padding |-> 0], 7, IF s.compressed THEN 1 ELSE 0) \o octets

(* The walk down the tree: `path` is the part of a codeword read so far.   *)
Step(walk, bit) ==
    LET path == Append(walk.path, bit)
        found == {c \in DOMAIN Codewords : Codewords[c] = path}
    IN  IF found = {} THEN [path |-> path, result |-> walk.result, eos |-> walk.eos]
        ELSE [path |-> <<>>, result |-> Append(walk.result, CHOOSE c \in found : TRUE),
              eos |-> walk.eos \/ EOS \in found]

AtTheRoot == [path |-> <<>>, result |-> <<>>, eos |-> FALSE]

Walk(bits) ==
    LET W[n \in 0..Len(bits)] == IF n = 0 THEN AtTheRoot ELSE Step(W[n - 1], bits[n])
    IN  W[Len(bits)]

(* Only padding of at most seven bits is looked at. *)
BadPadding(path) == (\E i \in DOMAIN path : path[i] = 0) /\ Len(path) <= 7

(* The end of a compressed string, after the walk over its octets. *)
Decompressed(walk, rest) ==
    IF walk.eos \/ BadPadding(walk.path) THEN <<>>
    ELSE <<[data |-> walk.result, rest |-> rest]>>

StringBody(compressed, rest, length) ==
    IF compressed THEN Decompressed(Walk(Bits(SubSeq(rest, 1, length))), From(rest, length))
    ELSE <<[data |-> SubSeq(rest, 1, length), rest |-> From(rest, length)]>>

(* Wrong: a string takes what there is. *)
ParseStringPart(d) ==
    IF d = <<>> THEN <<>>
    ELSE Then(ParseInt(d, 7), LAMBDA int :
            StringBody(d[1] >= 128, int.rest, Min({int.val, Len(int.rest)})))

ParseString(d) ==
    IF d = <<>> THEN <<>>
    ELSE Then(ParseInt(d, 7), LAMBDA int :
            IF int.val > Len(int.rest) THEN <<>>
            ELSE StringBody(d[1] >= 128, int.rest, int.val))

-----------------------------------------------------------------------------
(* The fields.  A written field has integers and strings as above, of a    *)
(* parsed one only their values are kept.                                  *)

IndexPrefix(prop) == IF prop = "CACHED" THEN 6 ELSE 4
Preprefix(prop) == IF prop = "UNCACHED" THEN 0 ELSE 1

FieldBytes(f) ==
    CASE f.kind = "indexed" -> IntBytes(f.index, 7, 1)
      [] f.kind = "partial" ->
            IntBytes(f.index, IndexPrefix(f.prop), Preprefix(f.prop)) \o StringBytes(f.val)
      [] f.kind = "literal" ->
            <<Preprefix(f.prop) * 2^IndexPrefix(f.prop)>>
                \o StringBytes(f.key) \o StringBytes(f.val)
      [] f.kind = "resize" -> IntBytes(f.size, 5, 1)

Indexed(i) == [kind |-> "indexed", index |-> i]
Partial(i, val, prop) == [kind |-> "partial", index |-> i, val |-> val, prop |-> prop]
Literal(key, val, prop) == [kind |-> "literal", key |-> key, val |-> val, prop |-> prop]
Resized(n) == [kind |-> "resize", size |-> n]

FieldMeant(f) ==
    CASE f.kind = "indexed" -> Indexed(f.index.val)
      [] f.kind = "partial" -> Partial(f.index.val, f.val.data, f.prop)
      [] f.kind = "literal" -> Literal(f.key.data, f.val.data, f.prop)
      [] f.kind = "resize" -> Resized(f.size.val)

(* The end of parse_hpack_field for the three kinds that carry strings:    *)
(* index 0 announces a literal name.                                       *)
ParseNamed(d, prop) ==
    Then(ParseInt(d, IndexPrefix(prop)), LAMBDA index :
        Then(ParseString(index.rest), LAMBDA first :
            IF index.val # 0
            THEN <<[field |-> Partial(index.val, first.data, prop), rest |-> first.rest]>>
            ELSE Then(ParseString(first.rest), LAMBDA second :
                    <<[field |-> Literal(first.data, second.data, prop), rest |-> second.rest]>>)))

ParseField(d) ==
    CASE d[1] \in 128..255 ->
            Then(ParseInt(d, 7), LAMBDA int : <<[field |-> Indexed(int.val), rest |-> int.rest]>>)
      [] d[1] \in 32..63 ->
            Then(ParseInt(d, 5), LAMBDA int : <<[field |-> Resized(int.val), rest |-> int.rest]>>)
      [] OTHER ->
            ParseNamed(d, IF d[1] >= 64 THEN "CACHED" ELSE IF d[1] >= 16 THEN "VERBATIM" ELSE "UNCACHED")

-----------------------------------------------------------------------------
(* HPACKState *)

EntrySize(h) == Len(h[1]) + Len(h[2]) + 32
TableSize(t) ==
    LET S[n \in 0..Len(t)] == IF n = 0 THEN 0 ELSE S[n - 1] + EntrySize(t[n])
    IN  S[Len(t)]

(* Wrong: the newest entry goes first. *)
EvictedFromTheFront(t, room) ==
    LET E[n \in 1..Len(t) + 1] ==
            IF TableSize(SubSeq(t, n, Len(t))) > room THEN E[n + 1] ELSE SubSeq(t, n, Len(t))
    IN  E[1]

(* maybe_evict_from_table: pop from the old end while the table is larger. *)
Evicted(t, room) ==
    LET E[n \in 0..Len(t)] ==
            IF TableSize(SubSeq(t, 1, n)) > room THEN E[n - 1] ELSE SubSeq(t, 1, n)
    IN  E[Len(t)]

VARIABLES
    pc,         \* where the receiving program is, or what it raised
    block,      \* the field block that was written
    received,   \* how many octets of it were received
    data,       \* those of them that are not yet parsed
    parsed,     \* the fields parsed from it
    fields,     \* those of them that are still to be processed
    headers,    \* the headers they gave
    table,      \* dynamic_table, the newest entry first
    capacity    \* table_capacity

vars == <<pc, block, received, data, parsed, fields, headers, table, capacity>>

Init ==
    /\ pc = "idle"
    /\ block = <<>> /\ received = 0 /\ data = <<>> /\ parsed = <<>> /\ fields = <<>> /\ headers = <<>>
    /\ table = <<>> /\ capacity = MaxCapacity

(* The octets of the first n fields of a block. *)
Written(b, n) == FlattenSeq([i \in 1..n |-> FieldBytes(b[i])])

Receive ==
    /\ pc = "idle"
    /\ \E b \in Blocks :
        LET octets == Written(b, Len(b))
        IN  /\ block' = b
            /\ \E k \in 0..Len(octets) : received' = k /\ data' = SubSeq(octets, 1, k)
    /\ pc' = "parse"
    /\ UNCHANGED <<parsed, fields, headers, table, capacity>>

(* parse_field_block: a turn of its loop, the HPACKError it lets through,  *)
(* and its end where a field would begin.                                  *)
ParseOne ==
    /\ pc = "parse" /\ data # <<>>
    /\ LET result == ParseField(data)
       IN  /\ result # <<>>
           /\ parsed' = Append(parsed, result[1].field)
           /\ data' = result[1].rest
    /\ UNCHANGED <<pc, block, received, fields, headers, table, capacity>>

ParseRaises ==
    /\ pc = "parse" /\ data # <<>> /\ ParseField(data) = <<>>
    /\ pc' = "HPACKError"
    /\ UNCHANGED <<block, received, data, parsed, fields, headers, table, capacity>>

ParseEnds ==
    /\ pc = "parse" /\ data = <<>>
    /\ fields' = parsed
    /\ pc' = "process"
    /\ UNCHANGED <<block, received, data, parsed, headers, table, capacity>>

(* get_header: first the static table, then the dynamic one. *)
IsHeader(i) ==
    i > 0 /\ (i - 1 < Len(StaticTable) \/ i - 1 - Len(StaticTable) < Len(table))
GetHeader(i) ==
    IF i - 1 < Len(StaticTable) THEN StaticTable[i] ELSE table[i - Len(StaticTable)]

AddHeaderToDynamicTable(h) == table' = Evicted(<<h>> \o table, capacity)

(* process_field_block: a turn of its loop by the kind of the field. *)
At(kind) == pc = "process" /\ fields # <<>> /\ Head(fields).kind = kind

Yield(h) == headers' = Append(headers, h) /\ fields' = Tail(fields)

ProcessIndexed ==
    /\ At("indexed") /\ IsHeader(Head(fields).index)
    /\ Yield(GetHeader(Head(fields).index))
    /\ UNCHANGED <<pc, block, received, data, parsed, table, capacity>>

ProcessLiteral ==
    /\ At("literal")
    /\ LET f == Head(fields)
       IN  /\ Yield(<<f.key, f.val>>)
           /\ IF f.prop = "CACHED" THEN AddHeaderToDynamicTable(<<f.key, f.val>>)
              ELSE UNCHANGED table
    /\ UNCHANGED <<pc, block, received, data, parsed, capacity>>

ProcessPartial ==
    /\ At("partial") /\ IsHeader(Head(fields).index)
    /\ LET f == Head(fields)
           h == <<GetHeader(f.index)[1], f.val>>
       IN  /\ Yield(h)
           /\ IF f.prop = "CACHED" THEN AddHeaderToDynamicTable(h) ELSE UNCHANGED table
    /\ UNCHANGED <<pc, block, received, data, parsed, capacity>>

(* Wrong: the table shrinks when the next entry comes. *)
UpdateCapacityAlone ==
    /\ At("resize") /\ Head(fields).size <= MaxCapacity
    /\ capacity' = Head(fields).size
    /\ fields' = Tail(fields)
    /\ UNCHANGED <<pc, block, received, data, parsed, headers, table>>

UpdateTableCapacity ==
    /\ At("resize") /\ Head(fields).size <= MaxCapacity
    /\ capacity' = Head(fields).size
    /\ table' = Evicted(table, capacity')
    /\ fields' = Tail(fields)
    /\ UNCHANGED <<pc, block, received, data, parsed, headers>>

(* The assertions.  The one on the capacity comes after it was set; the    *)
(* headers of the block are lost, what its fields did to the table is not. *)
AssertionFails ==
    /\ \/ (At("indexed") \/ At("partial")) /\ ~IsHeader(Head(fields).index)
          /\ UNCHANGED <<table, capacity>>
       \/ /\ At("resize") /\ Head(fields).size > MaxCapacity
          /\ capacity' = Head(fields).size
          /\ table' = Evicted(table, capacity')
    /\ pc' = "AssertionError"
    /\ fields' = <<>> /\ headers' = <<>>
    /\ UNCHANGED <<block, received, data, parsed>>

(* The headers go to the caller, and another block may come. *)
Return ==
    /\ pc = "process" /\ fields = <<>>
    /\ pc' = "idle"
    /\ block' = <<>> /\ received' = 0 /\ parsed' = <<>> /\ headers' = <<>>
    /\ UNCHANGED <<data, fields, table, capacity>>

Process == ProcessIndexed \/ ProcessLiteral \/ ProcessPartial \/ UpdateTableCapacity

Next ==
    \/ Receive
    \/ ParseOne \/ ParseRaises \/ ParseEnds
    \/ Process \/ AssertionFails \/ Return

Spec == Init /\ [][Next]_vars
-----------------------------------------------------------------------------
(* What __post_init__ asserts of an HPACKState (hpack.py:682) holds after  *)
(* every field, so that the table never outgrows what the peer was told.   *)
HpackTypeOK ==
    /\ pc \in {"idle", "parse", "process", "HPACKError", "AssertionError"}
    /\ data \in Seq(Octet)
    /\ \A i \in DOMAIN table : table[i] \in Header
    /\ \A i \in DOMAIN headers : headers[i] \in Header
    /\ pc # "AssertionError" =>
        TableSize(table) <= capacity /\ capacity <= MaxCapacity

(* A string without a length or a padding of its own, and an index that    *)
(* does not announce a literal name.                                       *)
Plain(s) == s.length = <<>> /\ s.padding = <<>>
PlainField(f) ==
    /\ f.kind \in {"partial", "literal"} => Plain(f.val)
    /\ f.kind = "literal" => Plain(f.key)
    /\ f.kind = "partial" => f.index.val # 0

(* Fields come out of parse_hpack_field as they went into to_bytes: kind,  *)
(* index, name, value and caching, whatever padding their integers had and *)
(* whether or not their strings were compressed (hpack.py:364-659).        *)
FieldsComeBack ==
    (\A i \in DOMAIN block : PlainField(block[i])) =>
        \A i \in DOMAIN parsed : parsed[i] = FieldMeant(block[i])

(* A block of such fields is refused if and only if the octets end inside  *)
(* one of them: the StopIteration that ends the block (hpack.py:670) comes *)
(* from nowhere else.                                                      *)
OnlyTornBlocksAreRefused ==
    LET boundaries == {Len(Written(block, n)) : n \in 0..Len(block)}
    IN  (\A i \in DOMAIN block : PlainField(block[i])) =>
            /\ pc = "HPACKError" => received \notin boundaries
            /\ pc = "process" => received \in boundaries

Promise == INSTANCE HpackPromise

(* The decoder keeps its promise (HpackPromise): adding an entry and then  *)
(* evicting, as add_header_to_dynamic_table does, leaves the same table as *)
(* making room first, and the two tables are one index space.              *)
Implements == Promise!HpackPromiseSpec
=============================================================================
