------------------------------ MODULE MCHpack -------------------------------
(* Instances of Hpack: a static table of two headers, a dynamic table of   *)
(* up to three, and a Huffman code of eleven code points of one to ten     *)
(* bits, complete and with an EOS of ones only, as the code of RFC 7541.   *)
EXTENDS Hpack

MCStaticTable == <<<<<<1>>, <<>>>>, <<<<2>>, <<3>>>>>>

MCCodewords == [c \in 0..10 |-> [i \in 1..c |-> 1] \o (IF c = 10 THEN <<>> ELSE <<0>>)]

Plainly(n) == [val |-> n, padding |-> 0]
Raw(d) == [data |-> d, compressed |-> FALSE, length |-> <<>>, padding |-> <<>>]
Huffman(d) == [Raw(d) EXCEPT !.compressed = TRUE]

Strings ==
    {Raw(d) : d \in {<<>>, <<0>>, <<255, 1>>}}
        \cup {Huffman(d) : d \in {<<>>, <<0>>, <<9, 1>>, <<7>>, <<6, 0, 3>>}}
        \cup {[Huffman(<<9>>) EXCEPT !.padding = <<p>>] :
                p \in {<<0, 0, 0, 0, 0, 0>>, <<1, 1, 1, 1, 1, 1>>, [i \in 1..14 |-> 1],
                       <<1, 0>>, [i \in 1..6 |-> 1] \o [i \in 1..8 |-> 0]}}
        \cup {[s EXCEPT !.length = <<n>>] : s \in {Raw(<<1, 2>>), Huffman(<<9, 9>>)}, n \in {1, 130}}

(* Every form of a field, with integers on both sides of each prefix.      *)
Indices(i) == {[val |-> i, padding |-> n] : n \in 0..2}
FieldForms ==
    {[kind |-> "indexed", index |-> i] :
        i \in {Plainly(n) : n \in {1, 3, 126}} \cup Indices(127) \cup Indices(300)}
    \cup {[kind |-> "partial", index |-> i, val |-> Raw(<<5>>), prop |-> "CACHED"] :
            i \in {Plainly(n) : n \in {0, 1, 4, 62}} \cup Indices(63)}
    \cup {[kind |-> "partial", index |-> i, val |-> Huffman(<<5>>), prop |-> p] :
            i \in {Plainly(n) : n \in {2, 14}} \cup Indices(15), p \in {"UNCACHED", "VERBATIM"}}
    \cup {[kind |-> "literal", key |-> k, val |-> Huffman(<<2, 8>>), prop |-> "UNCACHED"] :
            k \in Strings}
    \cup {[kind |-> "literal", key |-> Raw(<<2>>), val |-> v, prop |-> "VERBATIM"] :
            v \in Strings}
    \cup {[kind |-> "resize", size |-> i] : i \in {Plainly(n) : n \in {0, 30, 101}} \cup Indices(31)}

(* Blocks that fill, shrink and read the table. *)
TableFields ==
    {[kind |-> "literal", key |-> Raw(k), val |-> v, prop |-> "CACHED"] :
        k \in {<<>>, <<4>>}, v \in {Raw(<<>>), Raw(<<8, 8>>)}}
    \cup {[kind |-> "partial", index |-> Plainly(i), val |-> Huffman(<<6>>), prop |-> "CACHED"] :
            i \in {2, 3}}
    \cup {[kind |-> "indexed", index |-> Plainly(i)] : i \in {0, 2, 3, 5}}
    \cup {[kind |-> "resize", size |-> Plainly(n)] : n \in {33, 70, 100}}

MCBlocks ==
    {<<f>> : f \in FieldForms \cup TableFields}
        \cup {<<f, [kind |-> "literal", key |-> Raw(<<4>>), val |-> Raw(<<>>), prop |-> "CACHED"], g>> :
                f \in TableFields, g \in {[kind |-> "indexed", index |-> Plainly(i)] : i \in {3, 4}}}
=============================================================================
