--------------------------- MODULE MCConfigLoader ---------------------------
(***************************************************************************)
(* Files of up to four lines over two sections and three fields, with ints *)
(* of 4 bits and longs of 6.                                               *)
(***************************************************************************)
EXTENDS ConfigLoader

Number(n) == [kind |-> "number", number |-> n]
Word(w)   == [kind |-> "word", word |-> w]

Section(n, k) == [spaces |-> n, kind |-> "section", key |-> k]
Pair(n, k, v) == [spaces |-> n, kind |-> "pair", key |-> k, value |-> v]

\* 20 is a long and no int, 40 neither; -1 is no unsigned.
MCLines ==
    {Section(0, <<"a">>), Section(2, <<"b">>), Section(4, <<"b">>),
     Pair(0, <<"c">>, Word("true")), Pair(0, <<"a", "c">>, Number(3)),
     Pair(2, <<"c">>, Number(20)), Pair(2, <<"c">>, Word("")), Pair(2, <<"c">>, Number(40)),
     Pair(4, <<"c">>, Number(-1)), Pair(4, <<"c">>, Number(40)),
     Pair(2, <<"d">>, [kind |-> "list", items |-> <<Number(1), Number(20)>>]),
     Pair(2, <<"d">>, [kind |-> "list", items |-> <<Number(1), Word("x")>>]),
     Pair(3, <<"c">>, Number(1)),
     [spaces |-> 1, kind |-> "item"], [spaces |-> 0, kind |-> "text"],
     [spaces |-> 0, kind |-> "blank"]}

MCFields ==
    <<[path |-> <<"c">>, kind |-> "bool"],
      [path |-> <<"a", "c">>, kind |-> "int"],
      [path |-> <<"a", "b", "c">>, kind |-> "u64"],
      [path |-> <<"a", "d">>, kind |-> "list"],
      [path |-> <<"b", "c">>, kind |-> "double"]>>

MCDefaults == <<FALSE, 5, 6, <<7>>, 8>>
MCPrevious == <<TRUE, 1, 1, <<>>, 1>>
=============================================================================
