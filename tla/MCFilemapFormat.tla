--------------------------- MODULE MCFilemapFormat ---------------------------
EXTENDS FilemapFormat

CONSTANT MaxNoise    \* longest file of arbitrary bytes

Unix == [dirsep |-> "/", cipher |-> <<"A", "F">>, plain |-> <<"x">>]
Windows == [dirsep |-> "\\", cipher |-> <<"F", "A">>, plain |-> <<"x", "\\", "x">>]

\* What release 1.07 left where a record was: no separator, no names.
Left107 == <<Nul, Space, Nul>>

Chars == {"/", Space, Nul, "A", "x"}
Parts == {<<>>, Left107, Bytes(Unix), Bytes(Windows)}

Cuts(m) == {SubSeq(m, 1, n) : n \in 0..Len(m)}

\* Any bytes at all; the maps of both platforms, with what 1.07 left in them,
\* cut short anywhere.
MCFound ==
  UNION {[1..n -> Chars] : n \in 0..MaxNoise}
    \cup UNION {Cuts(a \o b \o c) : a, b, c \in Parts}

MCPaths == {<<"x", "/", "x">>}
=============================================================================
