--------------------------- MODULE MCSnapshotCodec ---------------------------
(* Small instances of SnapshotCodec: bytes 0..15, integers of two bytes, the *)
(* strings "", a, b and ab, and a handful of indexes.                       *)
EXTENDS SnapshotCodec

CONSTANT MaxLimit  \* bound: the greatest tight limit

a == <<1>>
b == <<2>>
ab == <<1, 2>>

\* Weak enough that a changed group leaves its keys their IDs, and so large
\* that those are negative.
MCHash(string) == IF string = <<>> THEN 0 ELSE WordSize - Last(string)

Properties(bools, bytes, ints, longs, strings) ==
    ("bool" :> bools) @@ ("byte" :> bytes) @@ ("int" :> ints)
      @@ ("long" :> longs) @@ ("string" :> strings)

None == Properties(<<>>, <<>>, <<>>, <<>>, <<>>)
Doc(groups, properties) == [groups |-> groups, properties |-> properties]
Index(implicit, docs) == [implicit |-> implicit, docs |-> docs]

\* Nothing but an implicit group.
Empty == Index(a, <<>>)
\* A document without groups, and every kind of property at its extremes.
Extremes ==
    Index(<<>>, (-LongMax - 1) :>
        Doc(<<>>, Properties((a :> 1) @@ (b :> 0), a :> Base - 1,
                             (a :> IntMax) @@ (b :> -IntMax - 1),
                             (a :> LongMax) @@ (ab :> -LongMax - 1), (<<>> :> ab) @@ (b :> <<>>))))
\* Documents that share a group and a key, in different orders.
Shared ==
    Index(a, (-1 :> Doc((a :> <<b, a>>) @@ (b :> <<a>>), None))
               @@ (3 :> Doc(a :> <<a, b>>, None)))
\* Two key objects with one string, and a group with no name.
Repeated == Index(a, 0 :> Doc((<<>> :> <<ab, a, ab>>) @@ (ab :> <<<<>>>>), None))
\* A little of everything.
Mixed ==
    Index(<<>>, (1 :> Doc(ab :> <<a>>, Properties(a :> 1, <<>>, <<>>, <<>>, a :> a)))
                  @@ (2 :> Doc((a :> <<b>>) @@ (ab :> <<a, <<>>>>), Properties(a :> 0, <<>>, <<>>, <<>>, b :> b))))
\* A document whose addKey ran out of memory.
HalfKeyed == Index(a, 1 :> Doc((a :> <<>>) @@ (b :> <<a>>), None))

MCSources == {Empty, Extremes, Shared, Repeated, Mixed}
MCHalfKeyed == {Empty, Extremes, Shared, Repeated, Mixed, HalfKeyed}

Unlimited == [name \in LimitNames |-> WordSize - 1]
MCUnlimited == {Unlimited}
\* Limits that some of the indexes just meet.
MCMet ==
    {Unlimited,
     [Unlimited EXCEPT !["documents"] = 2, !["keys"] = 5, !["properties"] = 4, !["decoded"] = 16]}
\* Those, and one limit after the other at every value up to a bound.
MCTight == MCMet \union {[Unlimited EXCEPT ![name] = value] : name \in LimitNames, value \in 0..MaxLimit}
\* Bytes are changed only where several limits are just met.
MCNewBytes == [l \in Limits |-> IF l \in MCMet THEN {0, 1, 2, 3, Base - 1} ELSE {}]
=============================================================================
