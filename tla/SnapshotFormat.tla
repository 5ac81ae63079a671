--------------------------- MODULE SnapshotFormat ---------------------------
(***************************************************************************)
(* The payload of a snapshot: SnapshotCodec::encode (src/yuca/snapshot.cpp)*)
(* over the logical contents of an index.                                  *)
(*                                                                         *)
(* Bytes are 0..Base-1 and an integer takes WordBytes of them: 256 and 8   *)
(* in the code, smaller here so that bounds are reached.  A string is a    *)
(* sequence of bytes.  An index is a record of its implicit group and its  *)
(* documents by ID; a document has the key strings of each group, one for  *)
(* every key object, and the values of each of its five property maps.     *)
(***************************************************************************)
EXTENDS Orders, SequencesExt

CONSTANTS
    Base,         \* values of a byte
    WordBytes,    \* bytes of an integer
    HeaderBytes,  \* header_size
    IntMax,       \* the greatest int; long is as wide as a snapshot integer
    Hash(_)       \* std::hash<std::string>

\* The values of n bytes.
Power[n \in Nat] == IF n = 0 THEN 1 ELSE Base * Power[n - 1]

WordSize == Power[WordBytes]
LongMax == WordSize \div 2 - 1

ASSUME FormatAssumption ==
    /\ Base \in Nat \ {0, 1}
    /\ WordBytes \in Nat \ {0}
    /\ HeaderBytes \in Nat
    /\ IntMax \in 0..LongMax

-----------------------------------------------------------------------------
(* Integers *)

\* A signed value is stored modulo 2^64, the least significant byte first.
IntegerBytes(value) ==
    LET Shifted[i \in 0..WordBytes] ==
            IF i = 0 THEN value % WordSize ELSE Shifted[i - 1] \div Base
    IN [i \in 1..WordBytes |-> Shifted[i - 1] % Base]

\* The number that bytes stand for.
Number(bytes) ==
    LET Behind[i \in 0..Len(bytes)] ==
            IF i = Len(bytes) THEN 0 ELSE bytes[i + 1] + Base * Behind[i + 1]
    IN Behind[0]

\* Mutant: the complement is off by one.
SignedOffByOne(word) == IF word <= LongMax THEN word ELSE word - (WordSize - 1)

\* Reader::signedInteger, without an out-of-range conversion.
Signed(word) == IF word <= LongMax THEN word ELSE -1 - ((WordSize - 1) - word)

\* The ID of a key: the hash of group and string as a long.
KeyId(group, string) == Signed(Hash(group \o string) % WordSize)

-----------------------------------------------------------------------------
(* Strings *)

Byte == 0..(Base - 1)
Text == Seq(Byte)

\* std::string::operator<, which orders keys and the names in a map.
Precedes(a, b) ==
    \/ IsStrictPrefix(a, b)
    \/ \E i \in DOMAIN a \intersect DOMAIN b :
        a[i] < b[i] /\ \A j \in 1..(i - 1) : a[j] = b[j]

SortedNames(S) == InOrder(S, {pair \in S \X S : Precedes(pair[1], pair[2])})

TextBytes(string) == IntegerBytes(Len(string)) \o string

\* The code of every element of a sequence, in its order.
Each(seq, Bytes(_)) == FlattenSeq([i \in DOMAIN seq |-> Bytes(seq[i])])

-----------------------------------------------------------------------------
(* encode *)

PropertyKinds == <<"bool", "byte", "int", "long", "string">>

\* Key objects in lexical order; those with one string are written alike.
KeyOrder(strings) ==
    {pair \in (DOMAIN strings) \X (DOMAIN strings) :
        \/ Precedes(strings[pair[1]], strings[pair[2]])
        \/ strings[pair[1]] = strings[pair[2]] /\ pair[1] < pair[2]}

\* The keys of a group in lexical order, wherever their objects are in memory.
SortedKeys(strings) ==
    LET order == InOrder(DOMAIN strings, KeyOrder(strings))
    IN [i \in DOMAIN strings |-> strings[order[i]]]

GroupBytes(group, strings) ==
    LET KeyBytes(string) == TextBytes(string) \o IntegerBytes(KeyId(group, string))
        written == SortedKeys(strings)
    IN TextBytes(group) \o IntegerBytes(Len(written)) \o Each(written, KeyBytes)

PropertyBytes(kind, properties) ==
    LET EntryBytes(name) ==
            TextBytes(name) \o (IF kind = "string" THEN TextBytes(properties[name])
                                ELSE IntegerBytes(properties[name]))
    IN IntegerBytes(Cardinality(DOMAIN properties))
         \o Each(SortedNames(DOMAIN properties), EntryBytes)

DocumentBytes(id, document) ==
    LET OneGroup(g) == GroupBytes(g, document.groups[g])
        OneKind(kind) == PropertyBytes(kind, document.properties[kind])
    IN IntegerBytes(id)
         \o IntegerBytes(Cardinality(DOMAIN document.groups))
         \o Each(SortedNames(DOMAIN document.groups), OneGroup)
         \o Each(PropertyKinds, OneKind)

\* SnapshotCodec::encode, without the header.
Payload(index) ==
    LET OneDocument(id) == DocumentBytes(id, index.docs[id])
    IN TextBytes(index.implicit)
         \o IntegerBytes(Cardinality(DOMAIN index.docs))
         \o Each(Ascending(DOMAIN index.docs), OneDocument)

-----------------------------------------------------------------------------
(* What an index contains, counted without reading a snapshot *)

Long == (-LongMax - 1)..LongMax

PropertyValues(kind) ==
    CASE kind = "bool" -> 0..1
      [] kind = "byte" -> Byte
      [] kind = "int" -> (-IntMax - 1)..IntMax
      [] kind = "long" -> Long
      [] kind = "string" -> Text

IsDocument(document) ==
    LET groups == document.groups
        properties == document.properties
    IN /\ document = [groups |-> groups, properties |-> properties]
       /\ IsFiniteSet(DOMAIN groups) /\ DOMAIN groups \subseteq Text
       /\ groups \in [DOMAIN groups -> Seq(Text)]
       /\ properties = [kind \in ToSet(PropertyKinds) |-> properties[kind]]
       /\ \A kind \in ToSet(PropertyKinds) :
            /\ IsFiniteSet(DOMAIN properties[kind]) /\ DOMAIN properties[kind] \subseteq Text
            /\ properties[kind] \in [DOMAIN properties[kind] -> PropertyValues(kind)]

IsIndex(index) ==
    /\ index = [implicit |-> index.implicit, docs |-> index.docs]
    /\ index.implicit \in Text
    /\ IsFiniteSet(DOMAIN index.docs) /\ DOMAIN index.docs \subseteq Long
    /\ index.docs = [id \in DOMAIN index.docs |-> index.docs[id]]
    /\ \A id \in DOMAIN index.docs : IsDocument(index.docs[id])

\* The documents up to the order of their key objects.
Contents(index) ==
    [implicit |-> index.implicit,
     docs |-> [id \in DOMAIN index.docs |->
                [index.docs[id] EXCEPT !.groups = [g \in DOMAIN @ |-> SortedKeys(@[g])]]]]

SumOver(S, Op(_)) == SumFunction([x \in S |-> Op(x)])

KeyCount(index) ==
    SumOver(DOMAIN index.docs, LAMBDA id :
        SumOver(DOMAIN index.docs[id].groups, LAMBDA g : Len(index.docs[id].groups[g])))

PropertyCount(index) ==
    SumOver(DOMAIN index.docs, LAMBDA id :
        SumOver(ToSet(PropertyKinds), LAMBDA kind :
            Cardinality(DOMAIN index.docs[id].properties[kind])))

GroupsNamed(index) == UNION {DOMAIN index.docs[id].groups : id \in DOMAIN index.docs}

\* A key has a copy of its group.
KeysText(g, strings) == SumOver(DOMAIN strings, LAMBDA i : Len(strings[i]) + Len(g))

GroupsText(groups) == SumOver(DOMAIN groups, LAMBDA g : Len(g) + KeysText(g, groups[g]))

\* Names, and the values that are strings.
KindText(kind, properties) ==
    SumOver(DOMAIN properties, LAMBDA name :
        Len(name) + (IF kind = "string" THEN Len(properties[name]) ELSE 0))

PropertiesText(properties) ==
    SumOver(ToSet(PropertyKinds), LAMBDA kind : KindText(kind, properties[kind]))

\* The text an index retains, a copy of the group in every reverse index included.
RetainedText(index) ==
    Len(index.implicit)
      + SumOver(GroupsNamed(index), LAMBDA g : Len(g))
      + SumOver(DOMAIN index.docs, LAMBDA id :
            GroupsText(index.docs[id].groups) + PropertiesText(index.docs[id].properties))

\* The strings written for an index, each once.
StringsOf(index) ==
    {index.implicit} \union GroupsNamed(index) \union
    UNION {(UNION {ToSet(index.docs[id].groups[g]) : g \in DOMAIN index.docs[id].groups})
             \union (UNION {DOMAIN index.docs[id].properties[kind] : kind \in ToSet(PropertyKinds)})
             \union {index.docs[id].properties["string"][name] :
                       name \in DOMAIN index.docs[id].properties["string"]}
           : id \in DOMAIN index.docs}
=============================================================================
