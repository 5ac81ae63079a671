---------------------------- MODULE SnapshotCodec ----------------------------
(***************************************************************************)
(* SnapshotCodec::decode (src/yuca/snapshot.cpp): one step per count, key, *)
(* property or document that is read from a payload, which is that of a    *)
(* saved index or one that was changed and given a matching header.  (What *)
(* the header and the checksum reject is in SnapshotFile.)                 *)
(*                                                                         *)
(* The index being built is local to the call: an exception destroys it.   *)
(***************************************************************************)
EXTENDS SnapshotFormat

CONSTANTS
    Sources,   \* bound: the indexes that are saved
    Limits,    \* bound: the SnapshotLimits a caller gives
    NewBytes   \* bound: the values a changed byte takes, under each limits

LimitNames == {"bytes", "documents", "keys", "properties", "string", "decoded"}

\* What is saved is an index, and it fits in memory with its payload.
ASSUME SourcesAssumption ==
    \A s \in Sources :
        /\ IsIndex(s)
        /\ \A d \in DOMAIN s.docs : \A g \in DOMAIN s.docs[d].groups :
             \A i \in DOMAIN s.docs[d].groups[g] : KeyId(g, s.docs[d].groups[g][i]) \in Long
        /\ Len(Payload(s)) < WordSize

ASSUME LimitsAssumption ==
    /\ Limits \subseteq [LimitNames -> 0..(WordSize - 1)]
    /\ NewBytes \in [Limits -> SUBSET Byte]

VARIABLES
    source,           \* the saved index
    changed,          \* the payload is no longer that of source
    payload,          \* the bytes after the header
    limits,           \* SnapshotLimits
    pc,               \* what decode reads next, or how it ended
    reader,           \* Reader: position, decoded_string_bytes, the value just
                      \*   read, and whether no require has failed
    keysTotal,        \* keys_total
    propertiesTotal,  \* properties_total
    left,             \* what each loop has still to read
    kind,             \* the property maps begun
    id,               \* the ID of the document being read
    document,         \* its groups and properties so far
    group,            \* the group being read
    keySet,           \* its keys so far
    index,            \* the implicit group and the documents retained so far
    reverseIndices,   \* the groups that have a reverse index
    postings          \* <<group, key ID, document ID>> for each posting

inputVars == <<source, changed, payload, limits>>
budgetVars == <<keysTotal, propertiesTotal>>
documentVars == <<id, document, group, keySet>>
resultVars == <<index, reverseIndices, postings>>
vars == <<inputVars, pc, reader, budgetVars, left, kind, documentVars, resultVars>>

NewDocument ==
    [groups |-> <<>>, properties |-> [k \in ToSet(PropertyKinds) |-> <<>>]]

Init ==
    /\ source \in Sources
    /\ changed = FALSE
    /\ payload = Payload(source)
    /\ limits \in Limits
    /\ pc = "header"
    /\ reader = [position |-> 0, charged |-> 0, value |-> 0, ok |-> TRUE]
    /\ keysTotal = 0
    /\ propertiesTotal = 0
    /\ left = [documents |-> 0, groups |-> 0, keys |-> 0, properties |-> 0]
    /\ kind = 0
    /\ id = 0
    /\ document = NewDocument
    /\ group = <<>>
    /\ keySet = <<>>
    /\ index = [implicit |-> <<>>, docs |-> <<>>]
    /\ reverseIndices = {}
    /\ postings = {}

\* Another program changes, cuts off or adds a byte and seals the header.
Change ==
    /\ pc = "header"
    /\ ~changed
    /\ changed' = TRUE
    /\ \E byte \in NewBytes[limits] :
        payload' \in {ReplaceAt(payload, i, byte) : i \in DOMAIN payload}
                         \union {Append(payload, byte), Front(payload)}
    /\ UNCHANGED <<source, limits, pc, reader, budgetVars, left, kind, documentVars, resultVars>>

-----------------------------------------------------------------------------
(* Reader: each operation takes a reader and returns it after the read.    *)

Require(r, condition) == [r EXCEPT !.ok = @ /\ condition]

Remaining(r) == Len(payload) - r.position

\* The next size bytes.
Taken(r, size) == [i \in 1..size |-> payload[r.position + i]]

\* What is left of a limit, in size_t arithmetic.
Left(limit, used) == IF used <= limit THEN limit - used ELSE WordSize + limit - used

ReadInteger(r) ==
    IF r.ok /\ Remaining(r) >= WordBytes
    THEN [r EXCEPT !.position = @ + WordBytes, !.value = Number(Taken(r, WordBytes))]
    ELSE Require(r, FALSE)

\* nativeInteger, for an integer type with the given maximum.
ReadNative(r, maximum) ==
    LET word == ReadInteger(r)
    IN IF word.ok
       THEN Require([word EXCEPT !.value = Signed(@)],
                    Signed(word.value) \in (-maximum - 1)..maximum)
       ELSE word

\* An integer of at most maximum.
ReadUpTo(r, maximum) ==
    LET word == ReadInteger(r) IN Require(word, word.ok /\ word.value \in 0..maximum)

\* Mutant: the budget is not consulted.
CountInInput(r, maximum, minimumBytes) ==
    LET word == ReadInteger(r)
    IN Require(word, word.ok /\ word.value <= Remaining(word) \div minimumBytes)

\* A count of at most maximum things that take at least minimumBytes each.
ReadCount(r, maximum, minimumBytes) ==
    LET word == ReadUpTo(r, maximum)
    IN Require(word, word.ok /\ word.value <= Remaining(word) \div minimumBytes)

\* chargeStrings
Charge(r, bytes) ==
    IF r.ok /\ bytes <= Left(limits.decoded, r.charged)
    THEN [r EXCEPT !.charged = @ + bytes]
    ELSE Require(r, FALSE)

ReadText(r) ==
    LET length == ReadCount(r, limits.string, 1)
        charged == Charge(length, length.value)
    IN IF charged.ok
       THEN [charged EXCEPT !.position = @ + length.value,
                            !.value = Taken(length, length.value)]
       ELSE charged

\* propertyValue, by the type of the property
ReadValue(r, type) ==
    CASE type = "bool" -> ReadUpTo(r, 1)
      [] type = "byte" -> ReadUpTo(r, Base - 1)
      [] type = "int" -> ReadNative(r, IntMax)
      [] type = "long" -> ReadNative(r, LongMax)
      [] type = "string" -> ReadText(r)

\* What encode writes at least for a document, and for a group, a key or a
\* property: 56 and 16 bytes.
DocumentMinimum == 7 * WordBytes
EntryMinimum == 2 * WordBytes

-----------------------------------------------------------------------------
(* decode *)

\* std::map::emplace: an entry that is there already stays.
Emplace(map, key, value) ==
    [k \in DOMAIN map \union {key} |-> IF k \in DOMAIN map THEN map[k] ELSE value]

Reject ==
    /\ pc' = "rejected"
    /\ UNCHANGED <<inputVars, reader, budgetVars, left, kind, documentVars, resultVars>>

ReadIndex ==
    LET implicit == ReadText(reader)
        count == ReadCount(implicit, limits.documents, DocumentMinimum)
    IN /\ pc = "header"
       /\ IF HeaderBytes + Len(payload) <= limits.bytes /\ count.ok
          THEN /\ pc' = "document"
               /\ reader' = count
               /\ left' = [left EXCEPT !.documents = count.value]
               /\ index' = [index EXCEPT !.implicit = implicit.value]
               /\ UNCHANGED <<inputVars, budgetVars, kind, documentVars, reverseIndices, postings>>
          ELSE Reject

\* Mutant: the ID may repeat.
NotDescending(new) == \A old \in DOMAIN index.docs : new >= old

\* IDs ascend, so that none repeats.
AscendingId(new) == \A old \in DOMAIN index.docs : new > old

BeginDocument ==
    LET native == ReadNative(reader, LongMax)
        count == ReadCount(native, Left(limits.keys, keysTotal), EntryMinimum)
    IN /\ pc = "document"
       /\ left.documents > 0
       /\ IF count.ok /\ AscendingId(native.value)
          THEN /\ pc' = "group"
               /\ reader' = count
               /\ left' = [left EXCEPT !.documents = @ - 1, !.groups = count.value]
               /\ kind' = 0
               /\ id' = native.value
               /\ document' = NewDocument
               /\ UNCHANGED <<inputVars, budgetVars, group, keySet, resultVars>>
          ELSE Reject

\* Mutant: every document pays for the reverse index of its groups.
ChargeAlways(r) == Charge(r, Len(r.value))

\* The group's copy in its reverse index is charged where it is first met.
ChargeReverseIndex(r) == IF r.value \in reverseIndices THEN r ELSE Charge(r, Len(r.value))

BeginGroup ==
    LET name == ReadText(reader)
        charged == IF name.ok THEN ChargeReverseIndex(name) ELSE name
        count == ReadCount(charged, Left(limits.keys, keysTotal), EntryMinimum)
    IN /\ pc = "group"
       /\ left.groups > 0
       /\ IF count.ok /\ count.value # 0
          THEN /\ pc' = "key"
               /\ reader' = count
               /\ left' = [left EXCEPT !.groups = @ - 1, !.keys = count.value]
               /\ keysTotal' = keysTotal + count.value
               /\ group' = name.value
               /\ keySet' = <<>>
               /\ UNCHANGED <<inputVars, propertiesTotal, kind, id, document, resultVars>>
          ELSE Reject

\* Mutant: the copy of the group that each key owns is free.
ChargeNothing(r) == r

\* Every StringKey owns a copy of its group.
ChargeKey(r) == Charge(r, Len(group))

ReadKey ==
    LET string == ReadText(reader)
        key == ChargeKey(ReadNative(string, LongMax))
    IN /\ pc = "key"
       /\ left.keys > 0
       /\ IF key.ok /\ KeyId(group, string.value) = key.value
          THEN /\ reader' = key
               /\ left' = [left EXCEPT !.keys = @ - 1]
               /\ keySet' = Append(keySet, string.value)
               /\ UNCHANGED <<inputVars, pc, budgetVars, kind, id, document, group, resultVars>>
          ELSE Reject

\* The group joins the document, unless it has one of that name.
EndGroup ==
    /\ pc = "key"
    /\ left.keys = 0
    /\ IF group \notin DOMAIN document.groups
       THEN /\ pc' = "group"
            /\ document' = [document EXCEPT !.groups = Emplace(@, group, keySet)]
            /\ UNCHANGED <<inputVars, reader, budgetVars, left, kind, id, group, keySet, resultVars>>
       ELSE Reject

\* The next of the five property maps.
BeginProperties ==
    LET count == ReadCount(reader, Left(limits.properties, propertiesTotal), EntryMinimum)
    IN /\ \/ pc = "group" /\ left.groups = 0
          \/ pc = "property" /\ left.properties = 0 /\ kind < Len(PropertyKinds)
       /\ IF count.ok
          THEN /\ pc' = "property"
               /\ reader' = count
               /\ left' = [left EXCEPT !.properties = count.value]
               /\ propertiesTotal' = propertiesTotal + count.value
               /\ kind' = kind + 1
               /\ UNCHANGED <<inputVars, keysTotal, documentVars, resultVars>>
          ELSE Reject

ReadProperty ==
    LET type == PropertyKinds[kind]
        name == ReadText(reader)
        value == ReadValue(name, type)
    IN /\ pc = "property"
       /\ left.properties > 0
       /\ IF value.ok /\ name.value \notin DOMAIN document.properties[type]
          THEN /\ reader' = value
               /\ left' = [left EXCEPT !.properties = @ - 1]
               /\ document' = [document EXCEPT !.properties[type] =
                                   Emplace(@, name.value, value.value)]
               /\ UNCHANGED <<inputVars, pc, budgetVars, kind, id, group, keySet, resultVars>>
          ELSE Reject

\* Mutant: a group that has a reverse index already is passed over.
NewGroupPostings ==
    UNION {{<<g, KeyId(g, string), id>> : string \in ToSet(document.groups[g])} :
           g \in DOMAIN document.groups \ reverseIndices}

\* ReverseIndex::putDocument for each key of the document.
DocumentPostings ==
    UNION {{<<g, KeyId(g, string), id>> : string \in ToSet(document.groups[g])} :
           g \in DOMAIN document.groups}

\* The document is retained and its postings are built in bulk.
AddDocument ==
    /\ pc = "property"
    /\ left.properties = 0
    /\ kind = Len(PropertyKinds)
    /\ pc' = "document"
    /\ index' = [index EXCEPT !.docs = Emplace(@, id, document)]
    /\ reverseIndices' = reverseIndices \union DOMAIN document.groups
    /\ postings' = postings \union DocumentPostings
    /\ UNCHANGED <<inputVars, reader, budgetVars, left, kind, documentVars>>

Finish ==
    /\ pc = "document"
    /\ left.documents = 0
    /\ IF Remaining(reader) = 0
       THEN /\ pc' = "decoded"
            /\ UNCHANGED <<inputVars, reader, budgetVars, left, kind, documentVars, resultVars>>
       ELSE Reject

Next ==
    \/ Change
    \/ ReadIndex
    \/ BeginDocument
    \/ BeginGroup
    \/ ReadKey
    \/ EndGroup
    \/ BeginProperties
    \/ ReadProperty
    \/ AddDocument
    \/ Finish

Spec == Init /\ [][Next]_vars

-----------------------------------------------------------------------------
(* Properties *)

WithinLimits(i) ==
    /\ HeaderBytes + Len(Payload(i)) <= limits.bytes
    /\ Cardinality(DOMAIN i.docs) <= limits.documents
    /\ KeyCount(i) <= limits.keys
    /\ PropertyCount(i) <= limits.properties
    /\ \A string \in StringsOf(i) : Len(string) <= limits.string
    /\ RetainedText(i) <= limits.decoded

\* A group whose addKey ran out of memory has no key.
HasEmptyGroup(i) ==
    \E d \in DOMAIN i.docs : \E g \in DOMAIN i.docs[d].groups : i.docs[d].groups[g] = <<>>

\* "Bounds for untrusted snapshots": whatever the bytes are, the totals stay
\* within the limits, so that no remaining budget wraps around.
BudgetsHold ==
    /\ keysTotal <= limits.keys
    /\ propertiesTotal <= limits.properties
    /\ reader.charged <= limits.decoded

\* A saved index is loaded unless a limit forbids it: none of the checks on
\* counts, lengths and budgets refuses an index that is within the limits, and
\* none lets one pass that is not.  (Indexes with a group without keys apart.)
LoadsExactlyWithinLimits ==
    ~changed /\ ~HasEmptyGroup(source) =>
        /\ pc = "decoded" => WithinLimits(source)
        /\ pc = "rejected" => ~WithinLimits(source)

\* Loading gives back what was saved, to the byte when it is saved again, up to
\* the order of key objects.
RoundTrip ==
    ~changed /\ pc = "decoded" =>
        /\ Contents(index) = Contents(source)
        /\ Payload(index) = payload

\* Whatever bytes are accepted, all of them are in the index: encoding it takes
\* as many.  A duplicate that replaced another or was dropped would be missing.
NothingIsDropped == pc = "decoded" => Len(Payload(index)) = Len(payload)

\* The text charged against the budget is the text that the index retains,
\* copies of group names in keys and reverse indexes included.
ChargedTextIsRetained == pc = "decoded" => reader.charged = RetainedText(index)

\* The postings built in bulk are those that indexDocument would have made: a
\* key of a group leads to the retained documents that have it, and the groups
\* with a reverse index are the groups of the documents.
PostingsMatchDocuments ==
    /\ reverseIndices = GroupsNamed(index)
    /\ postings =
         UNION {UNION {{<<g, KeyId(g, string), d>> : string \in ToSet(index.docs[d].groups[g])} :
                       g \in DOMAIN index.docs[d].groups} : d \in DOMAIN index.docs}

\* What serialize writes is a snapshot that deserialize accepts.
SavedIndexLoads == ~changed /\ WithinLimits(source) => pc # "rejected"
=============================================================================
