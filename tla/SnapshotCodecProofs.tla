------------------------- MODULE SnapshotCodecProofs -------------------------
(***************************************************************************)
(* Safety of SnapshotCodec for any payload, limits, widths and hash, by    *)
(* four inductive invariants, each resting on those before it:             *)
(*   BudgetInv    nothing is charged beyond a limit;                       *)
(*   PostingsInv  emplace retains every document;                          *)
(*   UseInv       what the reader has counted is what it has built;        *)
(*   BackInv      what it has built is the first part of the index that    *)
(*                was saved, and the payload goes on with the other part.  *)
(***************************************************************************)
EXTENDS SnapshotCodec, SnapshotFormatProofs

-----------------------------------------------------------------------------
(* The budgets: each operation of the reader leaves what is charged within *)
(* the limit, and a count it returns is at most the maximum it was given.  *)

IsReader(r) ==
    r = [position |-> r.position, charged |-> r.charged, value |-> r.value, ok |-> r.ok]

InBudget(r) == IsReader(r) /\ r.charged \in 0..limits.decoded

LimitsOK == limits \in [LimitNames -> 0..(WordSize - 1)]

\* A check leaves the reader as it was, apart from the outcome.
LEMMA RequireInBudget ==
    ASSUME NEW r, InBudget(r), NEW condition
    PROVE  /\ InBudget(Require(r, condition))
           /\ Require(r, condition).value = r.value
           /\ Require(r, condition).ok <=> (r.ok /\ condition)
<1> DEFINE ok == r.ok /\ condition
<1>1. Require(r, condition) = [r EXCEPT !.ok = ok]
  BY DEF Require
<1> HIDE DEF ok
<1>2. Require(r, condition) =
        [position |-> r.position, charged |-> r.charged, value |-> r.value, ok |-> ok]
  BY <1>1 DEF InBudget, IsReader
<1>3. /\ InBudget(Require(r, condition))
      /\ Require(r, condition).value = r.value
      /\ Require(r, condition).ok = ok
  BY <1>2 DEF InBudget, IsReader
<1>4. QED
  BY <1>3 DEF ok

LEMMA ReadIntegerInBudget ==
    ASSUME NEW r, InBudget(r)
    PROVE  InBudget(ReadInteger(r)) /\ (ReadInteger(r).ok => r.ok)
<1>1. CASE r.ok /\ Remaining(r) >= WordBytes
  BY <1>1 DEF InBudget, IsReader, ReadInteger
<1>2. CASE ~(r.ok /\ Remaining(r) >= WordBytes)
  BY <1>2, RequireInBudget DEF ReadInteger
<1>3. QED
  BY <1>1, <1>2

\* An integer of a native type is an integer.
LEMMA ReadNativeInBudget ==
    ASSUME NEW r, InBudget(r), NEW maximum
    PROVE  /\ InBudget(ReadNative(r, maximum))
           /\ ReadNative(r, maximum).ok => ReadNative(r, maximum).value \in Int
<1> DEFINE word == ReadInteger(r)
           signed == [word EXCEPT !.value = Signed(@)]
           fits == Signed(word.value) \in (-maximum - 1)..maximum
<1>1. InBudget(word)
  BY ReadIntegerInBudget
<1>2. InBudget(signed) /\ signed.value = Signed(word.value)
  BY <1>1 DEF InBudget, IsReader
<1>3. ReadNative(r, maximum) = IF word.ok THEN Require(signed, fits) ELSE word
  BY DEF ReadNative
<1>4. fits => Signed(word.value) \in Int
  OBVIOUS
<1> HIDE DEF word, signed, fits
<1>5. CASE word.ok
  BY <1>2, <1>3, <1>4, <1>5, RequireInBudget
<1>6. CASE ~word.ok
  BY <1>1, <1>3, <1>6
<1>7. QED
  BY <1>5, <1>6

LEMMA ReadUpToInBudget ==
    ASSUME NEW r, InBudget(r), NEW maximum
    PROVE  /\ InBudget(ReadUpTo(r, maximum))
           /\ ReadUpTo(r, maximum).ok => r.ok /\ ReadUpTo(r, maximum).value \in 0..maximum
<1> DEFINE word == ReadInteger(r)
           fits == word.ok /\ word.value \in 0..maximum
<1>1. InBudget(word) /\ (word.ok => r.ok)
  BY ReadIntegerInBudget
<1>2. ReadUpTo(r, maximum) = Require(word, fits)
  BY DEF ReadUpTo
<1>3. fits => word.ok /\ word.value \in 0..maximum
  OBVIOUS
<1> HIDE DEF word, fits
<1>4. QED
  BY <1>1, <1>2, <1>3, RequireInBudget

LEMMA ReadCountInBudget ==
    ASSUME NEW r, InBudget(r), NEW maximum, NEW minimumBytes
    PROVE  /\ InBudget(ReadCount(r, maximum, minimumBytes))
           /\ ReadCount(r, maximum, minimumBytes).ok =>
                r.ok /\ ReadCount(r, maximum, minimumBytes).value \in 0..maximum
<1> DEFINE word == ReadUpTo(r, maximum)
           fits == word.ok /\ word.value <= Remaining(word) \div minimumBytes
<1>1. InBudget(word) /\ (word.ok => r.ok /\ word.value \in 0..maximum)
  BY ReadUpToInBudget
<1>2. ReadCount(r, maximum, minimumBytes) = Require(word, fits)
  BY DEF ReadCount
<1>3. fits => word.ok
  OBVIOUS
<1> HIDE DEF word, fits
<1>4. QED
  BY <1>1, <1>2, <1>3, RequireInBudget

\* What is charged fits in what is left, and the difference does not wrap.
LEMMA ChargeInBudget ==
    ASSUME LimitsOK, NEW r, InBudget(r), NEW bytes, r.ok => bytes \in Nat
    PROVE  InBudget(Charge(r, bytes)) /\ (Charge(r, bytes).ok => r.ok)
<1>1. limits.decoded \in Nat
  BY DEF LimitsOK, LimitNames
<1>2. CASE r.ok /\ bytes <= Left(limits.decoded, r.charged)
  BY <1>1, <1>2 DEF Charge, Left, InBudget, IsReader
<1>3. CASE ~(r.ok /\ bytes <= Left(limits.decoded, r.charged))
  BY <1>3 DEF Charge, Require, InBudget, IsReader
<1>4. QED
  BY <1>2, <1>3

LEMMA MoveInBudget ==
    ASSUME NEW r, InBudget(r), NEW position, NEW value
    PROVE  LET moved == [r EXCEPT !.position = position, !.value = value]
           IN InBudget(moved) /\ moved.value = value
<1> DEFINE moved == [r EXCEPT !.position = position, !.value = value]
<1>1. DOMAIN r = {"position", "charged", "value", "ok"}
  BY DEF InBudget, IsReader
<1>2. /\ moved = [f \in {"position", "charged", "value", "ok"} |-> moved[f]]
      /\ moved.value = value
      /\ moved.charged = r.charged
  BY <1>1
<1> HIDE DEF moved
<1>3. IsReader(moved)
  BY <1>2 DEF IsReader
<1>4. InBudget(moved)
  BY <1>2, <1>3 DEF InBudget
<1>5. QED
  BY <1>2, <1>4 DEF moved

LEMMA ReadTextInBudget ==
    ASSUME LimitsOK, NEW r, InBudget(r)
    PROVE  /\ InBudget(ReadText(r))
           /\ ReadText(r).ok => Len(ReadText(r).value) \in Nat
<1> DEFINE length == ReadCount(r, limits.string, 1)
           charged == Charge(length, length.value)
           text == [charged EXCEPT !.position = @ + length.value,
                                   !.value = Taken(length, length.value)]
<1>1. InBudget(length) /\ (length.ok => length.value \in Nat)
  BY ReadCountInBudget
<1>2. InBudget(charged) /\ (charged.ok => length.ok)
  BY <1>1, ChargeInBudget
<1>3. ReadText(r) = IF charged.ok THEN text ELSE charged
  BY DEF ReadText
<1>4. InBudget(text) /\ text.value = Taken(length, length.value)
  <2> DEFINE position == charged.position + length.value
             value == Taken(length, length.value)
  <2>1. text = [charged EXCEPT !.position = position, !.value = value]
    OBVIOUS
  <2> HIDE DEF charged, position, value, text
  <2>2. InBudget(text) /\ text.value = value
    BY <1>2, <2>1, MoveInBudget
  <2>3. QED
    BY <2>2 DEF value
<1>5. length.value \in Nat => Len(Taken(length, length.value)) \in Nat
  <2> DEFINE n == length.value
             bytes == {payload[length.position + i] : i \in 1..n}
  <2>1. Taken(length, n) \in [1..n -> bytes]
    BY DEF Taken
  <2>2. n \in Nat => Taken(length, n) \in Seq(bytes)
    BY <2>1
  <2>3. QED
    BY <2>2, LenProperties
<1> HIDE DEF length, charged, text
<1>6. QED
  BY <1>1, <1>2, <1>3, <1>4, <1>5

LEMMA ReadValueInBudget ==
    ASSUME LimitsOK, NEW r, InBudget(r), NEW type \in {"bool", "byte", "int", "long", "string"}
    PROVE  InBudget(ReadValue(r, type))
<1>2. InBudget(ReadUpTo(r, 1)) /\ InBudget(ReadUpTo(r, Base - 1))
  BY ReadUpToInBudget
<1>3. InBudget(ReadNative(r, IntMax)) /\ InBudget(ReadNative(r, LongMax))
  BY ReadNativeInBudget
<1>4. InBudget(ReadText(r))
  BY ReadTextInBudget
<1>5. QED
  BY <1>2, <1>3, <1>4 DEF ReadValue

BudgetInv ==
    /\ LimitsOK
    /\ InBudget(reader)
    /\ keysTotal \in 0..limits.keys
    /\ propertiesTotal \in 0..limits.properties
    /\ Len(group) \in Nat
    /\ kind \in 0..5
    /\ pc = "property" => kind # 0
    /\ pc \in {"group", "key"} => kind = 0

\* The invariant holds at first, and every step keeps it.
LEMMA BudgetInit == Init => BudgetInv
<1> SUFFICES ASSUME Init PROVE BudgetInv
  OBVIOUS
<1>1. LimitsOK
  BY LimitsAssumption DEF Init, LimitsOK
<1>2. \A name \in LimitNames : 0 \in 0..limits[name]
  BY <1>1 DEF LimitsOK
<1>3. InBudget(reader)
  BY <1>2 DEF Init, InBudget, IsReader, LimitNames
<1>4. keysTotal \in 0..limits.keys /\ propertiesTotal \in 0..limits.properties
  BY <1>2 DEF Init, LimitNames
<1>5. Len(group) \in Nat
  BY DEF Init
<1>6. kind = 0 /\ pc = "header"
  BY DEF Init
<1>7. QED
  BY <1>1, <1>3, <1>4, <1>5, <1>6 DEF BudgetInv

LEMMA BudgetStep == BudgetInv /\ [Next]_vars => BudgetInv'
<1> SUFFICES ASSUME BudgetInv, [Next]_vars PROVE BudgetInv'
  OBVIOUS
<1> USE DEF BudgetInv
<1>1. CASE Reject /\ UNCHANGED inputVars
  BY <1>1 DEF Reject, inputVars, budgetVars, documentVars, LimitsOK, InBudget, IsReader
<1>2. CASE Change
  BY <1>2 DEF Change, budgetVars, documentVars, LimitsOK, InBudget, IsReader
<1>3. CASE ReadIndex
  <2> DEFINE implicit == ReadText(reader)
             count == ReadCount(implicit, limits.documents, DocumentMinimum)
  <2>1. InBudget(implicit)
    BY ReadTextInBudget
  <2>2. InBudget(count)
    BY <2>1, ReadCountInBudget
  <2>3. CASE /\ pc' = "document"
             /\ reader' = count
             /\ UNCHANGED <<inputVars, budgetVars, kind, group>>
    BY <2>2, <2>3 DEF inputVars, budgetVars, LimitsOK, InBudget
  <2>4. QED
    BY <1>1, <1>3, <2>3 DEF ReadIndex, Reject, documentVars
<1>4. CASE BeginDocument
  <2> DEFINE native == ReadNative(reader, LongMax)
             count == ReadCount(native, Left(limits.keys, keysTotal), EntryMinimum)
  <2>1. InBudget(native)
    BY ReadNativeInBudget
  <2>2. InBudget(count)
    BY <2>1, ReadCountInBudget
  <2>3. CASE /\ pc' = "group"
             /\ reader' = count
             /\ kind' = 0
             /\ UNCHANGED <<inputVars, budgetVars, group>>
    BY <2>2, <2>3 DEF inputVars, budgetVars, LimitsOK, InBudget
  <2>4. QED
    BY <1>1, <1>4, <2>3 DEF BeginDocument, Reject
<1>5. CASE BeginGroup
  <2> DEFINE name == ReadText(reader)
             charged == IF name.ok THEN ChargeReverseIndex(name) ELSE name
             left0 == Left(limits.keys, keysTotal)
             count == ReadCount(charged, left0, EntryMinimum)
  <2>1. InBudget(name) /\ (name.ok => Len(name.value) \in Nat)
    BY ReadTextInBudget
  <2>2. InBudget(charged) /\ (charged.ok => name.ok)
    BY <2>1, ChargeInBudget DEF ChargeReverseIndex
  <2>3. InBudget(count) /\ (count.ok => charged.ok /\ count.value \in 0..left0)
    BY <2>2, ReadCountInBudget
  <2>4. left0 = limits.keys - keysTotal /\ limits.keys \in Int
    BY DEF Left, LimitsOK, LimitNames
  <2>5. CASE /\ count.ok
             /\ pc = "group" /\ pc' = "key"
             /\ reader' = count
             /\ keysTotal' = keysTotal + count.value
             /\ group' = name.value
             /\ UNCHANGED <<inputVars, propertiesTotal, kind>>
    <3> HIDE DEF name, charged, left0, count
    <3>1. keysTotal' \in 0..limits.keys
      BY <2>3, <2>4, <2>5
    <3>2. QED
      BY <2>1, <2>2, <2>3, <2>5, <3>1 DEF inputVars, LimitsOK, InBudget
  <2>6. QED
    BY <1>1, <1>5, <2>5 DEF BeginGroup, Reject
<1>6. CASE ReadKey
  <2> DEFINE string == ReadText(reader)
             native == ReadNative(string, LongMax)
             key == ChargeKey(native)
  <2>1. InBudget(string)
    BY ReadTextInBudget
  <2>2. InBudget(native)
    BY <2>1, ReadNativeInBudget
  <2>3. InBudget(key)
    BY <2>2, ChargeInBudget DEF ChargeKey
  <2>4. CASE /\ reader' = key
             /\ UNCHANGED <<inputVars, pc, budgetVars, kind, group>>
    BY <2>3, <2>4 DEF inputVars, budgetVars, LimitsOK, InBudget
  <2>5. QED
    BY <1>1, <1>6, <2>4 DEF ReadKey, Reject
<1>7. CASE EndGroup
  BY <1>1, <1>7 DEF EndGroup, Reject, inputVars, budgetVars, LimitsOK, InBudget, IsReader
<1>8. CASE BeginProperties
  <2> DEFINE left0 == Left(limits.properties, propertiesTotal)
             count == ReadCount(reader, left0, EntryMinimum)
  <2>1. InBudget(count) /\ (count.ok => count.value \in 0..left0)
    BY ReadCountInBudget
  <2>2. left0 = limits.properties - propertiesTotal /\ limits.properties \in Int
    BY DEF Left, LimitsOK, LimitNames
  <2>3. CASE /\ count.ok
             /\ pc' = "property"
             /\ pc = "group" \/ kind < 5
             /\ kind' = kind + 1
             /\ reader' = count
             /\ propertiesTotal' = propertiesTotal + count.value
             /\ UNCHANGED <<inputVars, keysTotal, group>>
    <3> HIDE DEF left0, count
    <3>1. propertiesTotal' \in 0..limits.properties
      BY <2>1, <2>2, <2>3
    <3>2. QED
      BY <2>1, <2>3, <3>1 DEF inputVars, LimitsOK, InBudget
  <2>4. QED
    BY <1>1, <1>8, <2>3 DEF BeginProperties, Reject, documentVars, PropertyKinds
<1>9. CASE ReadProperty
  <2> DEFINE type == PropertyKinds[kind]
             name == ReadText(reader)
             value == ReadValue(name, type)
  <2>1. InBudget(name)
    BY ReadTextInBudget
  <2>2. InBudget(value)
    <3>1. CASE pc = "property"
      <4>1. type \in {"bool", "byte", "int", "long", "string"}
        BY <3>1 DEF PropertyKinds
      <4>2. QED
        BY <2>1, <4>1, ReadValueInBudget
    <3>2. QED
      BY <1>9, <3>1 DEF ReadProperty
  <2>3. CASE /\ reader' = value
             /\ UNCHANGED <<inputVars, pc, budgetVars, kind, group>>
    BY <2>2, <2>3 DEF inputVars, budgetVars, LimitsOK, InBudget
  <2>4. QED
    BY <1>1, <1>9, <2>3 DEF ReadProperty, Reject
<1>10. CASE AddDocument
  BY <1>10 DEF AddDocument, inputVars, budgetVars, documentVars, LimitsOK, InBudget, IsReader
<1>11. CASE Finish
  BY <1>1, <1>11 DEF Finish, Reject, inputVars, budgetVars, documentVars, LimitsOK, InBudget, IsReader
<1>12. CASE UNCHANGED vars
  BY <1>12 DEF vars, inputVars, budgetVars, documentVars, LimitsOK, InBudget, IsReader
<1>13. QED
  BY <1>2, <1>3, <1>4, <1>5, <1>6, <1>7, <1>8, <1>9, <1>10, <1>11, <1>12 DEF Next

\* Whatever the bytes, the limits and the widths are, the totals stay within
\* the limits while decode runs, and what is left of them never wraps.
THEOREM BudgetsAlwaysHold == Spec => []BudgetsHold
<1>1. BudgetInv => BudgetsHold
  <2> SUFFICES ASSUME BudgetInv PROVE BudgetsHold
    OBVIOUS
  <2>1. \A limit \in {"keys", "properties", "decoded"} : limits[limit] \in Int
    BY DEF BudgetInv, LimitsOK, LimitNames
  <2>2. QED
    BY <2>1 DEF BudgetInv, InBudget, BudgetsHold
<1>2. QED
  BY <1>1, BudgetInit, BudgetStep, PTL DEF Spec

-----------------------------------------------------------------------------
(* The postings: a document is added under an ID that none has, so that    *)
(* emplace retains it and its postings are those of a retained document.   *)

PostingsOf(docs) ==
    UNION {UNION {{<<g, KeyId(g, string), d>> : string \in ToSet(docs[d].groups[g])} :
                  g \in DOMAIN docs[d].groups} : d \in DOMAIN docs}

PostingsInv ==
    /\ BudgetInv
    /\ PostingsMatchDocuments
    /\ index = [implicit |-> index.implicit, docs |-> index.docs]
    /\ pc \in {"group", "key", "property"} => id \notin DOMAIN index.docs

\* The invariant holds at first, and every step keeps it.
LEMMA PostingsInit == Init => PostingsInv
<1> SUFFICES ASSUME Init PROVE PostingsInv
  OBVIOUS
<1>1. DOMAIN index.docs = {}
  BY DEF Init
<1>2. PostingsMatchDocuments
  BY <1>1 DEF Init, PostingsMatchDocuments, GroupsNamed
<1>3. QED
  BY <1>1, <1>2, BudgetInit DEF Init, PostingsInv

\* What retaining one more document adds to both sides.
LEMMA AddedPostings ==
    ASSUME PostingsInv, AddDocument
    PROVE  PostingsMatchDocuments' /\ index' = [implicit |-> index'.implicit, docs |-> index'.docs]
<1> DEFINE docs == index.docs
           more == Emplace(docs, id, document)
<1>1. id \notin DOMAIN docs
  BY DEF PostingsInv, AddDocument
<1>2. index' = [implicit |-> index.implicit, docs |-> more]
  <2> HIDE DEF more
  <2>1. index' = [index EXCEPT !.docs = more]
    BY DEF AddDocument, more
  <2>2. QED
    BY <2>1 DEF PostingsInv
<1>3. /\ DOMAIN more = DOMAIN docs \union {id}
      /\ more[id] = document
      /\ \A d \in DOMAIN docs : more[d] = docs[d]
  BY <1>1 DEF Emplace
<1> HIDE DEF more
<1>4. reverseIndices' = GroupsNamed(index')
  <2>1. reverseIndices' = GroupsNamed(index) \union DOMAIN document.groups
    BY DEF AddDocument, PostingsInv, PostingsMatchDocuments
  <2>2. GroupsNamed(index') = UNION {DOMAIN more[d].groups : d \in DOMAIN more}
    BY <1>2 DEF GroupsNamed
  <2>3. UNION {DOMAIN more[d].groups : d \in DOMAIN more} =
          (UNION {DOMAIN docs[d].groups : d \in DOMAIN docs}) \union DOMAIN document.groups
    BY <1>3
  <2>4. QED
    BY <2>1, <2>2, <2>3 DEF GroupsNamed
<1>5. postings' = PostingsOf(index'.docs)
  <2> DEFINE Posted(d, doc) ==
        UNION {{<<g, KeyId(g, string), d>> : string \in ToSet(doc.groups[g])} :
               g \in DOMAIN doc.groups}
  <2>1. postings' = (UNION {Posted(d, docs[d]) : d \in DOMAIN docs}) \union Posted(id, document)
    BY DEF AddDocument, PostingsInv, PostingsMatchDocuments, DocumentPostings
  <2>2. PostingsOf(index'.docs) = UNION {Posted(d, more[d]) : d \in DOMAIN more}
    BY <1>2 DEF PostingsOf
  <2> HIDE DEF Posted
  <2>3. UNION {Posted(d, more[d]) : d \in DOMAIN more} =
          (UNION {Posted(d, docs[d]) : d \in DOMAIN docs}) \union Posted(id, document)
    BY <1>3
  <2>4. QED
    BY <2>1, <2>2, <2>3
<1>6. QED
  BY <1>2, <1>4, <1>5 DEF PostingsMatchDocuments, PostingsOf

LEMMA PostingsStep == PostingsInv /\ [Next]_vars => PostingsInv'
<1> SUFFICES ASSUME PostingsInv, [Next]_vars PROVE PostingsInv'
  OBVIOUS
<1>1. BudgetInv /\ BudgetInv'
  BY BudgetStep DEF PostingsInv
<1>2. CASE /\ UNCHANGED <<index, reverseIndices, postings>>
           /\ pc' \in {"group", "key", "property"} =>
                pc \in {"group", "key", "property"} /\ id' = id
  BY <1>1, <1>2 DEF PostingsInv, PostingsMatchDocuments, GroupsNamed
<1>3. CASE Change
  BY <1>2, <1>3 DEF Change, documentVars, resultVars
<1>4. CASE ReadIndex
  <2> DEFINE implicit == ReadText(reader)
  <2>1. CASE /\ pc' = "document"
             /\ index' = [index EXCEPT !.implicit = implicit.value]
             /\ UNCHANGED <<reverseIndices, postings>>
    <3> HIDE DEF implicit
    <3>1. index' = [implicit |-> implicit.value, docs |-> index.docs]
      BY <2>1 DEF PostingsInv
    <3>2. PostingsMatchDocuments'
      BY <2>1, <3>1 DEF PostingsInv, PostingsMatchDocuments, GroupsNamed
    <3>3. QED
      BY <1>1, <2>1, <3>1, <3>2 DEF PostingsInv
  <2>2. QED
    BY <1>2, <1>4, <2>1 DEF ReadIndex, Reject, resultVars
<1>5. CASE BeginDocument
  <2> DEFINE native == ReadNative(reader, LongMax)
             maximum == Left(limits.keys, keysTotal)
             count == ReadCount(native, maximum, EntryMinimum)
  <2>1. InBudget(native) /\ (native.ok => native.value \in Int)
    BY <1>1, ReadNativeInBudget DEF BudgetInv
  <2>2. count.ok => native.ok
    BY <2>1, ReadCountInBudget
  <2>3. CASE count.ok /\ AscendingId(native.value) /\ id' = native.value /\ UNCHANGED resultVars
    <3> HIDE DEF native, count, maximum
    <3>1. native.value \notin DOMAIN index.docs
      BY <2>1, <2>2, <2>3 DEF AscendingId
    <3>2. QED
      BY <1>1, <2>3, <3>1 DEF resultVars, PostingsInv, PostingsMatchDocuments, GroupsNamed
  <2>4. QED
    BY <1>2, <1>5, <2>3 DEF BeginDocument, Reject, resultVars
<1>6. CASE BeginGroup
  BY <1>2, <1>6 DEF BeginGroup, Reject, resultVars
<1>7. CASE ReadKey
  BY <1>2, <1>7 DEF ReadKey, Reject, resultVars
<1>8. CASE EndGroup
  BY <1>2, <1>8 DEF EndGroup, Reject, resultVars
<1>9. CASE BeginProperties
  BY <1>2, <1>9 DEF BeginProperties, Reject, documentVars, resultVars
<1>10. CASE ReadProperty
  BY <1>2, <1>10 DEF ReadProperty, Reject, resultVars
<1>11. CASE AddDocument
  <2>1. pc' = "document"
    BY <1>11 DEF AddDocument
  <2>2. QED
    BY <1>1, <1>11, <2>1, AddedPostings DEF PostingsInv
<1>12. CASE Finish
  BY <1>2, <1>12 DEF Finish, Reject, documentVars, resultVars
<1>13. CASE UNCHANGED vars
  BY <1>2, <1>13 DEF vars, documentVars, resultVars
<1>14. QED
  BY <1>3, <1>4, <1>5, <1>6, <1>7, <1>8, <1>9, <1>10, <1>11, <1>12, <1>13 DEF Next

\* At every step of decode, for any bytes and any hash, the postings built in
\* bulk are those of the documents retained so far, and the groups with a
\* reverse index are their groups.
THEOREM BulkPostingsMatch == Spec => []PostingsMatchDocuments
<1>1. PostingsInv => PostingsMatchDocuments
  BY DEF PostingsInv
<1>2. QED
  BY <1>1, PostingsInit, PostingsStep, PTL DEF Spec

-----------------------------------------------------------------------------
(* What Emplace adds to the two measures of an index                       *)

\* One more group adds what it takes.
LEMMA GroupsUseMore ==
    ASSUME NEW m \in Measures, NEW groups, IsGroups(groups),
           NEW g \in Text, g \notin DOMAIN groups, NEW strings \in Seq(Text)
    PROVE  /\ IsGroups(Emplace(groups, g, strings))
           /\ GroupsUse(m, Emplace(groups, g, strings)) = GroupsUse(m, groups) + GroupUse(m, g, strings)
<1> DEFINE more == Emplace(groups, g, strings)
           f == [h \in DOMAIN groups |-> GroupUse(m, h, groups[h])]
           k == [h \in DOMAIN more |-> GroupUse(m, h, more[h])]
           S == DOMAIN groups
<1>1. /\ DOMAIN more = S \union {g} /\ more[g] = strings
      /\ \A h \in S : more[h] = groups[h]
      /\ more = [h \in S \union {g} |-> more[h]]
  <2>1. more = [h \in S \union {g} |-> more[h]]
    BY DEF Emplace
  <2>2. /\ DOMAIN more = S \union {g} /\ more[g] = strings
        /\ \A x \in S : more[x] = groups[x]
    BY DEF Emplace
  <2> HIDE DEF more
  <2> QED
    BY <2>1, <2>2
<1>2. /\ IsFiniteSet(S) /\ S \subseteq Text /\ \A h \in S : groups[h] \in Seq(Text)
  BY DEF IsGroups
<1>3. GroupsUse(m, groups) = SumFunction(f) /\ GroupsUse(m, more) = SumFunction(k)
  BY DEF GroupsUse, SumOver
<1> HIDE DEF more
<1>4. IsGroups(more)
  BY <1>1, <1>2, FS_AddElement DEF IsGroups
<1>5. /\ DOMAIN f = S /\ DOMAIN k = S \union {g}
      /\ \A h \in S : f[h] = k[h]
      /\ k[g] = GroupUse(m, g, strings)
  BY <1>1
<1>6. \A h \in DOMAIN k : k[h] \in Nat
  BY <1>1, <1>2, GroupUseType
<1> HIDE DEF f, k, S
<1>7. SumFunction(k) = SumFunction(f) + k[g]
  BY <1>2, <1>5, <1>6, SumOfMore DEF S
<1>8. GroupsUse(m, more) = GroupsUse(m, groups) + GroupUse(m, g, strings)
  BY <1>3, <1>5, <1>7
<1> QED
  BY <1>4, <1>8 DEF more

\* One more property of a kind adds what it takes.
LEMMA KindUseMore ==
    ASSUME NEW m \in Measures, NEW type \in ToSet(PropertyKinds), NEW properties, IsKind(type, properties),
           NEW name \in Text, name \notin DOMAIN properties, NEW value \in PropertyValues(type)
    PROVE  /\ IsKind(type, Emplace(properties, name, value))
           /\ KindUse(m, type, Emplace(properties, name, value)) =
                KindUse(m, type, properties) + (Len(name) + 2 * Word(m) + ValueUse(type, value))
<1> DEFINE more == Emplace(properties, name, value)
           Use(n, v) == Len(n) + 2 * Word(m) + ValueUse(type, v)
           f == [n \in DOMAIN properties |-> Use(n, properties[n])]
           k == [n \in DOMAIN more |-> Use(n, more[n])]
           S == DOMAIN properties
<1>1. /\ DOMAIN more = S \union {name} /\ more[name] = value
      /\ \A n \in S : more[n] = properties[n]
      /\ more = [n \in S \union {name} |-> more[n]]
  <2>1. more = [n \in S \union {name} |-> more[n]]
    BY DEF Emplace
  <2>2. /\ DOMAIN more = S \union {name} /\ more[name] = value
        /\ \A x \in S : more[x] = properties[x]
    BY DEF Emplace
  <2> HIDE DEF more
  <2> QED
    BY <2>1, <2>2
<1>2. /\ IsFiniteSet(S) /\ S \subseteq Text /\ \A n \in S : properties[n] \in PropertyValues(type)
  BY DEF IsKind
<1>3. KindUse(m, type, properties) = SumFunction(f) /\ KindUse(m, type, more) = SumFunction(k)
  BY DEF KindUse, SumOver
<1> HIDE DEF more
<1>4. IsKind(type, more)
  BY <1>1, <1>2, FS_AddElement DEF IsKind
<1>5. \A n \in Text : \A v \in PropertyValues(type) : Use(n, v) \in Nat
  BY ValueUseType, WordType, TextLength
<1> HIDE DEF Use
<1>6. /\ DOMAIN f = S /\ DOMAIN k = S \union {name}
      /\ \A n \in S : f[n] = k[n]
      /\ k[name] = Use(name, value)
  BY <1>1
<1>7. \A n \in DOMAIN k : k[n] \in Nat
  BY <1>1, <1>2, <1>5
<1> HIDE DEF f, k, S
<1>8. SumFunction(k) = SumFunction(f) + k[name]
  BY <1>2, <1>6, <1>7, SumOfMore DEF S
<1>9. KindUse(m, type, more) = KindUse(m, type, properties) + Use(name, value)
  BY <1>3, <1>6, <1>8
<1> QED
  BY <1>4, <1>9 DEF more, Use

\* No property, nothing used.
LEMMA NoPropertiesUse ==
    ASSUME NEW m \in Measures
    PROVE  /\ IsDocument(NewDocument)
           /\ GroupsUse(m, NewDocument.groups) = 0
           /\ PropertiesUse(m, NewDocument.properties) = 0
<1> DEFINE K == ToSet(PropertyKinds)
           e == <<>>
           none == [k \in K |-> e]
           f == [type \in K |-> KindUse(m, type, none[type])]
<1>1. NewDocument = [groups |-> e, properties |-> none]
  BY DEF NewDocument
<1>2. DOMAIN e = {} /\ IsFiniteSet({})
  BY FS_EmptySet
<1>3. IsGroups(e) /\ \A type \in K : IsKind(type, e)
  BY <1>2 DEF IsGroups, IsKind
<1>4. IsProperties(none)
  BY <1>3 DEF IsProperties
<1>5. PropertiesUse(m, none) = SumFunction(f)
  BY DEF PropertiesUse, SumOver
<1>6. \A type \in K : f[type] = 0
  BY <1>2, <1>3, KindUseType
<1>7. DOMAIN f = K /\ IsFiniteSet(K)
  BY KindsAre
<1>8. IsDocument(NewDocument)
  BY <1>1, <1>3, <1>4, DocumentParts
<1>9. GroupsUse(m, e) = 0
  BY <1>2, <1>3, GroupsUseType
<1> HIDE DEF K, e, none, f
<1>10. Units(f, K) = {}
  <2>1. \A type \in K : 1..f[type] = {}
    BY <1>6
  <2> QED
    BY <2>1 DEF Units
<1>11. SumFunction(f) = 0
  <2>1. \A type \in DOMAIN f : f[type] \in Nat
    BY <1>6, <1>7
  <2> QED
    BY <1>7, <1>10, <2>1, SumIsUnits, FS_EmptySet
<1> QED
  BY <1>1, <1>5, <1>8, <1>9, <1>11

\* One more property of a kind adds the same to the properties.
LEMMA PropertiesUseMore ==
    ASSUME NEW m \in Measures, NEW properties, IsProperties(properties),
           NEW type \in ToSet(PropertyKinds),
           NEW name \in Text, name \notin DOMAIN properties[type], NEW value \in PropertyValues(type),
           NEW more, more = [properties EXCEPT ![type] = Emplace(@, name, value)]
    PROVE  /\ IsProperties(more)
           /\ PropertiesUse(m, more) =
                PropertiesUse(m, properties) + (Len(name) + 2 * Word(m) + ValueUse(type, value))
<1> DEFINE K == ToSet(PropertyKinds)
           new == Emplace(properties[type], name, value)
           f == [t \in K |-> KindUse(m, t, properties[t])]
           h == [t \in K |-> KindUse(m, t, more[t])]
           add == Len(name) + 2 * Word(m) + ValueUse(type, value)
<1>1. DOMAIN properties = K /\ \A t \in K : IsKind(t, properties[t])
  BY DEF IsProperties
<1>2. DOMAIN more = K /\ more[type] = new /\ \A t \in K \ {type} : more[t] = properties[t]
  BY <1>1
<1>3. IsKind(type, new) /\ KindUse(m, type, new) = KindUse(m, type, properties[type]) + add
  BY <1>1, KindUseMore
<1>4. IsProperties(more)
  BY <1>1, <1>2, <1>3 DEF IsProperties
<1>5. PropertiesUse(m, properties) = SumFunction(f) /\ PropertiesUse(m, more) = SumFunction(h)
  BY DEF PropertiesUse, SumOver
<1>6. add \in Nat
  BY ValueUseType, WordType, TextLength
<1>7. \A t \in K : f[t] \in Nat /\ h[t] \in Nat
  BY <1>1, <1>4, KindUseType DEF IsProperties
<1>8. DOMAIN f = K /\ DOMAIN h = K /\ IsFiniteSet(K)
  BY KindsAre
<1>9. h[type] = f[type] + add /\ \A t \in K \ {type} : h[t] = f[t]
  <2> HIDE DEF new, add
  <2> QED
    BY <1>2, <1>3
<1> HIDE DEF f, h, add, new, K
<1>10. /\ SumFunction(f) \in Nat /\ SumFunction(h) \in Nat
       /\ SumFunction(f) + h[type] = SumFunction(h) + f[type]
  BY <1>7, <1>8, <1>9, SumOfChanged DEF K
<1>11. f[type] \in Nat
  BY <1>7 DEF K
<1>12. SumFunction(h) = SumFunction(f) + add
  BY <1>6, <1>9, <1>10, <1>11
<1> QED
  BY <1>4, <1>5, <1>12 DEF add

\* One more document adds what it takes to the index.
LEMMA IndexUseMore ==
    ASSUME NEW m \in Measures, NEW i, IsIndex(i), NEW d \in Long, d \notin DOMAIN i.docs,
           NEW doc, IsDocument(doc),
           NEW more, more = [implicit |-> i.implicit, docs |-> Emplace(i.docs, d, doc)]
    PROVE  IsIndex(more) /\ IndexUse(m, more) = IndexUse(m, i) + DocumentUse(m, doc)
<1> DEFINE S == DOMAIN i.docs
           docs == Emplace(i.docs, d, doc)
           f == [e \in DOMAIN i.docs |-> DocumentUse(m, i.docs[e])]
           h == [e \in DOMAIN more.docs |-> DocumentUse(m, more.docs[e])]
<1>1. /\ DOMAIN docs = S \union {d} /\ docs[d] = doc
      /\ \A e \in S : docs[e] = i.docs[e]
      /\ docs = [e \in S \union {d} |-> docs[e]]
  <2>1. docs = [e \in S \union {d} |-> docs[e]]
    BY DEF Emplace
  <2>2. /\ DOMAIN docs = S \union {d} /\ docs[d] = doc
        /\ \A x \in S : docs[x] = i.docs[x]
    BY DEF Emplace
  <2> HIDE DEF docs
  <2> QED
    BY <2>1, <2>2
<1>2. more.docs = docs /\ more.implicit = i.implicit
  OBVIOUS
<1> HIDE DEF docs
<1>3. IsIndex(more)
  BY <1>1, <1>2, FS_AddElement DEF IsIndex
<1>4. /\ IndexUse(m, i) = 2 * Word(m) + Len(i.implicit) + SumFunction(f)
      /\ IndexUse(m, more) = 2 * Word(m) + Len(i.implicit) + SumFunction(h)
  BY <1>2 DEF IndexUse, SumOver
<1>5. /\ DOMAIN f = S /\ DOMAIN h = S \union {d}
      /\ \A e \in S : f[e] = h[e]
      /\ h[d] = DocumentUse(m, doc)
  BY <1>1, <1>2
<1>6. \A e \in DOMAIN h : h[e] \in Nat
  BY <1>3, DocumentUseType DEF IsIndex
<1>7. 2 * Word(m) \in Nat /\ Len(i.implicit) \in Nat
  BY WordType, TextLength DEF IsIndex
<1>8. IsFiniteSet(S) /\ d \notin S
  BY DEF IsIndex
<1> HIDE DEF f, h, S
<1>9. SumFunction(h) = SumFunction(f) + h[d]
  BY <1>5, <1>6, <1>8, SumOfMore
<1>10. SumFunction(f) \in Nat /\ h[d] \in Nat
  <2>1. \A e \in S : f[e] \in Nat
    BY <1>5, <1>6
  <2> QED
    BY <1>5, <1>6, <1>8, <2>1, SumType
<1> QED
  BY <1>3, <1>4, <1>5, <1>7, <1>9, <1>10

-----------------------------------------------------------------------------
(* What each operation of the reader counts, and what it returns           *)

Used(m, r) == IF m = "position" THEN r.position ELSE r.charged

IsAt(r) == InBudget(r) /\ r.position \in 0..Len(payload)

LEMMA RequireAt ==
    ASSUME NEW r, IsAt(r), NEW condition
    PROVE  /\ IsAt(Require(r, condition))
           /\ Require(r, condition).value = r.value
           /\ Require(r, condition).ok => r.ok /\ condition
           /\ \A m : Used(m, Require(r, condition)) = Used(m, r)
<1> DEFINE ok == r.ok /\ condition
<1>1. Require(r, condition) = [r EXCEPT !.ok = ok]
  BY DEF Require
<1> HIDE DEF ok
<1>2. Require(r, condition) =
        [position |-> r.position, charged |-> r.charged, value |-> r.value, ok |-> ok]
  BY <1>1 DEF IsAt, InBudget, IsReader
<1> DEFINE s == Require(r, condition)
<1>3. /\ s.position = r.position /\ s.charged = r.charged /\ s.value = r.value /\ s.ok = ok
      /\ IsReader(s)
  BY <1>2 DEF IsReader
<1> HIDE DEF s
<1>4. IsAt(s) /\ \A m : Used(m, s) = Used(m, r)
  BY <1>3 DEF IsAt, InBudget, Used
<1> QED
  BY <1>3, <1>4 DEF ok, s

\* The operations of the reader stay in the payload and in the budget, and count
\* what they read.
LEMMA ReadIntegerAt ==
    ASSUME payload \in Text, NEW r, IsAt(r)
    PROVE  /\ IsAt(ReadInteger(r))
           /\ ReadInteger(r).ok =>
                r.ok /\ \A m \in Measures : Used(m, ReadInteger(r)) = Used(m, r) + Word(m)
<1>1. CASE r.ok /\ Remaining(r) >= WordBytes
  <2> DEFINE p == r.position + WordBytes
             v == Number(Taken(r, WordBytes))
             s == ReadInteger(r)
  <2>1. s = [r EXCEPT !.position = p, !.value = v]
    BY <1>1 DEF ReadInteger
  <2>2. r.position \in 0..Len(payload) /\ Len(payload) \in Nat /\ WordBytes \in Nat /\ IsReader(r)
    BY TextLength, FormatAssumption DEF IsAt, InBudget
  <2>3. p \in 0..Len(payload)
    BY <1>1, <2>2 DEF Remaining
  <2> HIDE DEF p, v, s
  <2>4. s = [position |-> p, charged |-> r.charged, value |-> v, ok |-> r.ok]
    BY <2>1, <2>2 DEF IsReader
  <2>5. s.position = p /\ s.charged = r.charged /\ s.ok = r.ok /\ IsReader(s)
    BY <2>4 DEF IsReader
  <2>6. r.charged \in Nat
    BY DEF IsAt, InBudget
  <2>7. IsAt(s)
    BY <2>3, <2>5 DEF IsAt, InBudget
  <2>8. \A m \in Measures : Used(m, s) = Used(m, r) + Word(m)
    BY <2>2, <2>5, <2>6 DEF Used, Word, p
  <2> QED
    BY <1>1, <2>7, <2>8 DEF s
<1>2. CASE ~(r.ok /\ Remaining(r) >= WordBytes)
  BY <1>2, RequireAt DEF ReadInteger
<1> QED
  BY <1>1, <1>2

LEMMA ReadNativeAt ==
    ASSUME payload \in Text, NEW r, IsAt(r), NEW maximum
    PROVE  /\ IsAt(ReadNative(r, maximum))
           /\ ReadNative(r, maximum).ok =>
                /\ r.ok /\ ReadNative(r, maximum).value \in (-maximum - 1)..maximum
                /\ \A m \in Measures : Used(m, ReadNative(r, maximum)) = Used(m, r) + Word(m)
<1> DEFINE word == ReadInteger(r)
           signed == [word EXCEPT !.value = Signed(@)]
           v == Signed(word.value)
           fits == v \in (-maximum - 1)..maximum
<1>1. IsAt(word) /\ (word.ok => r.ok /\ \A m \in Measures : Used(m, word) = Used(m, r) + Word(m))
  BY ReadIntegerAt
<1>2. ReadNative(r, maximum) = IF word.ok THEN Require(signed, fits) ELSE word
  BY DEF ReadNative
<1>3. signed = [word EXCEPT !.value = v]
  OBVIOUS
<1>4. fits => v \in (-maximum - 1)..maximum
  OBVIOUS
<1> HIDE DEF word, v, signed, fits
<1>5. signed = [position |-> word.position, charged |-> word.charged, value |-> v, ok |-> word.ok]
  BY <1>1, <1>3 DEF IsAt, InBudget, IsReader
<1>6. /\ signed.position = word.position /\ signed.charged = word.charged /\ signed.value = v
      /\ signed.ok = word.ok /\ IsReader(signed)
  BY <1>5 DEF IsReader
<1>7. IsAt(signed) /\ \A m : Used(m, signed) = Used(m, word)
  BY <1>1, <1>6 DEF IsAt, InBudget, Used
<1>8. CASE word.ok
  <2> DEFINE s == Require(signed, fits)
  <2>1. /\ IsAt(s) /\ s.value = v /\ (s.ok => fits)
        /\ \A m : Used(m, s) = Used(m, signed)
    BY <1>6, <1>7, RequireAt
  <2>2. ReadNative(r, maximum) = s
    BY <1>2, <1>8
  <2> HIDE DEF s
  <2> QED
    BY <1>1, <1>4, <1>7, <1>8, <2>1, <2>2
<1>9. CASE ~word.ok
  BY <1>1, <1>2, <1>9
<1> QED
  BY <1>8, <1>9

LEMMA ReadUpToAt ==
    ASSUME payload \in Text, NEW r, IsAt(r), NEW maximum
    PROVE  /\ IsAt(ReadUpTo(r, maximum))
           /\ ReadUpTo(r, maximum).ok =>
                /\ r.ok /\ ReadUpTo(r, maximum).value \in 0..maximum
                /\ \A m \in Measures : Used(m, ReadUpTo(r, maximum)) = Used(m, r) + Word(m)
<1> DEFINE word == ReadInteger(r)
           fits == word.ok /\ word.value \in 0..maximum
           s == ReadUpTo(r, maximum)
<1>1. IsAt(word) /\ (word.ok => r.ok /\ \A m \in Measures : Used(m, word) = Used(m, r) + Word(m))
  BY ReadIntegerAt
<1>2. s = Require(word, fits)
  BY DEF ReadUpTo
<1>3. fits => word.ok /\ word.value \in 0..maximum
  OBVIOUS
<1> HIDE DEF word, fits, s
<1>4. IsAt(s) /\ s.value = word.value /\ (s.ok => fits) /\ \A m : Used(m, s) = Used(m, word)
  BY <1>1, <1>2, RequireAt
<1>5. /\ IsAt(s)
      /\ s.ok => /\ r.ok /\ s.value \in 0..maximum
                 /\ \A m \in Measures : Used(m, s) = Used(m, r) + Word(m)
  BY <1>1, <1>3, <1>4
<1> QED
  BY <1>5 DEF s

LEMMA ReadCountAt ==
    ASSUME payload \in Text, NEW r, IsAt(r), NEW maximum, NEW minimumBytes
    PROVE  /\ IsAt(ReadCount(r, maximum, minimumBytes))
           /\ ReadCount(r, maximum, minimumBytes).ok =>
                /\ r.ok /\ ReadCount(r, maximum, minimumBytes).value \in 0..maximum
                /\ ReadCount(r, maximum, minimumBytes).value <=
                     Remaining(ReadCount(r, maximum, minimumBytes)) \div minimumBytes
                /\ \A m \in Measures :
                     Used(m, ReadCount(r, maximum, minimumBytes)) = Used(m, r) + Word(m)
<1> DEFINE word == ReadUpTo(r, maximum)
           few == word.value <= Remaining(word) \div minimumBytes
           fits == word.ok /\ few
           s == ReadCount(r, maximum, minimumBytes)
<1>1. /\ IsAt(word)
      /\ word.ok => /\ r.ok /\ word.value \in 0..maximum
                    /\ \A m \in Measures : Used(m, word) = Used(m, r) + Word(m)
  BY ReadUpToAt
<1>2. s = Require(word, fits)
  BY DEF ReadCount
<1>3. fits => word.ok /\ few
  OBVIOUS
<1> HIDE DEF word, fits, s
<1>4. IsAt(s) /\ s.value = word.value /\ (s.ok => fits) /\ \A m : Used(m, s) = Used(m, word)
  BY <1>1, <1>2, RequireAt
<1>5. s.position = word.position
  BY <1>4 DEF Used
<1>6. few => s.value <= Remaining(s) \div minimumBytes
  BY <1>4, <1>5 DEF Remaining
<1>7. /\ IsAt(s)
      /\ s.ok => /\ r.ok /\ s.value \in 0..maximum
                 /\ s.value <= Remaining(s) \div minimumBytes
                 /\ \A m \in Measures : Used(m, s) = Used(m, r) + Word(m)
  BY <1>1, <1>3, <1>4, <1>6
<1> QED
  BY <1>7 DEF s

LEMMA ChargeAt ==
    ASSUME LimitsOK, NEW r, IsAt(r), NEW bytes, r.ok => bytes \in Nat
    PROVE  /\ IsAt(Charge(r, bytes))
           /\ Charge(r, bytes).ok =>
                /\ r.ok /\ Charge(r, bytes).value = r.value
                /\ Used("position", Charge(r, bytes)) = Used("position", r)
                /\ Used("charged", Charge(r, bytes)) = Used("charged", r) + bytes
<1> DEFINE s == Charge(r, bytes)
<1>1. InBudget(s)
  BY ChargeInBudget DEF IsAt
<1>2. CASE r.ok /\ bytes <= Left(limits.decoded, r.charged)
  <2> DEFINE c == r.charged + bytes
  <2>1. s = [r EXCEPT !.charged = c]
    BY <1>2 DEF Charge
  <2> HIDE DEF c, s
  <2>2. s = [position |-> r.position, charged |-> c, value |-> r.value, ok |-> r.ok]
    BY <2>1 DEF IsAt, InBudget, IsReader
  <2>3. s.position = r.position /\ s.charged = c /\ s.value = r.value /\ s.ok = r.ok
    BY <2>2
  <2> QED
    BY <1>1, <1>2, <2>3 DEF IsAt, Used, c, s
<1>3. CASE ~(r.ok /\ bytes <= Left(limits.decoded, r.charged))
  <2>1. s = Require(r, FALSE)
    BY <1>3 DEF Charge
  <2>2. IsAt(Require(r, FALSE)) /\ (Require(r, FALSE).ok => FALSE)
    BY RequireAt
  <2> HIDE DEF s
  <2>3. IsAt(s) /\ ~s.ok
    BY <2>1, <2>2
  <2> QED
    BY <2>3 DEF s
<1> QED
  BY <1>2, <1>3

LEMMA TakenType ==
    ASSUME payload \in Text, NEW r, r.position \in 0..Len(payload), NEW n \in Nat, n <= Remaining(r)
    PROVE  Taken(r, n) \in Text /\ Len(Taken(r, n)) = n
<1>1. payload \in [1..Len(payload) -> Byte] /\ Len(payload) \in Nat
  BY LenProperties DEF Text
<1>2. \A i \in 1..n : r.position + i \in 1..Len(payload)
  BY <1>1 DEF Remaining
<1>3. \A i \in 1..n : payload[r.position + i] \in Byte
  BY <1>1, <1>2
<1>4. Taken(r, n) \in [1..n -> Byte]
  BY <1>3 DEF Taken
<1> QED
  BY <1>4 DEF Text

\* A text that is read counts once as bytes with its length, and once as charged.
LEMMA ReadTextAt ==
    ASSUME LimitsOK, payload \in Text, NEW r, IsAt(r)
    PROVE  /\ IsAt(ReadText(r))
           /\ ReadText(r).ok =>
                /\ r.ok /\ ReadText(r).value \in Text
                /\ \A m \in Measures :
                     Used(m, ReadText(r)) = Used(m, r) + Word(m) + Len(ReadText(r).value)
<1> DEFINE length == ReadCount(r, limits.string, 1)
           charged == Charge(length, length.value)
           n == length.value
           v == Taken(length, length.value)
           p == charged.position + length.value
           s == ReadText(r)
<1>1. /\ IsAt(length)
      /\ length.ok => /\ r.ok /\ length.value \in 0..limits.string
                      /\ length.value <= Remaining(length) \div 1
                      /\ \A m \in Measures : Used(m, length) = Used(m, r) + Word(m)
  BY ReadCountAt
<1>2. length.ok => n \in Nat
  <2> HIDE DEF length
  <2> QED
    BY <1>1
<1>3. /\ IsAt(charged)
      /\ charged.ok => /\ length.ok
                       /\ Used("position", charged) = Used("position", length)
                       /\ Used("charged", charged) = Used("charged", length) + n
  <2> HIDE DEF length
  <2> QED
    BY <1>1, <1>2, ChargeAt
<1>4. CASE charged.ok
  <2>1. s = [charged EXCEPT !.position = p, !.value = v]
    BY <1>4 DEF ReadText
  <2> HIDE DEF length, charged, s
  <2>2. length.position \in 0..Len(payload) /\ Len(payload) \in Nat
    BY <1>1, TextLength DEF IsAt
  <2>3. n <= Remaining(length) /\ Remaining(length) \in Nat
    BY <1>1, <1>3, <1>4, <2>2 DEF Remaining
  <2>4. v \in Text /\ Len(v) = n /\ n \in Nat
    BY <1>2, <1>3, <1>4, <2>2, <2>3, TakenType
  <2>5. charged.position = length.position
    BY <1>3, <1>4 DEF Used
  <2>6. p \in 0..Len(payload)
    BY <2>2, <2>3, <2>4, <2>5 DEF Remaining
  <2> HIDE DEF p, v, n
  <2>7. s = [position |-> p, charged |-> charged.charged, value |-> v, ok |-> charged.ok]
    BY <1>3, <2>1 DEF IsAt, InBudget, IsReader
  <2>8. s.position = p /\ s.charged = charged.charged /\ s.value = v /\ IsReader(s)
    BY <2>7 DEF IsReader
  <2>9. IsAt(s)
    BY <1>3, <2>6, <2>8 DEF IsAt, InBudget
  <2>10. Used("position", s) = Used("position", length) + n
    BY <2>5, <2>8 DEF Used, p, n
  <2>11. Used("charged", s) = Used("charged", length) + n
    BY <1>3, <1>4, <2>8 DEF Used
  <2>12. \A m \in Measures : Used(m, length) = Used(m, r) + Word(m)
    BY <1>1, <1>3, <1>4
  <2>13. \A m \in Measures : Used(m, s) = Used(m, r) + Word(m) + Len(s.value)
    BY <2>4, <2>8, <2>10, <2>11, <2>12 DEF Measures
  <2> QED
    BY <1>1, <1>3, <1>4, <2>4, <2>8, <2>9, <2>13 DEF s
<1>5. CASE ~charged.ok
  <2>1. s = charged
    BY <1>5 DEF ReadText
  <2> HIDE DEF charged, s
  <2> QED
    BY <1>3, <1>5, <2>1 DEF s
<1> QED
  BY <1>4, <1>5

\* So does a value, as far as its type has text.
LEMMA ReadValueAt ==
    ASSUME LimitsOK, payload \in Text, NEW r, IsAt(r), NEW type \in ToSet(PropertyKinds)
    PROVE  /\ IsAt(ReadValue(r, type))
           /\ ReadValue(r, type).ok =>
                /\ r.ok /\ ReadValue(r, type).value \in PropertyValues(type)
                /\ \A m \in Measures :
                     Used(m, ReadValue(r, type)) =
                       Used(m, r) + Word(m) + ValueUse(type, ReadValue(r, type).value)
<1>1. type \in {"bool", "byte", "int", "long", "string"}
  BY KindsAre
<1>2. \A m \in Measures : Used(m, r) + Word(m) + 0 = Used(m, r) + Word(m)
  <2>1. \A m \in Measures : Used(m, r) \in Nat
    BY TextLength DEF IsAt, InBudget, Used
  <2> QED
    BY <2>1, WordType
<1>3. CASE type = "bool"
  BY <1>2, <1>3, ReadUpToAt DEF ReadValue, PropertyValues, ValueUse
<1>4. CASE type = "byte"
  BY <1>2, <1>4, ReadUpToAt DEF ReadValue, PropertyValues, ValueUse, Byte
<1>5. CASE type = "int"
  BY <1>2, <1>5, ReadNativeAt DEF ReadValue, PropertyValues, ValueUse
<1>6. CASE type = "long"
  BY <1>2, <1>6, ReadNativeAt DEF ReadValue, PropertyValues, ValueUse, Long
<1>7. CASE type = "string"
  BY <1>7, ReadTextAt DEF ReadValue, PropertyValues, ValueUse
<1> QED
  BY <1>1, <1>3, <1>4, <1>5, <1>6, <1>7

-----------------------------------------------------------------------------
(* What is read is in the index, the document or the group being read      *)

PartUse(m, doc, kinds) ==
    (2 + kinds) * Word(m) + GroupsUse(m, doc.groups) + PropertiesUse(m, doc.properties)

\* A reader that has read the documents of i, part of doc and part of the keys
\* of g has counted what they take.
CountedAt(m, at, r, i, names, doc, kinds, g, keys) ==
    /\ at = "header" => Used(m, r) = 0
    /\ at \in {"document", "decoded"} => Used(m, r) = IndexUse(m, i) + NamesUse(m, names)
    /\ at \in {"group", "property"} =>
         Used(m, r) = IndexUse(m, i) + PartUse(m, doc, kinds)
                        + NamesUse(m, names \union DOMAIN doc.groups)
    /\ at = "key" =>
         Used(m, r) = IndexUse(m, i) + PartUse(m, doc, kinds)
                        + NamesUse(m, names \union DOMAIN doc.groups)
                        + GroupUse(m, g, keys) + NewNameUse(m, g, names)

Counted(m) ==
    CountedAt(m, pc, reader, index, reverseIndices, document, kind, group, keySet)

\* Where the IDs of a group's keys can be written.
KeysFit(g, strings) == \A i \in DOMAIN strings : KeyId(g, strings[i]) \in Long

TypeInv ==
    /\ limits \in Limits
    /\ payload \in Text
    /\ reader.position \in 0..Len(payload)
    /\ IsIndex(index) /\ \A d \in DOMAIN index.docs : IdsFit(index.docs[d].groups)
    /\ IsFiniteSet(reverseIndices) /\ reverseIndices \subseteq Text
    /\ IsDocument(document) /\ IdsFit(document.groups)
    /\ id \in Long
    /\ group \in Text
    /\ keySet \in Seq(Text) /\ KeysFit(group, keySet)
    /\ pc = "header" => index.implicit = <<>> /\ DOMAIN index.docs = {} /\ reverseIndices = {}
    /\ pc = "decoded" => Used("position", reader) = Len(payload)

AllCounted == \A m \in Measures : Counted(m)

UseInv == PostingsInv /\ TypeInv /\ AllCounted

LEMMA NoIndex ==
    ASSUME NEW i, i = [implicit |-> <<>>, docs |-> <<>>]
    PROVE  IsIndex(i) /\ DOMAIN i.docs = {}
<1> DEFINE e == <<>>
<1>1. DOMAIN e = {} /\ e = [x \in {} |-> e[x]] /\ e \in Text
  BY DEF Text
<1>2. i.implicit = e /\ i.docs = e
  OBVIOUS
<1> HIDE DEF e
<1> QED
  BY <1>1, <1>2, FS_EmptySet DEF IsIndex, e

\* Nothing is read and nothing is counted.
LEMMA UseInit == Init => UseInv
<1> SUFFICES ASSUME Init PROVE UseInv
  OBVIOUS
<1>1. payload \in Text
  <2>1. /\ IsIndex(source)
        /\ \A d \in DOMAIN source.docs : IdsFit(source.docs[d].groups)
    BY SourcesAssumption DEF Init, IdsFit
  <2> QED
    BY <2>1, PayloadLength DEF Init
<1>2. IsIndex(index) /\ DOMAIN index.docs = {} /\ index.implicit = <<>>
  BY NoIndex DEF Init
<1>3. reverseIndices = {} /\ IsFiniteSet({})
  BY FS_EmptySet DEF Init
<1>4. IsDocument(document) /\ IdsFit(document.groups)
  <2>1. IsDocument(NewDocument)
    BY NoPropertiesUse DEF Measures
  <2>2. DOMAIN NewDocument.groups = {}
    BY DEF NewDocument
  <2> QED
    BY <2>1, <2>2 DEF Init, IdsFit
<1>5. id \in Long
  <2>1. LongMax \in Nat
    <3>1. WordSize \in Nat
      BY PowerStep, FormatAssumption DEF WordSize
    <3>2. LongMax \in Int
      BY <3>1 DEF LongMax
    <3> QED
      BY <3>2, FormatAssumption
  <2> QED
    BY <2>1 DEF Init, Long
<1>6. group \in Text /\ keySet \in Seq(Text) /\ KeysFit(group, keySet)
  BY DEF Init, Text, KeysFit
<1>7. limits \in Limits /\ pc = "header"
  BY DEF Init
<1>8. reader.position = 0 /\ reader.charged = 0 /\ reader.position \in 0..Len(payload)
  BY <1>1, TextLength DEF Init
<1>9. TypeInv
  BY <1>1, <1>2, <1>3, <1>4, <1>5, <1>6, <1>7, <1>8 DEF TypeInv
<1>10. AllCounted
  BY <1>7, <1>8 DEF AllCounted, Counted, CountedAt, Used
<1> QED
  BY <1>9, <1>10, PostingsInit DEF UseInv

\* What the invariant says of the reader and the limits.
LEMMA UseReader ==
    ASSUME UseInv
    PROVE  /\ IsAt(reader) /\ LimitsOK /\ payload \in Text
           /\ \A m \in Measures : Used(m, reader) \in Nat
           /\ kind \in 0..5
<1>1. IsAt(reader) /\ LimitsOK /\ payload \in Text /\ kind \in 0..5
  BY DEF UseInv, TypeInv, PostingsInv, BudgetInv, IsAt
<1> QED
  BY <1>1, TextLength DEF IsAt, InBudget, Used

LEMMA UseTypes ==
    ASSUME UseInv, NEW m \in Measures
    PROVE  /\ IndexUse(m, index) \in Nat /\ Word(m) \in Nat
           /\ GroupsUse(m, document.groups) \in Nat /\ PropertiesUse(m, document.properties) \in Nat
           /\ PartUse(m, document, kind) \in Nat
           /\ reverseIndices \union DOMAIN document.groups \in SUBSET Text
           /\ IsFiniteSet(reverseIndices \union DOMAIN document.groups)
           /\ NamesUse(m, reverseIndices) \in Nat
           /\ NamesUse(m, reverseIndices \union DOMAIN document.groups) \in Nat
           /\ GroupUse(m, group, keySet) \in Nat
           /\ KeysUse(m, group, keySet) \in Nat
           /\ NewNameUse(m, group, reverseIndices) \in Nat
<1>1. TypeInv
  BY DEF UseInv
<1>2. IndexUse(m, index) \in Nat /\ Word(m) \in Nat
  BY <1>1, IndexUseType, WordType DEF TypeInv
<1>3. IsGroups(document.groups) /\ IsProperties(document.properties)
  BY <1>1, DocumentParts DEF TypeInv
<1>4. GroupsUse(m, document.groups) \in Nat /\ PropertiesUse(m, document.properties) \in Nat
  BY <1>3, GroupsUseType, PropertiesUseType
<1>5. PartUse(m, document, kind) \in Nat
  <2>1. kind \in Nat
    BY UseReader
  <2>2. (2 + kind) * Word(m) \in Nat
    BY <1>2, <2>1
  <2> QED
    BY <1>4, <2>2 DEF PartUse
<1>6. /\ reverseIndices \union DOMAIN document.groups \in SUBSET Text
      /\ IsFiniteSet(reverseIndices \union DOMAIN document.groups)
  <2>1. /\ IsFiniteSet(reverseIndices) /\ IsFiniteSet(DOMAIN document.groups)
        /\ reverseIndices \subseteq Text /\ DOMAIN document.groups \subseteq Text
    BY <1>1, <1>3 DEF TypeInv, IsGroups
  <2> QED
    BY <2>1, FS_Union
<1>7. NamesUse(m, reverseIndices) \in Nat /\ NamesUse(m, reverseIndices \union DOMAIN document.groups) \in Nat
  BY <1>1, <1>6, NamesUseType DEF TypeInv
<1>8. GroupUse(m, group, keySet) \in Nat /\ KeysUse(m, group, keySet) \in Nat
  BY <1>1, GroupUseType, KeysUseType DEF TypeInv
<1>9. NewNameUse(m, group, reverseIndices) \in Nat
  BY <1>1, TextLength DEF NewNameUse, TypeInv
<1> QED
  BY <1>2, <1>4, <1>5, <1>6, <1>7, <1>8, <1>9

-----------------------------------------------------------------------------
(* Each step keeps the invariant                                           *)

\* A step that ends decode, or leaves alone what the invariant is about.
LEMMA UseSame ==
    ASSUME UseInv, UNCHANGED <<limits, payload, reader, index, reverseIndices, document, kind, id, group, keySet>>,
           pc' \in {pc, "rejected"}
    PROVE  TypeInv' /\ AllCounted'
<1>1. TypeInv'
  BY DEF UseInv, TypeInv
<1>2. AllCounted'
  BY DEF UseInv, AllCounted, Counted, CountedAt
<1> QED
  BY <1>1, <1>2

LEMMA UseRejected ==
    ASSUME UseInv, Reject
    PROVE  TypeInv' /\ AllCounted'
BY UseSame DEF Reject, inputVars, documentVars, resultVars

\* A payload changed before the load is one the reader may meet.
LEMMA UseChange ==
    ASSUME UseInv, Change
    PROVE  TypeInv' /\ AllCounted'
<1> USE DEF UseInv
<1>1. pc = "header" /\ pc' = pc /\ UNCHANGED <<limits, reader, index, reverseIndices, document, kind, id, group, keySet>>
  BY DEF Change, documentVars, resultVars
<1>2. PICK byte \in NewBytes[limits] :
        payload' \in {ReplaceAt(payload, i, byte) : i \in DOMAIN payload}
                       \union {Append(payload, byte), Front(payload)}
  BY DEF Change
<1>3. byte \in Byte
  BY LimitsAssumption DEF TypeInv
<1>4. payload \in Seq(Byte)
  BY DEF TypeInv, Text
<1>5. payload' \in Seq(Byte)
  <2>1. \A i \in DOMAIN payload : ReplaceAt(payload, i, byte) \in Seq(Byte)
    <3> TAKE i \in DOMAIN payload
    <3>1. i \in 1..Len(payload)
      BY <1>4
    <3> QED
      BY <1>3, <1>4, <3>1, ExceptSeq DEF ReplaceAt
  <2>2. Append(payload, byte) \in Seq(Byte)
    BY <1>3, <1>4
  <2>3. Front(payload) \in Seq(Byte)
    <3>1. \A i \in 1..(Len(payload) - 1) : payload[i] \in Byte
      <4>1. \A i \in 1..(Len(payload) - 1) : i \in 1..Len(payload)
        BY <1>4
      <4> QED
        BY <1>4, <4>1, ElementOfSeq
    <3>2. 1 \in Int /\ Len(payload) - 1 \in Int
      BY <1>4
    <3> QED
      BY <3>1, <3>2, SubSeqProperties DEF Front
  <2> QED
    BY <1>2, <2>1, <2>2, <2>3
<1>6. "position" \in Measures
  BY DEF Measures
<1>7. reader.position = 0
  BY <1>1, <1>6 DEF AllCounted, Counted, CountedAt, Used
<1>8. reader'.position \in 0..Len(payload')
  BY <1>1, <1>5, <1>7
<1>9. TypeInv'
  BY <1>1, <1>5, <1>8 DEF TypeInv, Text
<1>10. AllCounted'
  BY <1>1 DEF AllCounted, Counted, CountedAt
<1> QED
  BY <1>9, <1>10

\* The header: the implicit group is charged, and is the first name.
LEMMA UseReadIndex ==
    ASSUME UseInv, ReadIndex
    PROVE  TypeInv' /\ AllCounted'
<1> DEFINE implicit == ReadText(reader)
           count == ReadCount(implicit, limits.documents, DocumentMinimum)
<1> SUFFICES ASSUME count.ok, pc = "header", pc' = "document", reader' = count,
                    index' = [index EXCEPT !.implicit = implicit.value],
                    UNCHANGED <<inputVars, kind, id, document, group, keySet, reverseIndices>>
             PROVE  TypeInv' /\ AllCounted'
  BY UseRejected DEF ReadIndex, documentVars
<1>1. IsAt(reader) /\ LimitsOK /\ payload \in Text
  BY UseReader
<1>2. /\ IsAt(implicit)
      /\ implicit.ok => /\ implicit.value \in Text
                        /\ \A m \in Measures :
                             Used(m, implicit) = Used(m, reader) + Word(m) + Len(implicit.value)
  BY <1>1, ReadTextAt
<1> HIDE DEF implicit
<1>3. /\ IsAt(count)
      /\ count.ok => implicit.ok /\ \A m \in Measures : Used(m, count) = Used(m, implicit) + Word(m)
  BY <1>1, <1>2, ReadCountAt
<1> HIDE DEF count
<1>4. /\ DOMAIN index.docs = {} /\ reverseIndices = {}
      /\ index = [implicit |-> index.implicit, docs |-> index.docs]
      /\ index.docs = [d \in DOMAIN index.docs |-> index.docs[d]]
  BY DEF UseInv, TypeInv, IsIndex
<1>5. index' = [implicit |-> implicit.value, docs |-> index.docs]
  BY <1>4
<1>6. implicit.value \in Text /\ limits' = limits /\ payload' = payload
  BY <1>2, <1>3 DEF inputVars
<1>7. IsIndex(index') /\ DOMAIN index'.docs = {} /\ index'.implicit = implicit.value
  <2>1. index'.docs = index.docs /\ index'.implicit = implicit.value
    BY <1>5
  <2> QED
    BY <1>4, <1>5, <1>6, <2>1, FS_EmptySet DEF IsIndex
<1>8. count.position \in 0..Len(payload)
  BY <1>3 DEF IsAt
<1>9. TypeInv'
  BY <1>6, <1>7, <1>8 DEF UseInv, TypeInv
<1>10. ASSUME NEW m \in Measures
       PROVE  Counted(m)'
  <2>1. Used(m, reader) = 0
    BY DEF UseInv, AllCounted, Counted, CountedAt
  <2>2. Used(m, count) = 0 + Word(m) + Len(implicit.value) + Word(m)
    BY <1>2, <1>3, <2>1
  <2>3. IndexUse(m, index') = 2 * Word(m) + Len(implicit.value)
    BY <1>7, IndexUseType
  <2>4. NamesUse(m, {}) = 0
    BY NoNamesUse
  <2>5. Word(m) \in Nat /\ Len(implicit.value) \in Nat
    BY <1>6, WordType, TextLength
  <2>6. Used(m, reader') = IndexUse(m, index') + NamesUse(m, reverseIndices')
    BY <1>4, <2>2, <2>3, <2>4, <2>5
  <2> QED
    BY <2>6 DEF Counted, CountedAt
<1> QED
  BY <1>9, <1>10 DEF AllCounted

\* The ID of a document is a word, and nothing of it is read yet.
LEMMA UseBeginDocument ==
    ASSUME UseInv, BeginDocument
    PROVE  TypeInv' /\ AllCounted'
<1> DEFINE native == ReadNative(reader, LongMax)
           maximum == Left(limits.keys, keysTotal)
           count == ReadCount(native, maximum, EntryMinimum)
<1> SUFFICES ASSUME count.ok, pc = "document", pc' = "group", reader' = count, kind' = 0,
                    id' = native.value, document' = NewDocument,
                    UNCHANGED <<inputVars, group, keySet, index, reverseIndices>>
             PROVE  TypeInv' /\ AllCounted'
  BY UseRejected DEF BeginDocument, resultVars
<1>1. IsAt(reader) /\ LimitsOK /\ payload \in Text /\ \A m \in Measures : Used(m, reader) \in Nat
  BY UseReader
<1>2. /\ IsAt(native)
      /\ native.ok => /\ native.value \in (-LongMax - 1)..LongMax
                      /\ \A m \in Measures : Used(m, native) = Used(m, reader) + Word(m)
  BY <1>1, ReadNativeAt
<1> HIDE DEF native, maximum
<1>3. /\ IsAt(count)
      /\ count.ok => native.ok /\ \A m \in Measures : Used(m, count) = Used(m, native) + Word(m)
  BY <1>1, <1>2, ReadCountAt
<1> HIDE DEF count
<1>4. id' \in Long
  BY <1>2, <1>3 DEF Long
<1>5. IsDocument(NewDocument) /\ DOMAIN NewDocument.groups = {}
  BY NoPropertiesUse DEF Measures, NewDocument
<1>6. count.position \in 0..Len(payload)
  BY <1>3 DEF IsAt
<1>7. TypeInv'
  BY <1>4, <1>5, <1>6 DEF UseInv, TypeInv, IdsFit, inputVars
<1>8. ASSUME NEW m \in Measures
      PROVE  Counted(m)'
  <2>1. Used(m, reader) = IndexUse(m, index) + NamesUse(m, reverseIndices)
    BY DEF UseInv, AllCounted, Counted, CountedAt
  <2>2. Used(m, count) = Used(m, reader) + Word(m) + Word(m)
    BY <1>2, <1>3
  <2>3. PartUse(m, NewDocument, 0) = 2 * Word(m)
    BY NoPropertiesUse, WordType DEF PartUse
  <2>4. reverseIndices \union DOMAIN NewDocument.groups = reverseIndices
    BY <1>5
  <2>5. Word(m) \in Nat /\ IndexUse(m, index) \in Nat /\ NamesUse(m, reverseIndices) \in Nat
    BY UseTypes
  <2>6. Used(m, count) = IndexUse(m, index) + PartUse(m, NewDocument, 0)
                           + NamesUse(m, reverseIndices \union DOMAIN NewDocument.groups)
    <3> DEFINE n == NamesUse(m, reverseIndices)
               i == IndexUse(m, index)
               w == Word(m)
               c == Used(m, count)
    <3>1. c = i + n + w + w /\ w \in Nat /\ i \in Nat /\ n \in Nat
      BY <2>1, <2>2, <2>5
    <3> HIDE DEF n, i, w, c
    <3>2. c = i + 2 * w + n
      BY <3>1
    <3> QED
      BY <2>3, <2>4, <3>2 DEF n, i, w, c
  <2> QED
    BY <2>6 DEF Counted, CountedAt
<1> QED
  BY <1>7, <1>8 DEF AllCounted

LEMMA UseBeginGroup ==
    ASSUME UseInv, BeginGroup
    PROVE  TypeInv' /\ AllCounted'
<1> DEFINE name == ReadText(reader)
           charged == IF name.ok THEN ChargeReverseIndex(name) ELSE name
           maximum == Left(limits.keys, keysTotal)
           count == ReadCount(charged, maximum, EntryMinimum)
<1> SUFFICES ASSUME count.ok, pc = "group", pc' = "key", reader' = count,
                    group' = name.value, keySet' = <<>>,
                    UNCHANGED <<inputVars, kind, id, document, index, reverseIndices>>
             PROVE  TypeInv' /\ AllCounted'
  BY UseRejected DEF BeginGroup, resultVars
<1>1. IsAt(reader) /\ LimitsOK /\ payload \in Text /\ \A m \in Measures : Used(m, reader) \in Nat
  BY UseReader
<1>2. /\ IsAt(name)
      /\ name.ok => /\ name.value \in Text
                    /\ \A m \in Measures : Used(m, name) = Used(m, reader) + Word(m) + Len(name.value)
  BY <1>1, ReadTextAt
<1> HIDE DEF name
<1>3. name.ok => Len(name.value) \in Nat
  BY <1>2, TextLength
<1>4. IsAt(charged) /\ (charged.ok => name.ok)
  <2>1. IsAt(Charge(name, Len(name.value))) /\ (Charge(name, Len(name.value)).ok => name.ok)
    BY <1>1, <1>2, <1>3, ChargeAt
  <2> QED
    BY <1>2, <2>1 DEF ChargeReverseIndex
<1>5. ASSUME charged.ok, NEW m \in Measures
      PROVE  Used(m, charged) = Used(m, name) + NewNameUse(m, name.value, reverseIndices)
  <2>1. charged = ChargeReverseIndex(name) /\ name.ok
    BY <1>4, <1>5
  <2>2. Used(m, name) \in Nat
    BY <1>2, TextLength DEF IsAt, InBudget, Used
  <2>3. CASE name.value \in reverseIndices
    BY <2>1, <2>2, <2>3 DEF ChargeReverseIndex, NewNameUse
  <2>4. CASE name.value \notin reverseIndices
    <3> DEFINE s == Charge(name, Len(name.value))
    <3>1. charged = s
      BY <2>1, <2>4 DEF ChargeReverseIndex
    <3>2. s.ok => /\ Used("position", s) = Used("position", name)
                  /\ Used("charged", s) = Used("charged", name) + Len(name.value)
      BY <1>1, <1>2, <1>3, ChargeAt
    <3> HIDE DEF s, charged
    <3> QED
      BY <1>5, <2>2, <2>4, <3>1, <3>2 DEF NewNameUse, Measures
  <2> QED
    BY <2>3, <2>4
<1> HIDE DEF charged, maximum
<1>6. /\ IsAt(count)
      /\ count.ok => charged.ok /\ \A m \in Measures : Used(m, count) = Used(m, charged) + Word(m)
  BY <1>1, <1>4, ReadCountAt
<1> HIDE DEF count
<1>7. name.value \in Text
  BY <1>2, <1>4, <1>6
<1>8. count.position \in 0..Len(payload)
  BY <1>6 DEF IsAt
<1>9. TypeInv'
  BY <1>7, <1>8 DEF UseInv, TypeInv, KeysFit, inputVars
<1>10. ASSUME NEW m \in Measures
       PROVE  Counted(m)'
  <2> DEFINE n == NamesUse(m, reverseIndices \union DOMAIN document.groups)
             i == IndexUse(m, index)
             p == PartUse(m, document, kind)
             w == Word(m)
             l == Len(name.value)
             x == NewNameUse(m, name.value, reverseIndices)
             c == Used(m, count)
             u == GroupUse(m, name.value, <<>>)
  <2>1. Used(m, reader) = i + p + n
    BY DEF UseInv, AllCounted, Counted, CountedAt
  <2>2. c = (i + p + n) + w + l + x + w
    BY <1>2, <1>4, <1>5, <1>6, <2>1
  <2>3. i \in Nat /\ p \in Nat /\ n \in Nat /\ w \in Nat
    BY UseTypes
  <2>4. l \in Nat /\ x \in Nat
    BY <1>7, TextLength DEF NewNameUse
  <2>5. u = l + 2 * w + 0
    BY KeysUseEmpty DEF GroupUse
  <2> HIDE DEF n, i, p, w, l, x, c, u
  <2>6. c = i + p + n + u + x
    BY <2>2, <2>3, <2>4, <2>5
  <2>7. /\ Used(m, reader') = IndexUse(m, index') + PartUse(m, document', kind')
              + NamesUse(m, reverseIndices' \union DOMAIN document'.groups)
              + GroupUse(m, group', keySet') + NewNameUse(m, group', reverseIndices')
    BY <2>6 DEF n, i, p, x, c, u
  <2> QED
    BY <2>7 DEF Counted, CountedAt
<1> QED
  BY <1>9, <1>10 DEF AllCounted

\* A key is charged with the copy of its group.
LEMMA UseReadKey ==
    ASSUME UseInv, ReadKey
    PROVE  TypeInv' /\ AllCounted'
<1> DEFINE string == ReadText(reader)
           native == ReadNative(string, LongMax)
           key == ChargeKey(native)
<1> SUFFICES ASSUME key.ok, KeyId(group, string.value) = key.value, pc = "key", pc' = pc, reader' = key,
                    keySet' = Append(keySet, string.value),
                    UNCHANGED <<inputVars, kind, id, document, group, index, reverseIndices>>
             PROVE  TypeInv' /\ AllCounted'
  BY UseRejected DEF ReadKey, resultVars
<1>1. IsAt(reader) /\ LimitsOK /\ payload \in Text /\ \A m \in Measures : Used(m, reader) \in Nat
  BY UseReader
<1>2. /\ IsAt(string)
      /\ string.ok => /\ string.value \in Text
                      /\ \A m \in Measures : Used(m, string) = Used(m, reader) + Word(m) + Len(string.value)
  BY <1>1, ReadTextAt
<1> HIDE DEF string
<1>3. /\ IsAt(native)
      /\ native.ok => /\ string.ok /\ native.value \in (-LongMax - 1)..LongMax
                      /\ \A m \in Measures : Used(m, native) = Used(m, string) + Word(m)
  BY <1>1, <1>2, ReadNativeAt
<1> HIDE DEF native
<1>4. group \in Text /\ Len(group) \in Nat
  BY TextLength DEF UseInv, TypeInv
<1>5. /\ IsAt(key)
      /\ key.ok => /\ native.ok /\ key.value = native.value
                   /\ Used("position", key) = Used("position", native)
                   /\ Used("charged", key) = Used("charged", native) + Len(group)
  BY <1>1, <1>3, <1>4, ChargeAt DEF ChargeKey
<1> HIDE DEF key
<1>6. string.value \in Text /\ KeyId(group, string.value) \in Long
  BY <1>2, <1>3, <1>5 DEF Long
<1>7. key.position \in 0..Len(payload)
  BY <1>5 DEF IsAt
<1>8. keySet \in Seq(Text) /\ KeysFit(group, keySet)
  BY DEF UseInv, TypeInv
<1>9. keySet' \in Seq(Text) /\ KeysFit(group, keySet')
  <2> DEFINE s == string.value
             n == Len(keySet)
             more == Append(keySet, s)
  <2>1. /\ more \in Seq(Text) /\ n \in Nat /\ DOMAIN more = 1..(n + 1) /\ DOMAIN keySet = 1..n
        /\ \A i \in 1..n : more[i] = keySet[i]
        /\ more[n + 1] = s
    BY <1>6, <1>8
  <2> HIDE DEF more, n
  <2>2. \A i \in 1..(n + 1) : i = n + 1 \/ i \in 1..n
    BY <2>1
  <2>3. KeysFit(group, more)
    BY <1>6, <1>8, <2>1, <2>2 DEF KeysFit
  <2> QED
    BY <2>1, <2>3 DEF more
<1>10. TypeInv'
  BY <1>7, <1>9 DEF UseInv, TypeInv, inputVars
<1>11. ASSUME NEW m \in Measures
       PROVE  Counted(m)'
  <2> DEFINE n == NamesUse(m, reverseIndices \union DOMAIN document.groups)
             i == IndexUse(m, index)
             p == PartUse(m, document, kind)
             w == Word(m)
             l == Len(string.value)
             x == NewNameUse(m, group, reverseIndices)
             c == Used(m, key)
             u == GroupUse(m, group, keySet)
             v == GroupUse(m, group, keySet')
             e == Extra(m, group)
             k == KeysUse(m, group, keySet)
             o == Len(group)
  <2>1. Used(m, reader) = i + p + n + u + x
    BY DEF UseInv, AllCounted, Counted, CountedAt
  <2>2. Used(m, native) = (i + p + n + u + x) + w + l + w
    BY <1>2, <1>3, <1>5, <2>1
  <2>3. i \in Nat /\ p \in Nat /\ n \in Nat /\ w \in Nat /\ u \in Nat /\ x \in Nat /\ k \in Nat
    BY UseTypes
  <2>4. l \in Nat /\ e \in Nat /\ o \in Nat
    BY <1>4, <1>6, TextLength, WordType
  <2>5. KeysUse(m, group, keySet') = k + l + e
    BY <1>4, <1>6, <1>8, KeysUseMore
  <2>6. u = o + 2 * w + k /\ v = o + 2 * w + (k + l + e)
    BY <2>5 DEF GroupUse
  <2>7. c = (i + p + n + u + x) + w + l + w + (IF m = "position" THEN 0 ELSE o)
    <3> DEFINE z == Used(m, native)
    <3>1. c = z + (IF m = "position" THEN 0 ELSE o)
      <4>1. z \in Nat
        BY <1>3, TextLength DEF IsAt, InBudget, Used
      <4> QED
        BY <1>4, <1>5, <4>1 DEF Measures
    <3> HIDE DEF z, c
    <3> QED
      BY <2>2, <3>1 DEF z
  <2>8. w + w + (IF m = "position" THEN 0 ELSE o) = e
    BY <2>3, <2>4, FormatAssumption DEF Word, Extra
  <2> HIDE DEF n, i, p, w, l, x, c, u, v, e, k, o
  <2>9. c = i + p + n + v + x
    <3> DEFINE y == IF m = "position" THEN 0 ELSE o
    <3>1. y \in Nat
      BY <2>4
    <3>2. c = (i + p + n + u + x) + w + l + w + y /\ w + w + y = e
      BY <2>7, <2>8
    <3> HIDE DEF y
    <3> QED
      BY <2>3, <2>4, <2>6, <3>1, <3>2
  <2>10. Used(m, reader') = IndexUse(m, index') + PartUse(m, document', kind')
              + NamesUse(m, reverseIndices' \union DOMAIN document'.groups)
              + GroupUse(m, group', keySet') + NewNameUse(m, group', reverseIndices')
    BY <2>9 DEF n, i, p, x, c, v
  <2> QED
    BY <2>10 DEF Counted, CountedAt
<1> QED
  BY <1>10, <1>11 DEF AllCounted

\* A group moves from the part being read to the part of the document.
LEMMA UseEndGroup ==
    ASSUME UseInv, EndGroup
    PROVE  TypeInv' /\ AllCounted'
<1> DEFINE groups == document.groups
           more == Emplace(groups, group, keySet)
<1> SUFFICES ASSUME pc = "key", group \notin DOMAIN groups, pc' = "group",
                    document' = [document EXCEPT !.groups = more],
                    UNCHANGED <<inputVars, reader, kind, id, group, keySet, index, reverseIndices>>
             PROVE  TypeInv' /\ AllCounted'
  BY UseRejected DEF EndGroup, resultVars
<1>1. /\ IsDocument(document) /\ IdsFit(groups)
      /\ group \in Text /\ keySet \in Seq(Text) /\ KeysFit(group, keySet)
  BY DEF UseInv, TypeInv
<1>2. /\ document = [groups |-> groups, properties |-> document.properties]
      /\ IsGroups(groups) /\ IsProperties(document.properties)
  BY <1>1, DocumentParts
<1>3. DOMAIN more = DOMAIN groups \union {group} /\ more[group] = keySet /\ \A g \in DOMAIN groups : more[g] = groups[g]
  BY DEF Emplace
<1>4. IsGroups(more) /\ \A m \in Measures : GroupsUse(m, more) = GroupsUse(m, groups) + GroupUse(m, group, keySet)
  <2>1. "position" \in Measures
    BY DEF Measures
  <2> QED
    BY <1>1, <1>2, <2>1, GroupsUseMore
<1>5. IdsFit(more)
  <2> HIDE DEF more
  <2> QED
    BY <1>1, <1>3 DEF IdsFit, KeysFit
<1>6. document' = [groups |-> more, properties |-> document.properties]
  <2> HIDE DEF more
  <2> QED
    BY <1>2
<1> HIDE DEF more
<1>7. document'.groups = more /\ document'.properties = document.properties
  BY <1>6
<1>8. IsDocument(document')
  BY <1>2, <1>4, <1>6, <1>7, DocumentParts
<1>9. TypeInv'
  BY <1>5, <1>7, <1>8 DEF UseInv, TypeInv, inputVars
<1>10. ASSUME NEW m \in Measures
       PROVE  Counted(m)'
  <2> DEFINE names == reverseIndices \union DOMAIN groups
             n == NamesUse(m, names)
             i == IndexUse(m, index)
             w == (2 + kind) * Word(m)
             a == GroupsUse(m, groups)
             b == PropertiesUse(m, document.properties)
             x == NewNameUse(m, group, reverseIndices)
             u == GroupUse(m, group, keySet)
             c == Used(m, reader)
             q == NamesUse(m, reverseIndices \union DOMAIN more)
  <2>1. c = i + (w + a + b) + n + u + x
    BY DEF UseInv, AllCounted, Counted, CountedAt, PartUse
  <2>2. i \in Nat /\ a \in Nat /\ b \in Nat /\ n \in Nat /\ u \in Nat /\ x \in Nat
    BY UseTypes
  <2>3. w \in Nat
    <3>1. kind \in Nat /\ Word(m) \in Nat
      BY UseReader, UseTypes
    <3> QED
      BY <3>1
  <2>4. q = n + x
    <3>1. CASE group \in reverseIndices
      <4>1. reverseIndices \union DOMAIN more = names
        BY <1>3, <3>1
      <4>2. x = 0
        BY <3>1 DEF NewNameUse
      <4> HIDE DEF n, x, names
      <4>3. q = n
        BY <4>1 DEF n
      <4> QED
        BY <2>2, <4>2, <4>3
    <3>2. CASE group \notin reverseIndices
      <4>1. reverseIndices \union DOMAIN more = names \union {group} /\ group \notin names
        BY <1>3, <3>2
      <4>2. names \in SUBSET Text /\ IsFiniteSet(names)
        BY UseTypes
      <4>3. NewNameUse(m, group, names) = x
        BY <3>2, <4>1 DEF NewNameUse
      <4> HIDE DEF names
      <4>4. NamesUse(m, names \union {group}) = NamesUse(m, names) + NewNameUse(m, group, names)
        BY <1>1, <4>1, <4>2, NamesUseMore
      <4> QED
        BY <4>1, <4>3, <4>4
    <3> QED
      BY <3>1, <3>2
  <2>5. GroupsUse(m, more) = a + u
    BY <1>4
  <2> HIDE DEF n, i, w, a, b, x, u, c, q, names
  <2>6. c = i + (w + (a + u) + b) + q
    BY <2>1, <2>2, <2>3, <2>4
  <2>7. PartUse(m, document', kind') = w + (a + u) + b
    BY <1>7, <2>5 DEF PartUse, w, b
  <2>8. Used(m, reader') = IndexUse(m, index') + PartUse(m, document', kind')
                             + NamesUse(m, reverseIndices' \union DOMAIN document'.groups)
    BY <1>7, <2>6, <2>7 DEF c, i, q
  <2> QED
    BY <2>8 DEF Counted, CountedAt
<1> QED
  BY <1>9, <1>10 DEF AllCounted

\* The number of properties of a kind is a word.
LEMMA UseBeginProperties ==
    ASSUME UseInv, BeginProperties
    PROVE  TypeInv' /\ AllCounted'
<1> DEFINE maximum == Left(limits.properties, propertiesTotal)
           count == ReadCount(reader, maximum, EntryMinimum)
<1> SUFFICES ASSUME count.ok, pc \in {"group", "property"}, pc' = "property", reader' = count,
                    kind' = kind + 1,
                    UNCHANGED <<inputVars, id, document, group, keySet, index, reverseIndices>>
             PROVE  TypeInv' /\ AllCounted'
  BY UseRejected DEF BeginProperties, documentVars, resultVars
<1>1. IsAt(reader) /\ payload \in Text /\ kind \in 0..5 /\ \A m \in Measures : Used(m, reader) \in Nat
  BY UseReader
<1> HIDE DEF maximum
<1>2. IsAt(count) /\ (count.ok => \A m \in Measures : Used(m, count) = Used(m, reader) + Word(m))
  BY <1>1, ReadCountAt
<1> HIDE DEF count
<1>3. count.position \in 0..Len(payload)
  BY <1>2 DEF IsAt
<1>4. TypeInv'
  BY <1>3 DEF UseInv, TypeInv, inputVars
<1>5. ASSUME NEW m \in Measures
      PROVE  Counted(m)'
  <2> DEFINE n == NamesUse(m, reverseIndices \union DOMAIN document.groups)
             i == IndexUse(m, index)
             w == Word(m)
             a == GroupsUse(m, document.groups)
             b == PropertiesUse(m, document.properties)
             c == Used(m, count)
  <2>1. Used(m, reader) = i + ((2 + kind) * w + a + b) + n
    BY DEF UseInv, AllCounted, Counted, CountedAt, PartUse
  <2>2. i \in Nat /\ a \in Nat /\ b \in Nat /\ n \in Nat /\ w \in Nat
    BY UseTypes
  <2>3. c = Used(m, reader) + w
    BY <1>2
  <2>4. PartUse(m, document, kind + 1) = (2 + (kind + 1)) * w + a + b
    BY DEF PartUse
  <2> HIDE DEF n, i, w, a, b, c
  <2>5. (2 + (kind + 1)) * w = (2 + kind) * w + w /\ (2 + kind) * w \in Nat
    BY <1>1, <2>2
  <2> DEFINE k == (2 + kind) * w
  <2>6. c = i + (k + a + b) + n + w /\ k \in Nat /\ PartUse(m, document, kind + 1) = (k + w) + a + b
    BY <2>1, <2>3, <2>4, <2>5
  <2> HIDE DEF k
  <2>7. c = i + PartUse(m, document, kind + 1) + n
    BY <2>2, <2>6
  <2>8. Used(m, reader') = IndexUse(m, index') + PartUse(m, document', kind')
                             + NamesUse(m, reverseIndices' \union DOMAIN document'.groups)
    BY <2>7 DEF c, i, n
  <2> QED
    BY <2>8 DEF Counted, CountedAt
<1> QED
  BY <1>4, <1>5 DEF AllCounted

\* A property is read into the document, where no other has its name.
LEMMA UseReadProperty ==
    ASSUME UseInv, ReadProperty
    PROVE  TypeInv' /\ AllCounted'
<1> DEFINE type == PropertyKinds[kind]
           name == ReadText(reader)
           value == ReadValue(name, type)
           properties == document.properties
           more == [properties EXCEPT ![type] = Emplace(@, name.value, value.value)]
<1> SUFFICES ASSUME value.ok, name.value \notin DOMAIN properties[type], pc = "property", pc' = pc,
                    reader' = value,
                    document' = [document EXCEPT !.properties[type] = Emplace(@, name.value, value.value)],
                    UNCHANGED <<inputVars, kind, id, group, keySet, index, reverseIndices>>
             PROVE  TypeInv' /\ AllCounted'
  BY UseRejected DEF ReadProperty, resultVars
<1>1. IsAt(reader) /\ LimitsOK /\ payload \in Text /\ \A m \in Measures : Used(m, reader) \in Nat
  BY UseReader
<1>2. /\ IsAt(name)
      /\ name.ok => /\ name.value \in Text
                    /\ \A m \in Measures : Used(m, name) = Used(m, reader) + Word(m) + Len(name.value)
  BY <1>1, ReadTextAt
<1>3. type \in ToSet(PropertyKinds)
  <2>1. kind \in 1..5
    BY DEF UseInv, PostingsInv, BudgetInv
  <2> QED
    BY <2>1, KindsAre
<1>4. /\ IsDocument(document) /\ IdsFit(document.groups)
      /\ document = [groups |-> document.groups, properties |-> properties]
      /\ IsGroups(document.groups) /\ IsProperties(properties)
  BY DocumentParts DEF UseInv, TypeInv
<1>5. document' = [groups |-> document.groups, properties |-> more]
  <2> DEFINE new == Emplace(properties[type], name.value, value.value)
  <2>1. more = [properties EXCEPT ![type] = new]
    OBVIOUS
  <2>2. document' = [document EXCEPT !.properties = [document.properties EXCEPT ![type] = new]]
    OBVIOUS
  <2> HIDE DEF new, type
  <2>3. document' = [document EXCEPT !.properties = more]
    BY <2>1, <2>2
  <2> HIDE DEF more
  <2> QED
    BY <1>4, <2>3
<1> HIDE DEF name, type
<1>6. /\ IsAt(value)
      /\ value.ok => /\ name.ok /\ value.value \in PropertyValues(type)
                     /\ \A m \in Measures :
                          Used(m, value) = Used(m, name) + Word(m) + ValueUse(type, value.value)
  BY <1>1, <1>2, <1>3, ReadValueAt
<1> HIDE DEF value, properties
<1>7. name.value \in Text /\ value.value \in PropertyValues(type)
  BY <1>2, <1>6
<1>8. /\ IsProperties(more)
      /\ \A m \in Measures :
           PropertiesUse(m, more) = PropertiesUse(m, properties)
             + (Len(name.value) + 2 * Word(m) + ValueUse(type, value.value))
  <2>1. "position" \in Measures
    BY DEF Measures
  <2>2. \A m \in Measures : /\ IsProperties(more)
                            /\ PropertiesUse(m, more) = PropertiesUse(m, properties)
                                 + (Len(name.value) + 2 * Word(m) + ValueUse(type, value.value))
    BY <1>3, <1>4, <1>7, PropertiesUseMore
  <2> QED
    BY <2>1, <2>2
<1> HIDE DEF more
<1>9. document'.groups = document.groups /\ document'.properties = more
  BY <1>5
<1>10. IsDocument(document')
  BY <1>4, <1>5, <1>8, <1>9, DocumentParts
<1>11. value.position \in 0..Len(payload)
  BY <1>6 DEF IsAt
<1>12. TypeInv'
  BY <1>4, <1>9, <1>10, <1>11 DEF UseInv, TypeInv, inputVars
<1>13. ASSUME NEW m \in Measures
       PROVE  Counted(m)'
  <2> DEFINE n == NamesUse(m, reverseIndices \union DOMAIN document.groups)
             i == IndexUse(m, index)
             w == Word(m)
             k == (2 + kind) * w
             a == GroupsUse(m, document.groups)
             b == PropertiesUse(m, document.properties)
             l == Len(name.value)
             v == ValueUse(type, value.value)
             c == Used(m, value)
  <2>1. Used(m, reader) = i + (k + a + b) + n
    BY DEF UseInv, AllCounted, Counted, CountedAt, PartUse
  <2>2. i \in Nat /\ a \in Nat /\ b \in Nat /\ n \in Nat /\ w \in Nat
    BY UseTypes
  <2>3. c = (i + (k + a + b) + n) + w + l + w + v
    BY <1>2, <1>6, <2>1
  <2>4. l \in Nat /\ v \in Nat
    BY <1>3, <1>7, TextLength, ValueUseType
  <2>5. PropertiesUse(m, more) = b + (l + 2 * w + v)
    BY <1>8 DEF properties
  <2>6. k \in Nat
    <3>1. kind \in Nat
      BY UseReader
    <3> HIDE DEF w
    <3> QED
      BY <2>2, <3>1
  <2>7. PartUse(m, document', kind') = k + a + (b + (l + 2 * w + v))
    BY <1>9, <2>5 DEF PartUse
  <2> HIDE DEF n, i, w, a, b, c, k, l, v
  <2>8. c = i + (k + a + (b + (l + 2 * w + v))) + n
    BY <2>2, <2>3, <2>4, <2>6
  <2>9. Used(m, reader') = IndexUse(m, index') + PartUse(m, document', kind')
                             + NamesUse(m, reverseIndices' \union DOMAIN document'.groups)
    BY <1>9, <2>7, <2>8 DEF c, i, n
  <2> QED
    BY <2>9 DEF Counted, CountedAt
<1> QED
  BY <1>12, <1>13 DEF AllCounted

\* A document moves from the part being read to the index: its ID is new.
LEMMA UseAddDocument ==
    ASSUME UseInv, AddDocument
    PROVE  TypeInv' /\ AllCounted'
<1> DEFINE docs == Emplace(index.docs, id, document)
<1>1. /\ pc = "property" /\ kind = 5 /\ pc' = "document"
      /\ index' = [index EXCEPT !.docs = docs]
      /\ reverseIndices' = reverseIndices \union DOMAIN document.groups
      /\ UNCHANGED <<inputVars, reader, kind, id, document, group, keySet>>
  BY KindsAre DEF AddDocument, documentVars
<1>2. /\ IsIndex(index) /\ IsDocument(document) /\ IdsFit(document.groups) /\ id \in Long
      /\ index = [implicit |-> index.implicit, docs |-> index.docs]
      /\ \A d \in DOMAIN index.docs : IdsFit(index.docs[d].groups)
  BY DEF UseInv, TypeInv, PostingsInv
<1>3. id \notin DOMAIN index.docs
  BY <1>1 DEF UseInv, PostingsInv
<1>4. index' = [implicit |-> index.implicit, docs |-> docs]
  <2> HIDE DEF docs
  <2> QED
    BY <1>1, <1>2
<1>5. IsIndex(index') /\ \A m \in Measures : IndexUse(m, index') = IndexUse(m, index) + DocumentUse(m, document)
  <2>1. "position" \in Measures
    BY DEF Measures
  <2>2. \A m \in Measures : IsIndex(index') /\ IndexUse(m, index') = IndexUse(m, index) + DocumentUse(m, document)
    BY <1>2, <1>3, <1>4, IndexUseMore
  <2> QED
    BY <2>1, <2>2
<1>6. \A d \in DOMAIN index'.docs : IdsFit(index'.docs[d].groups)
  <2>1. DOMAIN docs = DOMAIN index.docs \union {id} /\ docs[id] = document /\ \A d \in DOMAIN index.docs : docs[d] = index.docs[d]
    BY <1>3 DEF Emplace
  <2>2. index'.docs = docs
    BY <1>4
  <2> HIDE DEF docs
  <2> QED
    BY <1>2, <2>1, <2>2
<1> HIDE DEF docs
<1>7. "position" \in Measures
  BY DEF Measures
<1>8. IsFiniteSet(reverseIndices') /\ reverseIndices' \subseteq Text
  BY <1>1, <1>7, UseTypes
<1>9. TypeInv'
  BY <1>1, <1>5, <1>6, <1>8 DEF UseInv, TypeInv, inputVars
<1>10. ASSUME NEW m \in Measures
       PROVE  Counted(m)'
  <2> DEFINE n == NamesUse(m, reverseIndices \union DOMAIN document.groups)
             i == IndexUse(m, index)
             p == PartUse(m, document, kind)
             c == Used(m, reader)
  <2>1. c = i + p + n
    BY <1>1 DEF UseInv, AllCounted, Counted, CountedAt
  <2>2. p = DocumentUse(m, document)
    <3>1. (2 + 5) * Word(m) = 7 * Word(m)
      BY WordType
    <3> QED
      BY <1>1, <3>1 DEF PartUse, DocumentUse
  <2> HIDE DEF n, i, p, c
  <2>3. Used(m, reader') = IndexUse(m, index') + NamesUse(m, reverseIndices')
    BY <1>1, <1>5, <2>1, <2>2 DEF n, i, c
  <2> QED
    BY <1>1, <2>3 DEF Counted, CountedAt
<1> QED
  BY <1>9, <1>10 DEF AllCounted

\* At the end no part is left, and the whole count is the index's.
LEMMA UseFinish ==
    ASSUME UseInv, Finish
    PROVE  TypeInv' /\ AllCounted'
<1> SUFFICES ASSUME pc = "document", Remaining(reader) = 0, pc' = "decoded",
                    UNCHANGED <<inputVars, reader, kind, id, document, group, keySet, index, reverseIndices>>
             PROVE  TypeInv' /\ AllCounted'
  BY UseRejected DEF Finish, documentVars, resultVars
<1>1. Used("position", reader) = Len(payload)
  <2>1. payload \in Text /\ reader.position \in 0..Len(payload)
    BY DEF UseInv, TypeInv
  <2>2. Len(payload) \in Nat
    BY <2>1, TextLength
  <2> QED
    BY <2>1, <2>2 DEF Remaining, Used
<1>2. TypeInv'
  BY <1>1 DEF UseInv, TypeInv, inputVars
<1>3. AllCounted'
  BY DEF UseInv, AllCounted, Counted, CountedAt
<1> QED
  BY <1>2, <1>3

\* Every step preserves the invariant.
LEMMA UseStep == UseInv /\ [Next]_vars => UseInv'
<1> SUFFICES ASSUME UseInv, [Next]_vars PROVE UseInv'
  OBVIOUS
<1>1. CASE UNCHANGED vars
  BY <1>1, UseSame, PostingsStep DEF vars, inputVars, documentVars, resultVars, UseInv
<1>2. CASE Next
  <2>1. TypeInv' /\ AllCounted'
    BY <1>2, UseChange, UseReadIndex, UseBeginDocument, UseBeginGroup, UseReadKey, UseEndGroup,
       UseBeginProperties, UseReadProperty, UseAddDocument, UseFinish DEF Next
  <2> QED
    BY <2>1, PostingsStep DEF UseInv
<1> QED
  BY <1>1, <1>2

\* Whatever bytes decode accepts, under any limits and with any hash, it has
\* charged exactly the text that the index retains.
THEOREM ChargedTextIsAlwaysRetained == Spec => []ChargedTextIsRetained
<1>1. UseInv => ChargedTextIsRetained
  <2> SUFFICES ASSUME UseInv, pc = "decoded"
               PROVE  reader.charged = RetainedText(index)
    BY DEF ChargedTextIsRetained
  <2>1. "charged" \in Measures
    BY DEF Measures
  <2>2. reader.charged = IndexUse("charged", index) + NamesUse("charged", reverseIndices)
    BY <2>1 DEF UseInv, AllCounted, Counted, CountedAt, Used
  <2>3. reverseIndices = GroupsNamed(index)
    BY DEF UseInv, PostingsInv, PostingsMatchDocuments
  <2>4. IsIndex(index) /\ IsFiniteSet(reverseIndices) /\ reverseIndices \subseteq Text
    BY DEF UseInv, TypeInv
  <2> QED
    BY <2>2, <2>3, <2>4, RetainedUse
<1> QED
  BY <1>1, UseInit, UseStep, PTL DEF Spec

\* Whatever bytes decode accepts, encoding what it has read takes as many: no
\* entry replaces another and none is dropped.
THEOREM NothingIsEverDropped == Spec => []NothingIsDropped
<1>1. UseInv => NothingIsDropped
  <2> SUFFICES ASSUME UseInv, pc = "decoded"
               PROVE  Len(Payload(index)) = Len(payload)
    BY DEF NothingIsDropped
  <2>1. "position" \in Measures
    BY DEF Measures
  <2>2. Used("position", reader) = IndexUse("position", index) + NamesUse("position", reverseIndices)
    BY <2>1 DEF UseInv, AllCounted, Counted, CountedAt
  <2>3. NamesUse("position", reverseIndices) = 0 /\ IndexUse("position", index) \in Nat
    BY <2>1, UseTypes DEF NamesUse
  <2>4. Len(Payload(index)) = IndexUse("position", index)
    BY PayloadLength DEF UseInv, TypeInv
  <2>5. Used("position", reader) = Len(payload)
    BY DEF UseInv, TypeInv
  <2> QED
    BY <2>2, <2>3, <2>4, <2>5
<1> QED
  BY <1>1, UseInit, UseStep, PTL DEF Spec

-----------------------------------------------------------------------------
(* A reader takes back what was written at its position                    *)

\* What the payload has from a position on.
Rest(p, s) ==
    /\ s \in Text /\ p \in Nat /\ p + Len(s) = Len(payload)
    /\ \A i \in 1..Len(s) : payload[p + i] = s[i]

\* A head of the rest is taken, and the tail is the rest from then on.
LEMMA RestAfter ==
    ASSUME NEW p, NEW a \in Text, NEW b \in Text, Rest(p, a \o b)
    PROVE  /\ Rest(p + Len(a), b)
           /\ Len(a) \in Nat /\ Len(b) \in Nat /\ p \in Nat
           /\ Len(payload) - p = Len(a) + Len(b)
           /\ [i \in 1..Len(a) |-> payload[p + i]] = a
<1>1. /\ a \o b \in Text /\ Len(a \o b) = Len(a) + Len(b) /\ Len(a) \in Nat /\ Len(b) \in Nat
      /\ p \in Nat /\ p + Len(a \o b) = Len(payload)
      /\ \A i \in 1..Len(a \o b) : payload[p + i] = (a \o b)[i]
  BY JoinType DEF Rest
<1>2. /\ \A i \in 1..Len(a) : (a \o b)[i] = a[i]
      /\ \A i \in 1..Len(b) : (a \o b)[Len(a) + i] = b[i]
  BY ConcatProperties DEF Text
<1>3. a = [i \in 1..Len(a) |-> a[i]]
  BY DEF Text
<1> DEFINE m == Len(a)
           n == Len(b)
           c == a \o b
<1>4. \A i \in 1..n : payload[(p + m) + i] = b[i]
  <2>1. \A i \in 1..n : m + i \in 1..(m + n) /\ p + (m + i) = (p + m) + i
    BY <1>1
  <2>2. \A i \in 1..(m + n) : payload[p + i] = c[i]
    BY <1>1
  <2>3. \A i \in 1..n : c[m + i] = b[i]
    BY <1>2
  <2> HIDE DEF c, m, n
  <2> QED
    BY <2>1, <2>2, <2>3
<1>5. \A i \in 1..m : payload[p + i] = a[i]
  <2>1. \A i \in 1..m : i \in 1..(m + n)
    BY <1>1
  <2>2. \A i \in 1..(m + n) : payload[p + i] = c[i]
    BY <1>1
  <2>3. \A i \in 1..m : c[i] = a[i]
    BY <1>2
  <2> HIDE DEF c, m, n
  <2> QED
    BY <2>1, <2>2, <2>3
<1>6. Rest(p + m, b)
  BY <1>1, <1>4 DEF Rest
<1>7. [i \in 1..m |-> payload[p + i]] = a
  BY <1>3, <1>5
<1> QED
  BY <1>1, <1>6, <1>7

\* An integer that was written next is read, modulo the size of a word.
LEMMA ReadIntegerBack ==
    ASSUME payload \in Text, NEW r, IsAt(r), NEW v \in Int, NEW rest \in Text,
           Rest(r.position, IntegerBytes(v) \o rest)
    PROVE  /\ ReadInteger(r).ok <=> r.ok
           /\ r.ok => /\ ReadInteger(r).value = v % WordSize
                      /\ ReadInteger(r).charged = r.charged
                      /\ Rest(ReadInteger(r).position, rest)
<1> DEFINE p == r.position + WordBytes
           n == Number(Taken(r, WordBytes))
           s == ReadInteger(r)
           a == IntegerBytes(v)
<1>1. a \in Text /\ Len(a) = WordBytes /\ WordBytes \in Nat
  BY IntegerBytesType, FormatAssumption
<1>2. n = v % WordSize /\ Rest(p, rest) /\ Remaining(r) >= WordBytes
  <2> HIDE DEF a
  <2>1. /\ Rest(r.position + Len(a), rest)
        /\ Len(rest) \in Nat /\ r.position \in Nat /\ Len(payload) - r.position = Len(a) + Len(rest)
        /\ [i \in 1..Len(a) |-> payload[r.position + i]] = a
    BY <1>1, RestAfter DEF a
  <2>2. Taken(r, WordBytes) = a
    BY <1>1, <2>1 DEF Taken
  <2>3. n = v % WordSize
    BY <2>2, ReadIsWritten DEF a
  <2> QED
    BY <1>1, <2>1, <2>3 DEF Remaining
<1>3. IsReader(r)
  BY DEF IsAt, InBudget
<1>4. CASE r.ok
  <2>1. s = [r EXCEPT !.position = p, !.value = n]
    BY <1>2, <1>4 DEF ReadInteger
  <2> HIDE DEF p, n, s
  <2>2. s = [position |-> p, charged |-> r.charged, value |-> n, ok |-> r.ok]
    BY <1>3, <2>1 DEF IsReader
  <2>3. s.position = p /\ s.charged = r.charged /\ s.value = n /\ s.ok = r.ok
    BY <2>2
  <2> QED
    BY <1>2, <1>4, <2>3 DEF s
<1>5. CASE ~r.ok
  <2>1. s = Require(r, FALSE)
    BY <1>5 DEF ReadInteger
  <2>2. Require(r, FALSE).ok => r.ok /\ FALSE
    BY RequireAt
  <2> QED
    BY <1>5, <2>1, <2>2
<1> QED
  BY <1>4, <1>5

\* A check moves nothing.
LEMMA RequireBack ==
    ASSUME NEW r, IsAt(r), NEW condition
    PROVE  /\ Require(r, condition).ok <=> r.ok /\ condition
           /\ Require(r, condition).value = r.value
           /\ Require(r, condition).position = r.position
           /\ Require(r, condition).charged = r.charged
<1> DEFINE s == Require(r, condition)
<1>1. InBudget(r)
  BY DEF IsAt
<1>2. s.ok <=> r.ok /\ condition
  BY <1>1, RequireInBudget
<1>3. s.value = r.value /\ \A m : Used(m, s) = Used(m, r)
  BY RequireAt
<1> HIDE DEF s
<1>4. s.position = r.position /\ s.charged = r.charged
  <2>1. Used("position", s) = Used("position", r) /\ Used("charged", s) = Used("charged", r)
    BY <1>3
  <2> QED
    BY <2>1 DEF Used
<1> QED
  BY <1>2, <1>3, <1>4 DEF s

\* So is a signed one, unless it is above the maximum of its type,
LEMMA ReadNativeBack ==
    ASSUME payload \in Text, NEW r, IsAt(r), NEW v \in Long, NEW rest \in Text,
           Rest(r.position, IntegerBytes(v) \o rest), NEW maximum
    PROVE  /\ ReadNative(r, maximum).ok <=> r.ok /\ v \in (-maximum - 1)..maximum
           /\ ReadNative(r, maximum).ok =>
                /\ ReadNative(r, maximum).value = v
                /\ ReadNative(r, maximum).charged = r.charged
                /\ Rest(ReadNative(r, maximum).position, rest)
<1> DEFINE word == ReadInteger(r)
           x == Signed(word.value)
           signed == [word EXCEPT !.value = Signed(@)]
           fits == x \in (-maximum - 1)..maximum
           s == ReadNative(r, maximum)
<1>1. /\ word.ok <=> r.ok
      /\ r.ok => word.value = v % WordSize /\ word.charged = r.charged /\ Rest(word.position, rest)
  BY LongIsInt, ReadIntegerBack
<1>2. IsAt(word)
  BY ReadIntegerAt
<1>3. s = IF word.ok THEN Require(signed, fits) ELSE word
  BY DEF ReadNative
<1>4. signed = [word EXCEPT !.value = x]
  OBVIOUS
<1>5. r.ok => x = v
  BY <1>1, SignedIsRestored
<1>6. fits <=> x \in (-maximum - 1)..maximum
  OBVIOUS
<1> HIDE DEF word, x, signed, fits, s
<1>7. signed = [position |-> word.position, charged |-> word.charged, value |-> x, ok |-> word.ok]
  BY <1>2, <1>4 DEF IsAt, InBudget, IsReader
<1>8. /\ signed.position = word.position /\ signed.charged = word.charged /\ signed.value = x
      /\ signed.ok = word.ok /\ IsReader(signed)
  BY <1>7 DEF IsReader
<1>9. IsAt(signed)
  BY <1>2, <1>8 DEF IsAt, InBudget
<1>10. CASE r.ok
  <2>1. s = Require(signed, fits)
    BY <1>1, <1>3, <1>10
  <2>2. /\ s.ok <=> signed.ok /\ fits
        /\ s.value = signed.value /\ s.position = signed.position /\ s.charged = signed.charged
    BY <1>9, <2>1, RequireBack
  <2> QED
    BY <1>1, <1>5, <1>6, <1>8, <1>10, <2>2 DEF s
<1>11. CASE ~r.ok
  BY <1>1, <1>3, <1>11 DEF s
<1> QED
  BY <1>10, <1>11

\* one that is bounded,
LEMMA ReadUpToBack ==
    ASSUME payload \in Text, NEW r, IsAt(r), NEW v \in 0..(WordSize - 1), NEW rest \in Text,
           Rest(r.position, IntegerBytes(v) \o rest), NEW maximum
    PROVE  /\ ReadUpTo(r, maximum).ok <=> r.ok /\ v \in 0..maximum
           /\ ReadUpTo(r, maximum).ok =>
                /\ ReadUpTo(r, maximum).value = v
                /\ ReadUpTo(r, maximum).charged = r.charged
                /\ Rest(ReadUpTo(r, maximum).position, rest)
<1> DEFINE word == ReadInteger(r)
           fits == word.ok /\ word.value \in 0..maximum
           s == ReadUpTo(r, maximum)
<1>1. v \in Int /\ v % WordSize = v
  BY SmallWord
<1>2. /\ word.ok <=> r.ok
      /\ r.ok => word.value = v /\ word.charged = r.charged /\ Rest(word.position, rest)
  <2>1. /\ word.ok <=> r.ok
        /\ r.ok => word.value = v % WordSize /\ word.charged = r.charged /\ Rest(word.position, rest)
    BY <1>1, ReadIntegerBack
  <2> QED
    BY <1>1, <2>1
<1>3. IsAt(word)
  BY ReadIntegerAt
<1>4. s = Require(word, fits)
  BY DEF ReadUpTo
<1>5. fits <=> word.ok /\ word.value \in 0..maximum
  OBVIOUS
<1> HIDE DEF word, fits, s
<1>6. /\ s.ok <=> word.ok /\ fits
      /\ s.value = word.value /\ s.position = word.position /\ s.charged = word.charged
  BY <1>3, <1>4, RequireBack
<1> QED
  BY <1>2, <1>5, <1>6 DEF s

\* a count,
LEMMA ReadCountBack ==
    ASSUME payload \in Text, NEW r, IsAt(r), NEW v \in 0..(WordSize - 1), NEW rest \in Text,
           Rest(r.position, IntegerBytes(v) \o rest), NEW maximum, NEW minimumBytes
    PROVE  /\ ReadCount(r, maximum, minimumBytes).ok <=>
                r.ok /\ v \in 0..maximum /\ v <= Len(rest) \div minimumBytes
           /\ ReadCount(r, maximum, minimumBytes).ok =>
                /\ ReadCount(r, maximum, minimumBytes).value = v
                /\ ReadCount(r, maximum, minimumBytes).charged = r.charged
                /\ Rest(ReadCount(r, maximum, minimumBytes).position, rest)
<1> DEFINE word == ReadUpTo(r, maximum)
           few == word.value <= Remaining(word) \div minimumBytes
           fits == word.ok /\ few
           s == ReadCount(r, maximum, minimumBytes)
<1>1. /\ word.ok <=> r.ok /\ v \in 0..maximum
      /\ word.ok => word.value = v /\ word.charged = r.charged /\ Rest(word.position, rest)
  BY ReadUpToBack
<1>2. IsAt(word)
  BY ReadUpToAt
<1>3. s = Require(word, fits)
  BY DEF ReadCount
<1>4. word.ok => Remaining(word) = Len(rest)
  <2> HIDE DEF word
  <2>1. word.ok => word.position \in Nat /\ word.position + Len(rest) = Len(payload) /\ Len(rest) \in Nat
    BY <1>1, TextLength DEF Rest
  <2> QED
    BY <2>1 DEF Remaining
<1>5. word.ok => (few <=> v <= Len(rest) \div minimumBytes)
  BY <1>1, <1>4
<1>6. fits <=> word.ok /\ few
  OBVIOUS
<1> HIDE DEF word, few, fits, s
<1>7. /\ s.ok <=> word.ok /\ fits
      /\ s.value = word.value /\ s.position = word.position /\ s.charged = word.charged
  BY <1>2, <1>3, RequireBack
<1> QED
  BY <1>1, <1>5, <1>6, <1>7 DEF s

\* A charge moves nothing.
LEMMA ChargeBack ==
    ASSUME NEW r, IsAt(r), NEW bytes
    PROVE  /\ Charge(r, bytes).ok <=> r.ok /\ bytes <= Left(limits.decoded, r.charged)
           /\ Charge(r, bytes).ok =>
                /\ Charge(r, bytes).value = r.value
                /\ Charge(r, bytes).charged = r.charged + bytes
                /\ Charge(r, bytes).position = r.position
<1> DEFINE s == Charge(r, bytes)
           c == r.charged + bytes
<1>1. CASE r.ok /\ bytes <= Left(limits.decoded, r.charged)
  <2>1. s = [r EXCEPT !.charged = c]
    BY <1>1 DEF Charge
  <2> HIDE DEF c, s
  <2>2. s = [position |-> r.position, charged |-> c, value |-> r.value, ok |-> r.ok]
    BY <2>1 DEF IsAt, InBudget, IsReader
  <2>3. s.position = r.position /\ s.charged = c /\ s.value = r.value /\ s.ok = r.ok
    BY <2>2
  <2> QED
    BY <1>1, <2>3 DEF c, s
<1>2. CASE ~(r.ok /\ bytes <= Left(limits.decoded, r.charged))
  <2>1. s = Require(r, FALSE)
    BY <1>2 DEF Charge
  <2>2. Require(r, FALSE).ok <=> r.ok /\ FALSE
    BY RequireBack
  <2> HIDE DEF s
  <2> QED
    BY <1>2, <2>1, <2>2 DEF s
<1> QED
  BY <1>1, <1>2

\* A string that was written next is read, if the limits allow its length.
LEMMA ReadTextBack ==
    ASSUME payload \in Text, Len(payload) < WordSize, LimitsOK, NEW r, IsAt(r),
           NEW t \in Text, NEW rest \in Text, Rest(r.position, TextBytes(t) \o rest)
    PROVE  /\ ReadText(r).ok <=> r.ok /\ Len(t) <= limits.string
                                      /\ Len(t) <= Left(limits.decoded, r.charged)
           /\ ReadText(r).ok =>
                /\ ReadText(r).value = t
                /\ ReadText(r).charged = r.charged + Len(t)
                /\ Rest(ReadText(r).position, rest)
<1> DEFINE length == ReadCount(r, limits.string, 1)
           charged == Charge(length, length.value)
           n == Len(t)
           v == Taken(length, length.value)
           p == charged.position + length.value
           s == ReadText(r)
           tail == t \o rest
<1>1. /\ tail \in Text /\ Len(tail) = n + Len(rest) /\ n \in Nat /\ Len(rest) \in Nat
      /\ IntegerBytes(n) \in Text
  BY JoinType, IntegerBytesType
<1>2. Rest(r.position, IntegerBytes(n) \o tail)
  <2>1. (IntegerBytes(n) \o t) \o rest = IntegerBytes(n) \o (t \o rest)
    BY <1>1, ConcatAssociative DEF Text
  <2> QED
    BY <2>1 DEF TextBytes
<1>3. n \in 0..(WordSize - 1) /\ limits.string \in Nat
  <2>1. Rest(r.position + WordBytes, tail)
    <3>1. Len(IntegerBytes(n)) = WordBytes
      BY <1>1, IntegerBytesType
    <3> HIDE DEF tail
    <3> QED
      BY <1>1, <1>2, <3>1, RestAfter
  <2>2. Len(tail) <= Len(payload) /\ Len(payload) \in Nat
    <3> HIDE DEF tail
    <3>1. r.position + WordBytes \in Nat /\ (r.position + WordBytes) + Len(tail) = Len(payload)
      BY <2>1 DEF Rest
    <3>2. Len(payload) \in Nat /\ Len(tail) \in Nat
      BY <1>1, TextLength
    <3> QED
      BY <3>1, <3>2
  <2> QED
    BY <1>1, <2>2, WordProperties DEF LimitsOK, LimitNames
<1>4. /\ length.ok <=> r.ok /\ n \in 0..limits.string /\ n <= Len(tail) \div 1
      /\ length.ok => length.value = n /\ length.charged = r.charged /\ Rest(length.position, tail)
  <2> HIDE DEF n, tail
  <2> QED
    BY <1>1, <1>2, <1>3, ReadCountBack
<1>5. length.ok <=> r.ok /\ n <= limits.string
  <2>1. n <= Len(tail) \div 1 /\ (n \in 0..limits.string <=> n <= limits.string)
    BY <1>1, <1>3
  <2> QED
    BY <1>4, <2>1
<1>6. IsAt(length)
  BY ReadCountAt
<1>7. /\ charged.ok <=> length.ok /\ length.value <= Left(limits.decoded, length.charged)
      /\ charged.ok => /\ charged.value = length.value
                       /\ charged.charged = length.charged + length.value
                       /\ charged.position = length.position
  <2> HIDE DEF length
  <2> QED
    BY <1>6, ChargeBack
<1>8. IsAt(charged)
  <2>1. length.ok => length.value \in Nat
    BY <1>1, <1>4
  <2> HIDE DEF length
  <2> QED
    BY <1>6, <2>1, ChargeAt
<1>9. charged.ok <=> r.ok /\ n <= limits.string /\ n <= Left(limits.decoded, r.charged)
  <2> HIDE DEF length, charged, n, tail
  <2> QED
    BY <1>4, <1>5, <1>7
<1>10. CASE charged.ok
  <2>1. s = [charged EXCEPT !.position = p, !.value = v]
    BY <1>10 DEF ReadText
  <2>2. v = t /\ p = length.position + n /\ Rest(p, rest)
    <3>1. length.value = n /\ Rest(length.position, t \o rest) /\ charged.position = length.position
      BY <1>4, <1>7, <1>10
    <3> DEFINE q == length.position
    <3>2. Rest(q + Len(t), rest) /\ [i \in 1..Len(t) |-> payload[q + i]] = t
      <4>1. Rest(q, t \o rest)
        BY <3>1
      <4> HIDE DEF q, length
      <4> QED
        BY <4>1, RestAfter
    <3>3. v = [i \in 1..Len(t) |-> payload[q + i]]
      BY <3>1 DEF Taken
    <3>4. p = q + n
      BY <3>1
    <3> HIDE DEF length, charged, v, p, q
    <3> QED
      BY <3>2, <3>3, <3>4 DEF q
  <2> HIDE DEF length, charged, p, v, s
  <2>3. s = [position |-> p, charged |-> charged.charged, value |-> v, ok |-> charged.ok]
    BY <1>8, <2>1 DEF IsAt, InBudget, IsReader
  <2>4. s.position = p /\ s.charged = charged.charged /\ s.value = v /\ s.ok = charged.ok
    BY <2>3
  <2>5. charged.charged = r.charged + n
    BY <1>4, <1>7, <1>10
  <2> QED
    BY <1>9, <1>10, <2>2, <2>4, <2>5 DEF s
<1>11. CASE ~charged.ok
  <2>1. s = charged
    BY <1>11 DEF ReadText
  <2> HIDE DEF charged, s
  <2> QED
    BY <1>9, <1>11, <2>1 DEF s
<1> QED
  BY <1>10, <1>11

\* So is the value of a property.
LEMMA ReadValueBack ==
    ASSUME payload \in Text, Len(payload) < WordSize, LimitsOK, NEW r, IsAt(r),
           NEW type \in ToSet(PropertyKinds), NEW v \in PropertyValues(type), NEW rest \in Text,
           Rest(r.position, ValueBytes(type, v) \o rest)
    PROVE  /\ ReadValue(r, type).ok <=>
                r.ok /\ (type = "string" => /\ Len(v) <= limits.string
                                            /\ Len(v) <= Left(limits.decoded, r.charged))
           /\ ReadValue(r, type).ok =>
                /\ ReadValue(r, type).value = v
                /\ ReadValue(r, type).charged = r.charged + ValueUse(type, v)
                /\ Rest(ReadValue(r, type).position, rest)
<1>1. type \in {"bool", "byte", "int", "long", "string"}
  BY KindsAre
<1>2. r.charged \in Nat /\ r.charged + 0 = r.charged
  BY DEF IsAt, InBudget, LimitsOK, LimitNames
<1>3. CASE type = "bool"
  <2>1. v \in 0..1 /\ 0..1 \subseteq 0..(WordSize - 1)
    BY <1>3, WordProperties DEF PropertyValues
  <2>2. Rest(r.position, IntegerBytes(v) \o rest)
    BY <1>3 DEF ValueBytes
  <2>3. /\ ReadUpTo(r, 1).ok <=> r.ok /\ v \in 0..1
        /\ ReadUpTo(r, 1).ok => /\ ReadUpTo(r, 1).value = v
                                /\ ReadUpTo(r, 1).charged = r.charged
                                /\ Rest(ReadUpTo(r, 1).position, rest)
    BY <2>1, <2>2, ReadUpToBack
  <2> QED
    BY <1>2, <1>3, <2>1, <2>3 DEF ReadValue, ValueUse
<1>4. CASE type = "byte"
  <2>1. v \in 0..(Base - 1) /\ 0..(Base - 1) \subseteq 0..(WordSize - 1)
    BY <1>4, WordProperties DEF PropertyValues, Byte
  <2>2. Rest(r.position, IntegerBytes(v) \o rest)
    BY <1>4 DEF ValueBytes
  <2>3. /\ ReadUpTo(r, Base - 1).ok <=> r.ok /\ v \in 0..(Base - 1)
        /\ ReadUpTo(r, Base - 1).ok => /\ ReadUpTo(r, Base - 1).value = v
                                       /\ ReadUpTo(r, Base - 1).charged = r.charged
                                       /\ Rest(ReadUpTo(r, Base - 1).position, rest)
    BY <2>1, <2>2, ReadUpToBack
  <2> QED
    BY <1>2, <1>4, <2>1, <2>3 DEF ReadValue, ValueUse
<1>5. CASE type = "int"
  <2>1. v \in (-IntMax - 1)..IntMax /\ v \in Long
    BY <1>5, WordProperties DEF PropertyValues, Long
  <2>2. Rest(r.position, IntegerBytes(v) \o rest)
    BY <1>5 DEF ValueBytes
  <2>3. /\ ReadNative(r, IntMax).ok <=> r.ok /\ v \in (-IntMax - 1)..IntMax
        /\ ReadNative(r, IntMax).ok => /\ ReadNative(r, IntMax).value = v
                                       /\ ReadNative(r, IntMax).charged = r.charged
                                       /\ Rest(ReadNative(r, IntMax).position, rest)
    BY <2>1, <2>2, ReadNativeBack
  <2> QED
    BY <1>2, <1>5, <2>1, <2>3 DEF ReadValue, ValueUse
<1>6. CASE type = "long"
  <2>1. v \in (-LongMax - 1)..LongMax /\ v \in Long
    BY <1>6 DEF PropertyValues, Long
  <2>2. Rest(r.position, IntegerBytes(v) \o rest)
    BY <1>6 DEF ValueBytes
  <2>3. /\ ReadNative(r, LongMax).ok <=> r.ok /\ v \in (-LongMax - 1)..LongMax
        /\ ReadNative(r, LongMax).ok => /\ ReadNative(r, LongMax).value = v
                                        /\ ReadNative(r, LongMax).charged = r.charged
                                        /\ Rest(ReadNative(r, LongMax).position, rest)
    BY <2>1, <2>2, ReadNativeBack
  <2> QED
    BY <1>2, <1>6, <2>1, <2>3 DEF ReadValue, ValueUse
<1>7. CASE type = "string"
  <2>1. v \in Text
    BY <1>7 DEF PropertyValues
  <2>2. Rest(r.position, TextBytes(v) \o rest)
    BY <1>7 DEF ValueBytes
  <2>3. /\ ReadText(r).ok <=> r.ok /\ Len(v) <= limits.string /\ Len(v) <= Left(limits.decoded, r.charged)
        /\ ReadText(r).ok => /\ ReadText(r).value = v
                             /\ ReadText(r).charged = r.charged + Len(v)
                             /\ Rest(ReadText(r).position, rest)
    BY <2>1, <2>2, ReadTextBack
  <2> QED
    BY <1>7, <2>3 DEF ReadValue, ValueUse
<1> QED
  BY <1>1, <1>3, <1>4, <1>5, <1>6, <1>7

\* The number of the pieces that follow is read, unless it is above the maximum.
LEMMA CountBack ==
    ASSUME payload \in Text, Len(payload) < WordSize, NEW r, IsAt(r),
           NEW f \in Seq(Text), NEW c \in Nat \ {0}, \A i \in 1..Len(f) : Len(f[i]) >= c,
           NEW rest \in Text, NEW maximum,
           Rest(r.position, IntegerBytes(Len(f)) \o (PiecesFrom(f, 0) \o rest))
    PROVE  /\ ReadCount(r, maximum, c).ok <=> r.ok /\ Len(f) \in 0..maximum
           /\ ReadCount(r, maximum, c).ok =>
                /\ ReadCount(r, maximum, c).value = Len(f)
                /\ ReadCount(r, maximum, c).charged = r.charged
                /\ Rest(ReadCount(r, maximum, c).position, PiecesFrom(f, 0) \o rest)
<1> DEFINE n == Len(f)
           a == PiecesFrom(f, 0)
           b == a \o rest
           s == ReadCount(r, maximum, c)
<1>1. n \in Nat /\ a \in Text
  <2>1. n \in Nat /\ \A i \in 0..n : PiecesFrom(f, i) \in Text
    BY TailProperties
  <2>2. 0 \in 0..n
    BY <2>1
  <2> QED
    BY <2>1, <2>2
<1>2. Len(a) >= n * c /\ Len(a) \in Nat
  BY PiecesLength
<1>3. b \in Text /\ Len(b) = Len(a) + Len(rest) /\ Len(rest) \in Nat /\ Len(b) \in Nat
  <2> HIDE DEF a
  <2> QED
    BY <1>1, JoinType, TextLength
<1>4. n * c <= Len(b) /\ n <= n * c
  <2>1. PICK d \in Nat : c = d + 1
    <3>1. c - 1 \in Nat /\ c = (c - 1) + 1
      OBVIOUS
    <3> QED
      BY <3>1
  <2>2. n * c = n * d + n /\ n * d \in Nat
    BY <1>1, <2>1
  <2> HIDE DEF n, a, b
  <2> QED
    BY <1>1, <1>2, <1>3, <2>2
<1>5. n <= Len(b) \div c
  <2>1. c \in Nat /\ c > 0
    OBVIOUS
  <2> HIDE DEF n, b
  <2> QED
    BY <1>1, <1>3, <1>4, <2>1, ProductIsMonotonic
<1>6. n \in 0..(WordSize - 1)
  <2>1. IntegerBytes(n) \in Text /\ Len(IntegerBytes(n)) = WordBytes /\ WordBytes \in Nat
    BY <1>1, IntegerBytesType, FormatAssumption
  <2>2. Rest(r.position + WordBytes, b)
    <3>1. Rest(r.position, IntegerBytes(n) \o b)
      OBVIOUS
    <3> DEFINE w == IntegerBytes(n)
    <3>2. w \in Text /\ Len(w) = WordBytes /\ Rest(r.position, w \o b)
      BY <2>1, <3>1
    <3> HIDE DEF b, w, n
    <3> QED
      BY <1>3, <3>2, RestAfter
  <2>3. r.position + WordBytes \in Nat /\ (r.position + WordBytes) + Len(b) = Len(payload)
    BY <2>2 DEF Rest
  <2>4. n * c \in Nat /\ Len(payload) \in Nat
    BY <1>1, TextLength
  <2> DEFINE x == n * c
             p == r.position + WordBytes
  <2>5. x \in Nat /\ x <= Len(b) /\ n <= x /\ p \in Nat /\ p + Len(b) = Len(payload)
    BY <1>4, <2>3, <2>4
  <2> HIDE DEF n, b, x, p
  <2> QED
    BY <1>1, <1>3, <2>4, <2>5, WordProperties
<1>7. Rest(r.position, IntegerBytes(n) \o b)
  OBVIOUS
<1> HIDE DEF n, a, b, s
<1>8. /\ s.ok <=> r.ok /\ n \in 0..maximum /\ n <= Len(b) \div c
      /\ s.ok => s.value = n /\ s.charged = r.charged /\ Rest(s.position, b)
  <2>1. ASSUME NEW v \in 0..(WordSize - 1), NEW y \in Text, Rest(r.position, IntegerBytes(v) \o y)
        PROVE  LET t == ReadCount(r, maximum, c)
               IN /\ t.ok <=> r.ok /\ v \in 0..maximum /\ v <= Len(y) \div c
                  /\ t.ok => t.value = v /\ t.charged = r.charged /\ Rest(t.position, y)
    <3>1. v \in 0..(WordSize - 1) /\ y \in Text /\ Rest(r.position, IntegerBytes(v) \o y)
      BY <2>1
    <3> QED
      BY <3>1, ReadCountBack
  <2> QED
    BY <1>3, <1>6, <1>7, <2>1 DEF s
<1> QED
  BY <1>5, <1>8 DEF n, a, b, s

-----------------------------------------------------------------------------
(* The pieces of the payload of a saved index                              *)

\* A group is written as its name, the number of its keys and each key in order,
LEMMA GroupCode ==
    ASSUME NEW g \in Text, NEW strings \in Seq(Text),
           \A i \in DOMAIN strings : KeyId(g, strings[i]) \in Long
    PROVE  /\ KeyCodes(g, strings) \in Seq(Text) /\ Len(KeyCodes(g, strings)) = Len(strings)
           /\ \A i \in 1..Len(strings) :
                /\ KeyCodes(g, strings)[i] = TextBytes(SortedKeys(strings)[i])
                                               \o IntegerBytes(KeyId(g, SortedKeys(strings)[i]))
                /\ Len(KeyCodes(g, strings)[i]) >= EntryMinimum
                /\ KeyId(g, SortedKeys(strings)[i]) \in Long
           /\ GroupBytes(g, strings) =
                (TextBytes(g) \o IntegerBytes(Len(strings))) \o PiecesFrom(KeyCodes(g, strings), 0)
<1> DEFINE n == Len(strings)
           w == SortedKeys(strings)
           KeyBytes(string) == TextBytes(string) \o IntegerBytes(KeyId(g, string))
           codes == KeyCodes(g, strings)
<1>1. /\ w \in Seq(Text) /\ Len(w) = n /\ DOMAIN w = 1..n /\ n \in Nat /\ DOMAIN strings = 1..n
      /\ \A i \in 1..n : \E j \in 1..n : w[i] = strings[j]
  BY SortedKeysType
<1>2. \A i \in 1..n : w[i] \in Text
  BY <1>1
<1>3. \A i \in 1..n : KeyId(g, w[i]) \in Long
  BY <1>1
<1>4. codes = [j \in 1..n |-> KeyBytes(w[j])]
  BY <1>1 DEF KeyCodes
<1>5. FlattenSeq(codes) = Each(w, KeyBytes)
  BY <1>1, <1>4 DEF Each
<1>6. GroupBytes(g, strings) = (TextBytes(g) \o IntegerBytes(n)) \o FlattenSeq(codes)
  BY <1>1, <1>5 DEF GroupBytes
<1>7. ASSUME NEW i \in 1..n
      PROVE  KeyBytes(w[i]) \in Text /\ Len(KeyBytes(w[i])) >= EntryMinimum
  <2> DEFINE a == TextBytes(w[i])
             b == IntegerBytes(KeyId(g, w[i]))
  <2>1. a \in Text /\ Len(a) = WordBytes + Len(w[i]) /\ Len(w[i]) \in Nat
    BY <1>2, TextBytesType
  <2>2. b \in Text /\ Len(b) = WordBytes
    BY <1>3, LongIsInt, IntegerBytesType
  <2>3. KeyBytes(w[i]) = a \o b
    OBVIOUS
  <2> HIDE DEF a, b, KeyBytes, w
  <2>4. KeyBytes(w[i]) \in Text /\ Len(KeyBytes(w[i])) = (WordBytes + Len(w[i])) + WordBytes
    BY <2>1, <2>2, <2>3, JoinType
  <2> QED
    BY <2>1, <2>4, FormatAssumption DEF EntryMinimum
<1>8. \A i \in 1..n : codes[i] = KeyBytes(w[i])
  <2> HIDE DEF codes, KeyBytes, w
  <2> QED
    BY <1>4
<1>9. codes \in [1..n -> Text]
  <2> HIDE DEF codes, KeyBytes, w
  <2> QED
    BY <1>4, <1>7
<1>10. codes \in Seq(Text) /\ Len(codes) = n
  <2> HIDE DEF codes, n
  <2> QED
    BY <1>1, <1>9
<1>11. PiecesFrom(codes, 0) = FlattenSeq(codes)
  BY <1>10, TailProperties
<1>12. GroupBytes(g, strings) = (TextBytes(g) \o IntegerBytes(n)) \o PiecesFrom(codes, 0)
  BY <1>6, <1>11
<1>13. \A i \in 1..n : codes[i] = TextBytes(w[i]) \o IntegerBytes(KeyId(g, w[i]))
                         /\ Len(codes[i]) >= EntryMinimum
  BY <1>7, <1>8
<1> HIDE DEF codes, w, n, KeyBytes
<1> QED
  BY <1>3, <1>10, <1>12, <1>13 DEF codes, w, n

\* a property map as the number of its entries and each of them,
LEMMA KindCode ==
    ASSUME NEW type \in ToSet(PropertyKinds), NEW properties, IsKind(type, properties)
    PROVE  /\ Cardinality(DOMAIN properties) \in Nat
           /\ Lists(SortedNames(DOMAIN properties), DOMAIN properties)
           /\ EntryCodes(type, properties) \in Seq(Text)
           /\ Len(EntryCodes(type, properties)) = Cardinality(DOMAIN properties)
           /\ \A i \in 1..Cardinality(DOMAIN properties) :
                /\ EntryCodes(type, properties)[i] =
                     TextBytes(SortedNames(DOMAIN properties)[i])
                       \o ValueBytes(type, properties[SortedNames(DOMAIN properties)[i]])
                /\ Len(EntryCodes(type, properties)[i]) >= EntryMinimum
           /\ PropertyBytes(type, properties) =
                IntegerBytes(Cardinality(DOMAIN properties)) \o PiecesFrom(EntryCodes(type, properties), 0)
<1> DEFINE S == DOMAIN properties
           n == Cardinality(S)
           w == SortedNames(S)
           EntryBytes(name) ==
             TextBytes(name) \o (IF type = "string" THEN TextBytes(properties[name])
                                 ELSE IntegerBytes(properties[name]))
           codes == EntryCodes(type, properties)
<1>1. IsFiniteSet(S) /\ S \in SUBSET Text /\ \A name \in S : properties[name] \in PropertyValues(type)
  BY DEF IsKind
<1>2. n \in Nat /\ Lists(w, S)
  BY <1>1, NamesLists, FS_CardinalityType
<1>3. w \in [1..n -> S] /\ DOMAIN w = 1..n
  BY <1>2 DEF Lists
<1>4. codes = [j \in 1..n |-> EntryBytes(w[j])]
  BY <1>3 DEF EntryCodes, ValueBytes
<1>5. FlattenSeq(codes) = Each(w, EntryBytes)
  BY <1>3, <1>4 DEF Each
<1>6. PropertyBytes(type, properties) = IntegerBytes(n) \o FlattenSeq(codes)
  BY <1>5 DEF PropertyBytes
<1>7. ASSUME NEW i \in 1..n
      PROVE  /\ EntryBytes(w[i]) \in Text /\ Len(EntryBytes(w[i])) >= EntryMinimum
             /\ EntryBytes(w[i]) = TextBytes(w[i]) \o ValueBytes(type, properties[w[i]])
  <2> DEFINE a == TextBytes(w[i])
             b == ValueBytes(type, properties[w[i]])
             u == ValueUse(type, properties[w[i]])
             l == Len(w[i])
  <2>1. w[i] \in S
    <3> HIDE DEF w, n, S
    <3> QED
      BY <1>3
  <2>2. a \in Text /\ Len(a) = WordBytes + l /\ l \in Nat
    BY <1>1, <2>1, TextBytesType
  <2>3. b \in Text /\ Len(b) = WordBytes + u /\ u \in Nat
    BY <1>1, <2>1, ValueLength, ValueUseType DEF ValueBytes
  <2>4. EntryBytes(w[i]) = a \o b
    BY DEF ValueBytes
  <2> HIDE DEF a, b, u, l, EntryBytes, w
  <2>5. EntryBytes(w[i]) \in Text /\ Len(EntryBytes(w[i])) = (WordBytes + l) + (WordBytes + u)
    BY <2>2, <2>3, <2>4, JoinType
  <2>6. Len(EntryBytes(w[i])) >= EntryMinimum
    BY <2>2, <2>3, <2>5, FormatAssumption DEF EntryMinimum
  <2> QED
    BY <2>4, <2>5, <2>6 DEF a, b
<1>8. \A i \in 1..n : codes[i] = EntryBytes(w[i])
  <2> HIDE DEF codes, EntryBytes, w, n
  <2> QED
    BY <1>4
<1>9. codes \in [1..n -> Text]
  <2> HIDE DEF codes, EntryBytes, w, n
  <2> QED
    BY <1>4, <1>7
<1>10. codes \in Seq(Text) /\ Len(codes) = n
  <2> HIDE DEF codes, n
  <2> QED
    BY <1>2, <1>9
<1>11. PiecesFrom(codes, 0) = FlattenSeq(codes)
  BY <1>10, TailProperties
<1>12. PropertyBytes(type, properties) = IntegerBytes(n) \o PiecesFrom(codes, 0)
  BY <1>6, <1>11
<1>13. \A i \in 1..n : codes[i] = TextBytes(w[i]) \o ValueBytes(type, properties[w[i]])
                         /\ Len(codes[i]) >= EntryMinimum
  BY <1>7, <1>8
<1> HIDE DEF codes, w, n, S, EntryBytes
<1> QED
  BY <1>2, <1>10, <1>12, <1>13 DEF codes, w, n, S

\* the groups of a document one by one,
LEMMA GroupsCode ==
    ASSUME NEW doc, IsDocument(doc), IdsFit(doc.groups)
    PROVE  /\ Cardinality(DOMAIN doc.groups) \in Nat
           /\ Lists(SortedNames(DOMAIN doc.groups), DOMAIN doc.groups)
           /\ GroupCodes(doc) \in Seq(Text) /\ Len(GroupCodes(doc)) = Cardinality(DOMAIN doc.groups)
           /\ \A i \in 1..Cardinality(DOMAIN doc.groups) :
                /\ GroupCodes(doc)[i] = GroupBytes(SortedNames(DOMAIN doc.groups)[i],
                                                   doc.groups[SortedNames(DOMAIN doc.groups)[i]])
                /\ Len(GroupCodes(doc)[i]) >= EntryMinimum
<1> DEFINE S == DOMAIN doc.groups
           n == Cardinality(S)
           w == SortedNames(S)
           codes == GroupCodes(doc)
           Code(g) == GroupBytes(g, doc.groups[g])
<1>1. IsFiniteSet(S) /\ S \in SUBSET Text /\ \A g \in S : doc.groups[g] \in Seq(Text)
  BY DocumentParts DEF IsGroups
<1>2. n \in Nat /\ Lists(w, S)
  BY <1>1, NamesLists, FS_CardinalityType
<1>3. w \in [1..n -> S] /\ DOMAIN w = 1..n
  BY <1>2 DEF Lists
<1>4. codes = [j \in 1..n |-> Code(w[j])]
  BY <1>3 DEF GroupCodes
<1>5. ASSUME NEW g \in S
      PROVE  Code(g) \in Text /\ Len(Code(g)) >= EntryMinimum
  <2> DEFINE m == "position"
             strings == doc.groups[g]
  <2>1. g \in Text /\ strings \in Seq(Text) /\ \A i \in DOMAIN strings : KeyId(g, strings[i]) \in Long
    BY <1>1 DEF IdsFit
  <2>2. GroupBytes(g, strings) \in Text /\ Len(GroupBytes(g, strings)) = GroupUse(m, g, strings)
    BY <2>1, GroupLength
  <2>3. m \in Measures /\ Word(m) = WordBytes
    BY DEF Measures, Word
  <2>4. KeysUse(m, g, strings) \in Nat /\ Len(g) \in Nat /\ WordBytes \in Nat
    BY <2>1, <2>3, KeysUseType, TextLength, FormatAssumption
  <2>5. GroupUse(m, g, strings) >= EntryMinimum
    BY <2>3, <2>4 DEF GroupUse, EntryMinimum
  <2> QED
    BY <2>2, <2>5
<1> HIDE DEF codes, w, n, S, Code
<1>6. \A i \in 1..n : w[i] \in S /\ codes[i] = Code(w[i])
  BY <1>3, <1>4
<1>7. codes \in [1..n -> Text]
  BY <1>4, <1>5, <1>6
<1>8. codes \in Seq(Text) /\ Len(codes) = n
  BY <1>2, <1>7
<1>9. \A i \in 1..n : codes[i] = Code(w[i]) /\ Len(codes[i]) >= EntryMinimum
  BY <1>5, <1>6
<1> QED
  BY <1>2, <1>8, <1>9 DEF codes, w, n, S, Code

\* a document as its ID, its groups and its property maps,
LEMMA DocumentCode ==
    ASSUME NEW d \in Long, NEW doc, IsDocument(doc), IdsFit(doc.groups)
    PROVE  /\ DocumentBytes(d, doc) \in Text /\ Len(DocumentBytes(d, doc)) >= DocumentMinimum
           /\ DocumentBytes(d, doc) =
                IntegerBytes(d) \o (IntegerBytes(Cardinality(DOMAIN doc.groups))
                   \o (PiecesFrom(GroupCodes(doc), 0) \o PiecesFrom(KindCodes(doc), 0)))
<1> DEFINE a == IntegerBytes(d)
           n == Cardinality(DOMAIN doc.groups)
           b == IntegerBytes(n)
           c == PiecesFrom(GroupCodes(doc), 0)
           k == PiecesFrom(KindCodes(doc), 0)
           OneGroup(g) == GroupBytes(g, doc.groups[g])
           OneKind(t) == PropertyBytes(t, doc.properties[t])
<1>1. /\ GroupCodes(doc) \in Seq(Text) /\ KindCodes(doc) \in Seq(Text) /\ Len(KindCodes(doc)) = 5
      /\ n \in Nat /\ \A i \in 1..5 : Len(KindCodes(doc)[i]) >= WordBytes
  BY GroupsCode, KindsCode
<1>2. c = FlattenSeq(GroupCodes(doc)) /\ c \in Text /\ k = FlattenSeq(KindCodes(doc)) /\ k \in Text
  <2>1. \A f \in Seq(Text) : PiecesFrom(f, 0) = FlattenSeq(f) /\ PiecesFrom(f, 0) \in Text
    <3> TAKE f \in Seq(Text)
    <3>1. Len(f) \in Nat /\ PiecesFrom(f, 0) = FlattenSeq(f) /\ \A i \in 0..Len(f) : PiecesFrom(f, i) \in Text
      BY TailProperties
    <3>2. 0 \in 0..Len(f)
      BY <3>1
    <3> QED
      BY <3>1, <3>2
  <2> QED
    BY <1>1, <2>1
<1>3. a \in Text /\ Len(a) = WordBytes /\ b \in Text /\ Len(b) = WordBytes
  BY <1>1, LongIsInt, IntegerBytesType
<1>4. Each(SortedNames(DOMAIN doc.groups), OneGroup) = FlattenSeq(GroupCodes(doc))
  BY DEF Each, GroupCodes
<1>5. Each(PropertyKinds, OneKind) = FlattenSeq(KindCodes(doc))
  BY DEF Each, KindCodes
<1>6. DocumentBytes(d, doc) = ((a \o b) \o c) \o k
  BY <1>2, <1>4, <1>5 DEF DocumentBytes
<1>7. Len(k) >= 5 * WordBytes
  <2> DEFINE f == KindCodes(doc)
  <2>1. WordBytes \in Nat /\ f \in Seq(Text) /\ Len(f) = 5 /\ \A i \in 1..Len(f) : Len(f[i]) >= WordBytes
    BY <1>1, FormatAssumption
  <2> HIDE DEF f
  <2>2. Len(PiecesFrom(f, 0)) >= Len(f) * WordBytes
    BY <2>1, PiecesLength
  <2> QED
    BY <2>1, <2>2 DEF f
<1> HIDE DEF a, b, c, k, n
<1>8. /\ a \o b \in Text /\ (a \o b) \o c \in Text /\ ((a \o b) \o c) \o k \in Text
      /\ Len(((a \o b) \o c) \o k) = Len(a) + Len(b) + Len(c) + Len(k)
      /\ Len(c) \in Nat /\ Len(k) \in Nat
  <2> DEFINE x == a \o b
             y == x \o c
  <2>1. x \in Text /\ Len(x) = Len(a) + Len(b)
    BY <1>3, JoinType
  <2> HIDE DEF x
  <2>2. y \in Text /\ Len(y) = Len(x) + Len(c) /\ Len(c) \in Nat
    BY <1>2, <2>1, JoinType
  <2> HIDE DEF y
  <2>3. y \o k \in Text /\ Len(y \o k) = Len(y) + Len(k) /\ Len(k) \in Nat
    BY <1>2, <2>2, JoinType
  <2> QED
    BY <2>1, <2>2, <2>3 DEF x, y
<1>9. ((a \o b) \o c) \o k = a \o (b \o (c \o k))
  <2>1. ((a \o b) \o c) \o k = (a \o b) \o (c \o k) /\ c \o k \in Text
    <3> DEFINE x == a \o b
    <3>1. x \in Text
      BY <1>8
    <3> HIDE DEF x
    <3>2. (x \o c) \o k = x \o (c \o k) /\ c \o k \in Text
      BY <1>2, <3>1, JoinsAssociate
    <3> QED
      BY <3>2 DEF x
  <2>2. (a \o b) \o (c \o k) = a \o (b \o (c \o k))
    <3> DEFINE y == c \o k
    <3>1. y \in Text
      BY <2>1
    <3> HIDE DEF y
    <3>2. (a \o b) \o y = a \o (b \o y)
      BY <1>3, <3>1, JoinsAssociate
    <3> QED
      BY <3>2 DEF y
  <2> QED
    BY <2>1, <2>2
<1>10. Len(((a \o b) \o c) \o k) >= DocumentMinimum
  BY <1>3, <1>7, <1>8, FormatAssumption DEF DocumentMinimum
<1> QED
  BY <1>6, <1>8, <1>9, <1>10 DEF a, b, c, k, n

\* and an index as its implicit group and its documents.
LEMMA PayloadCode ==
    ASSUME NEW i, IsIndex(i), \A d \in DOMAIN i.docs : IdsFit(i.docs[d].groups)
    PROVE  /\ Cardinality(DOMAIN i.docs) \in Nat
           /\ DocumentCodes(i) \in Seq(Text) /\ Len(DocumentCodes(i)) = Cardinality(DOMAIN i.docs)
           /\ \A j \in 1..Cardinality(DOMAIN i.docs) :
                /\ Ascending(DOMAIN i.docs)[j] \in DOMAIN i.docs
                /\ DocumentCodes(i)[j] = DocumentBytes(Ascending(DOMAIN i.docs)[j],
                                                       i.docs[Ascending(DOMAIN i.docs)[j]])
                /\ Len(DocumentCodes(i)[j]) >= DocumentMinimum
           /\ Payload(i) = TextBytes(i.implicit)
                \o (IntegerBytes(Cardinality(DOMAIN i.docs)) \o PiecesFrom(DocumentCodes(i), 0))
<1> DEFINE S == DOMAIN i.docs
           n == Cardinality(S)
           w == Ascending(S)
           codes == DocumentCodes(i)
           Code(d) == DocumentBytes(d, i.docs[d])
<1>1. IsFiniteSet(S) /\ S \in SUBSET Int /\ S \subseteq Long /\ \A d \in S : IsDocument(i.docs[d]) /\ IdsFit(i.docs[d].groups)
  BY LongIsInt DEF IsIndex
<1>2. n \in Nat /\ w \in [1..n -> S] /\ DOMAIN w = 1..n
  BY <1>1, AscendingProperties
<1>3. codes = [j \in 1..n |-> Code(w[j])]
  BY <1>2 DEF DocumentCodes
<1>4. \A d \in S : Code(d) \in Text /\ Len(Code(d)) >= DocumentMinimum
  BY <1>1, DocumentCode
<1>5. Payload(i) = (TextBytes(i.implicit) \o IntegerBytes(n)) \o FlattenSeq(codes)
  BY DEF Payload, Each, DocumentCodes
<1> HIDE DEF codes, w, n, S, Code
<1>6. \A j \in 1..n : w[j] \in S /\ codes[j] = Code(w[j])
  BY <1>2, <1>3
<1>7. codes \in [1..n -> Text]
  BY <1>3, <1>4, <1>6
<1>8. codes \in Seq(Text) /\ Len(codes) = n
  BY <1>2, <1>7
<1>9. \A j \in 1..n : w[j] \in S /\ codes[j] = Code(w[j]) /\ Len(codes[j]) >= DocumentMinimum
  BY <1>4, <1>6
<1>10. PiecesFrom(codes, 0) = FlattenSeq(codes) /\ PiecesFrom(codes, 0) \in Text
  <2>1. PiecesFrom(codes, 0) = FlattenSeq(codes) /\ \A j \in 0..n : PiecesFrom(codes, j) \in Text
    BY <1>8, TailProperties
  <2>2. 0 \in 0..n
    BY <1>2
  <2> QED
    BY <2>1, <2>2
<1>11. Payload(i) = TextBytes(i.implicit) \o (IntegerBytes(n) \o PiecesFrom(codes, 0))
  <2>1. TextBytes(i.implicit) \in Text
    BY TextBytesType DEF IsIndex
  <2>2. IntegerBytes(n) \in Text
    BY <1>2, IntegerBytesType
  <2> DEFINE x == TextBytes(i.implicit)
             y == IntegerBytes(n)
             z == PiecesFrom(codes, 0)
  <2>3. x \in Text /\ y \in Text /\ z \in Text /\ Payload(i) = (x \o y) \o z
    BY <1>5, <1>10, <2>1, <2>2
  <2> HIDE DEF x, y, z
  <2>4. Payload(i) = x \o (y \o z)
    BY <2>3, JoinsAssociate
  <2> QED
    BY <2>4 DEF x, y, z
<1> QED
  BY <1>2, <1>8, <1>9, <1>11 DEF codes, w, n, S, Code

-----------------------------------------------------------------------------
(* What is read of a saved index is the first part of it, and the payload  *)
(* goes on with the rest                                                   *)

SavedDocuments == Cardinality(DOMAIN source.docs)

\* The first n documents are in the index.
IndexBack(n) ==
    index = [implicit |-> source.implicit,
             docs |-> [d \in Firsts(Ascending(DOMAIN source.docs), n) |-> Kept(source.docs[d])]]

\* The document being read has the first n groups of doc.
GroupsBack(doc, n) ==
    document.groups =
        [g \in Firsts(SortedNames(DOMAIN doc.groups), n) |-> SortedKeys(doc.groups[g])]

NamesBack(doc, k, n, j) ==
    LET names == DOMAIN doc.properties[PropertyKinds[j]]
    IN IF j < k THEN names ELSE IF j = k THEN Firsts(SortedNames(names), n) ELSE {}

\* It has the properties of the kinds before k, and the first n of kind k.
PropertiesBack(doc, k, n) ==
    \A j \in 1..5 :
        document.properties[PropertyKinds[j]] =
            [name \in NamesBack(doc, k, n, j) |-> doc.properties[PropertyKinds[j]][name]]

GroupPart(doc, n, rest) ==
    /\ left.groups = Cardinality(DOMAIN doc.groups) - n
    /\ GroupsBack(doc, n) /\ PropertiesBack(doc, 0, 0)
    /\ Rest(reader.position, PiecesFrom(GroupCodes(doc), n) \o rest)

KeyPart(doc, n, k, rest) ==
    LET g == SortedNames(DOMAIN doc.groups)[n]
    IN /\ group = g
       /\ left.groups = Cardinality(DOMAIN doc.groups) - n
       /\ left.keys = Len(doc.groups[g]) - k
       /\ keySet = [j \in 1..k |-> SortedKeys(doc.groups[g])[j]]
       /\ GroupsBack(doc, n - 1) /\ PropertiesBack(doc, 0, 0)
       /\ Rest(reader.position,
               PiecesFrom(KeyCodes(g, doc.groups[g]), k)
                 \o (PiecesFrom(GroupCodes(doc), n) \o rest))

PropertyPart(doc, k, n, rest) ==
    LET type == PropertyKinds[k]
    IN /\ kind = k
       /\ left.properties = Cardinality(DOMAIN doc.properties[type]) - n
       /\ GroupsBack(doc, Cardinality(DOMAIN doc.groups)) /\ PropertiesBack(doc, k, n)
       /\ Rest(reader.position,
               PiecesFrom(EntryCodes(type, doc.properties[type]), n)
                 \o (PiecesFrom(KindCodes(doc), k) \o rest))

\* doc is the nth document, and after is what is written after it.
IsCurrent(n, doc, after) ==
    /\ n \in 1..SavedDocuments
    /\ id = Ascending(DOMAIN source.docs)[n] /\ doc = source.docs[id]
    /\ after = PiecesFrom(DocumentCodes(source), n)
    /\ left.documents = SavedDocuments - n
    /\ IndexBack(n - 1)

Current ==
    {<<n, source.docs[id], PiecesFrom(DocumentCodes(source), n)>> : n \in 1..SavedDocuments}

BackDocument ==
    \E n \in 0..SavedDocuments :
        /\ left.documents = SavedDocuments - n
        /\ IndexBack(n)
        /\ Rest(reader.position, PiecesFrom(DocumentCodes(source), n))

BackGroup ==
    \E c \in Current :
        /\ IsCurrent(c[1], c[2], c[3])
        /\ \E n \in 0..Cardinality(DOMAIN c[2].groups) :
             GroupPart(c[2], n, PiecesFrom(KindCodes(c[2]), 0) \o c[3])

BackKey ==
    \E c \in Current :
        /\ IsCurrent(c[1], c[2], c[3])
        /\ \E n \in 1..Cardinality(DOMAIN c[2].groups) :
             \E k \in 0..Len(c[2].groups[SortedNames(DOMAIN c[2].groups)[n]]) :
                KeyPart(c[2], n, k, PiecesFrom(KindCodes(c[2]), 0) \o c[3])

BackProperty ==
    \E c \in Current :
        /\ IsCurrent(c[1], c[2], c[3])
        /\ \E k \in 1..5 :
             \E n \in 0..Cardinality(DOMAIN c[2].properties[PropertyKinds[k]]) :
                PropertyPart(c[2], k, n, c[3])

Back ==
    /\ payload = Payload(source)
    /\ pc = "header" => reader.position = 0
    /\ pc = "document" => BackDocument
    /\ pc = "group" => BackGroup
    /\ pc = "key" => BackKey
    /\ pc = "property" => BackProperty
    /\ pc = "decoded" => IndexBack(SavedDocuments)

LeftNames == {"documents", "groups", "keys", "properties"}

\* What the invariant says, and what it says of a payload that was not changed.
BackInv ==
    /\ UseInv
    /\ source \in Sources
    /\ left = [name \in LeftNames |-> left[name]]
    /\ ~changed => Back

\* What is known of a saved index and of the reader of its payload.
LEMMA BackFacts ==
    ASSUME BackInv, ~changed
    PROVE  /\ payload \in Text /\ Len(payload) < WordSize /\ LimitsOK /\ IsAt(reader)
           /\ UseInv /\ Back /\ payload = Payload(source)
           /\ IsIndex(source) /\ \A d \in DOMAIN source.docs : IdsFit(source.docs[d].groups)
           /\ SavedDocuments \in Nat
           /\ Ascending(DOMAIN source.docs) \in [1..SavedDocuments -> DOMAIN source.docs]
           /\ Lists(Ascending(DOMAIN source.docs), DOMAIN source.docs)
           /\ left = [name \in LeftNames |-> left[name]]
<1>1. UseInv /\ Back /\ source \in Sources /\ left = [name \in LeftNames |-> left[name]]
  BY DEF BackInv
<1>2. payload \in Text /\ LimitsOK /\ IsAt(reader)
  BY <1>1, UseReader
<1>3. payload = Payload(source)
  BY <1>1 DEF Back
<1>4. /\ IsIndex(source) /\ \A d \in DOMAIN source.docs : IdsFit(source.docs[d].groups)
      /\ Len(payload) < WordSize
  BY <1>1, <1>3, SourcesAssumption DEF IdsFit
<1> DEFINE S == DOMAIN source.docs
<1>5. S \in SUBSET Int /\ IsFiniteSet(S)
  BY <1>4, LongIsInt DEF IsIndex
<1> HIDE DEF S
<1>6. Cardinality(S) \in Nat /\ Ascending(S) \in [1..Cardinality(S) -> S] /\ Lists(Ascending(S), S)
  BY <1>5, AscendingProperties DEF Lists
<1> QED
  BY <1>1, <1>2, <1>3, <1>4, <1>6 DEF S, SavedDocuments

\* What is known of the document that is being read.
LEMMA CurrentFacts ==
    ASSUME BackInv, ~changed, NEW n, NEW doc, NEW after, IsCurrent(n, doc, after)
    PROVE  /\ n \in 1..SavedDocuments /\ after \in Text
           /\ id \in DOMAIN source.docs /\ doc = source.docs[id]
           /\ IsDocument(doc) /\ IdsFit(doc.groups)
           /\ \A k \in 0..5 : PiecesFrom(KindCodes(doc), k) \in Text /\ PiecesFrom(KindCodes(doc), k) \o after \in Text
<1>1. /\ IsIndex(source) /\ \A d \in DOMAIN source.docs : IdsFit(source.docs[d].groups)
      /\ SavedDocuments \in Nat
      /\ Ascending(DOMAIN source.docs) \in [1..SavedDocuments -> DOMAIN source.docs]
  BY BackFacts
<1>2. n \in 1..SavedDocuments /\ id \in DOMAIN source.docs /\ doc = source.docs[id]
  BY <1>1 DEF IsCurrent
<1>3. IsDocument(doc) /\ IdsFit(doc.groups)
  BY <1>1, <1>2 DEF IsIndex
<1>4. after \in Text
  <2> DEFINE f == DocumentCodes(source)
  <2>1. f \in Seq(Text) /\ Len(f) = SavedDocuments
    BY <1>1, PayloadCode DEF SavedDocuments
  <2> HIDE DEF f
  <2>2. \A i \in 0..Len(f) : PiecesFrom(f, i) \in Text
    BY <2>1, TailProperties
  <2>3. n \in 0..Len(f)
    BY <1>2, <2>1
  <2> QED
    BY <2>2, <2>3 DEF f, IsCurrent
<1>5. ASSUME NEW k \in 0..5
      PROVE  PiecesFrom(KindCodes(doc), k) \in Text /\ PiecesFrom(KindCodes(doc), k) \o after \in Text
  <2> DEFINE f == KindCodes(doc)
  <2>1. f \in Seq(Text) /\ Len(f) = 5
    BY <1>3, KindsCode
  <2> HIDE DEF f
  <2>2. PiecesFrom(f, k) \in Text
    BY <2>1, TailProperties
  <2> QED
    BY <1>4, <2>2, JoinType DEF f
<1> QED
  BY <1>2, <1>3, <1>4, <1>5

LEMMA IsInCurrent ==
    ASSUME NEW n, NEW doc, NEW after
    PROVE  /\ IsCurrent(n, doc, after) => <<n, doc, after>> \in Current
           /\ (IsCurrent(n, doc, after) => <<n, doc, after>> \in Current)'
BY DEF IsCurrent, Current

\* A group, a key or a property of the document that is being read.
LEMMA GroupIsBack ==
    ASSUME NEW n, NEW doc, NEW after, IsCurrent(n, doc, after)',
           NEW g \in 0..Cardinality(DOMAIN doc.groups),
           GroupPart(doc, g, PiecesFrom(KindCodes(doc), 0) \o after)'
    PROVE  BackGroup'
<1> DEFINE c == <<n, doc, after>>
<1>1. c[1] = n /\ c[2] = doc /\ c[3] = after
  OBVIOUS
<1>2. c \in Current'
  BY IsInCurrent
<1> HIDE DEF c
<1> QED
  BY <1>1, <1>2 DEF BackGroup

LEMMA KeyIsBack ==
    ASSUME NEW n, NEW doc, NEW after, IsCurrent(n, doc, after)',
           NEW g \in 1..Cardinality(DOMAIN doc.groups),
           NEW k \in 0..Len(doc.groups[SortedNames(DOMAIN doc.groups)[g]]),
           KeyPart(doc, g, k, PiecesFrom(KindCodes(doc), 0) \o after)'
    PROVE  BackKey'
<1> DEFINE c == <<n, doc, after>>
<1>1. c[1] = n /\ c[2] = doc /\ c[3] = after
  OBVIOUS
<1>2. c \in Current'
  BY IsInCurrent
<1> HIDE DEF c
<1> QED
  BY <1>1, <1>2 DEF BackKey

LEMMA PropertyIsBack ==
    ASSUME NEW n, NEW doc, NEW after, IsCurrent(n, doc, after)', NEW k \in 1..5,
           NEW p \in 0..Cardinality(DOMAIN doc.properties[PropertyKinds[k]]),
           PropertyPart(doc, k, p, after)'
    PROVE  BackProperty'
<1> DEFINE c == <<n, doc, after>>
<1>1. c[1] = n /\ c[2] = doc /\ c[3] = after
  OBVIOUS
<1>2. c \in Current'
  BY IsInCurrent
<1> HIDE DEF c
<1> QED
  BY <1>1, <1>2 DEF BackProperty

-----------------------------------------------------------------------------
(* A payload that was not changed is read as it was written               *)

LEMMA GroupWasBack ==
    ASSUME BackGroup
    PROVE  \E n, doc, after : /\ IsCurrent(n, doc, after)
                              /\ \E g \in 0..Cardinality(DOMAIN doc.groups) :
                                   GroupPart(doc, g, PiecesFrom(KindCodes(doc), 0) \o after)
BY DEF BackGroup

LEMMA KeyWasBack ==
    ASSUME BackKey
    PROVE  \E n, doc, after :
             /\ IsCurrent(n, doc, after)
             /\ \E g \in 1..Cardinality(DOMAIN doc.groups) :
                  \E k \in 0..Len(doc.groups[SortedNames(DOMAIN doc.groups)[g]]) :
                     KeyPart(doc, g, k, PiecesFrom(KindCodes(doc), 0) \o after)
BY DEF BackKey

LEMMA PropertyWasBack ==
    ASSUME BackProperty
    PROVE  \E n, doc, after :
             /\ IsCurrent(n, doc, after)
             /\ \E k \in 1..5 :
                  \E p \in 0..Cardinality(DOMAIN doc.properties[PropertyKinds[k]]) :
                     PropertyPart(doc, k, p, after)
BY DEF BackProperty

LEMMA BackRejected ==
    ASSUME BackInv, ~changed, Reject
    PROVE  Back'
BY BackFacts DEF Back, Reject, inputVars

LEMMA MinimumsType == EntryMinimum \in Nat \ {0} /\ DocumentMinimum \in Nat \ {0}
BY FormatAssumption DEF EntryMinimum, DocumentMinimum

LEMMA IndexTaken ==
    ASSUME BackInv, ~changed, pc = "header", NEW implicit, implicit = ReadText(reader),
           NEW maximum, NEW count, count = ReadCount(implicit, maximum, DocumentMinimum)
    PROVE  /\ count.ok <=> /\ reader.ok /\ Len(source.implicit) <= limits.string
                           /\ Len(source.implicit) <= Left(limits.decoded, reader.charged)
                           /\ SavedDocuments \in 0..maximum
           /\ count.ok => /\ implicit.value = source.implicit /\ count.value = SavedDocuments
                          /\ Rest(count.position, PiecesFrom(DocumentCodes(source), 0))
<1> DEFINE f == DocumentCodes(source)
           S == DOMAIN source.docs
           t == source.implicit
<1>1. /\ payload \in Text /\ Len(payload) < WordSize /\ LimitsOK /\ IsAt(reader) /\ Back
      /\ payload = Payload(source) /\ IsIndex(source)
      /\ \A d \in S : IdsFit(source.docs[d].groups)
  BY BackFacts
<1>2. Rest(reader.position, payload)
  <2>1. reader.position = 0 /\ Len(payload) \in Nat
    BY <1>1, TextLength DEF Back
  <2> QED
    BY <1>1, <2>1 DEF Rest
<1>3. /\ Cardinality(S) \in Nat /\ f \in Seq(Text) /\ Len(f) = Cardinality(S)
      /\ \A j \in 1..Len(f) : Len(f[j]) >= DocumentMinimum
      /\ payload = TextBytes(t) \o (IntegerBytes(Len(f)) \o PiecesFrom(f, 0))
  BY <1>1, PayloadCode
<1> HIDE DEF f
<1>4. /\ PiecesFrom(f, 0) \in Text /\ PiecesFrom(f, 0) \o <<>> = PiecesFrom(f, 0) /\ <<>> \in Text
      /\ IntegerBytes(Len(f)) \o PiecesFrom(f, 0) \in Text
  <2>1. \A j \in 0..Len(f) : PiecesFrom(f, j) \in Text
    BY <1>3, TailProperties
  <2>2. 0 \in 0..Len(f) /\ Len(f) \in Int
    BY <1>3
  <2>3. PiecesFrom(f, 0) \in Text /\ IntegerBytes(Len(f)) \in Text
    BY <2>1, <2>2, IntegerBytesType
  <2> QED
    BY <2>3, JoinType, NothingJoined
<1>5. /\ IsAt(implicit)
      /\ implicit.ok <=> reader.ok /\ Len(t) <= limits.string /\ Len(t) <= Left(limits.decoded, reader.charged)
      /\ implicit.ok => implicit.value = t /\ Rest(implicit.position, IntegerBytes(Len(f)) \o PiecesFrom(f, 0))
  <2> DEFINE y == IntegerBytes(Len(f)) \o PiecesFrom(f, 0)
  <2>1. t \in Text /\ y \in Text /\ Rest(reader.position, TextBytes(t) \o y)
    BY <1>1, <1>2, <1>3, <1>4 DEF IsIndex
  <2> HIDE DEF y, t
  <2>2. /\ implicit.ok <=> reader.ok /\ Len(t) <= limits.string /\ Len(t) <= Left(limits.decoded, reader.charged)
        /\ implicit.ok => implicit.value = t /\ Rest(implicit.position, y)
    BY <1>1, <2>1, ReadTextBack
  <2>3. IsAt(implicit)
    BY <1>1, ReadTextAt
  <2> QED
    BY <2>2, <2>3 DEF y
<1>6. count.ok => implicit.ok
  BY <1>1, <1>5, ReadCountAt
<1>7. ASSUME implicit.ok
      PROVE  /\ count.ok <=> Len(f) \in 0..maximum
             /\ count.ok => count.value = Len(f) /\ Rest(count.position, PiecesFrom(f, 0))
  <2> DEFINE e == <<>>
  <2>1. e \in Text /\ Rest(implicit.position, IntegerBytes(Len(f)) \o (PiecesFrom(f, 0) \o e))
    BY <1>4, <1>5, <1>7
  <2> HIDE DEF e
  <2>2. /\ count.ok <=> implicit.ok /\ Len(f) \in 0..maximum
        /\ count.ok => count.value = Len(f) /\ Rest(count.position, PiecesFrom(f, 0) \o e)
    BY <1>1, <1>3, <1>5, <2>1, CountBack, MinimumsType
  <2> QED
    BY <1>4, <1>7, <2>2 DEF e
<1> QED
  BY <1>3, <1>5, <1>6, <1>7 DEF f, SavedDocuments

\* Each step takes the next piece, and what it has read is a part of the document.
LEMMA BackReadIndex ==
    ASSUME BackInv, ~changed, ReadIndex
    PROVE  Back'
<1> DEFINE implicit == ReadText(reader)
           maximum == limits.documents
           count == ReadCount(implicit, maximum, DocumentMinimum)
           S == DOMAIN source.docs
<1> SUFFICES ASSUME count.ok, pc = "header", pc' = "document", reader' = count,
                    left' = [left EXCEPT !.documents = count.value],
                    index' = [index EXCEPT !.implicit = implicit.value],
                    UNCHANGED inputVars
             PROVE  Back'
  BY BackRejected DEF ReadIndex
<1>1. /\ UseInv /\ Back /\ payload = Payload(source) /\ SavedDocuments \in Nat
      /\ left = [name \in LeftNames |-> left[name]] /\ Lists(Ascending(S), S)
  BY BackFacts
<1>2. /\ implicit.value = source.implicit /\ count.value = SavedDocuments
      /\ Rest(count.position, PiecesFrom(DocumentCodes(source), 0))
  BY IndexTaken
<1> HIDE DEF implicit, maximum, count
<1>3. left'.documents = SavedDocuments
  BY <1>1, <1>2 DEF LeftNames
<1>4. IndexBack(0)'
  <2>1. index = [implicit |-> index.implicit, docs |-> index.docs] /\ DOMAIN index.docs = {}
        /\ index.docs = [d \in DOMAIN index.docs |-> index.docs[d]]
    BY <1>1 DEF UseInv, TypeInv, IsIndex
  <2>2. index' = [implicit |-> source.implicit, docs |-> index.docs]
    BY <1>2, <2>1
  <2>3. index.docs = [d \in Firsts(Ascending(S), 0) |-> Kept(source.docs[d])]
    <3>1. Firsts(Ascending(S), 0) = {}
      BY <1>1, FirstsAll
    <3> QED
      BY <2>1, <3>1
  <2> QED
    BY <2>2, <2>3 DEF IndexBack, inputVars
<1>5. BackDocument'
  <2>1. (left.documents = SavedDocuments - 0)'
    BY <1>1, <1>3 DEF SavedDocuments, inputVars
  <2>2. Rest(reader.position, PiecesFrom(DocumentCodes(source), 0))'
    BY <1>2 DEF Rest, inputVars
  <2>3. (0 \in 0..SavedDocuments)'
    BY <1>1 DEF SavedDocuments, inputVars
  <2> QED
    BY <1>4, <2>1, <2>2, <2>3 DEF BackDocument
<1> QED
  BY <1>1, <1>5 DEF Back, inputVars

\* doc is what is read next, after n documents, and rest is what is written
\* after its groups; count is read where at most maximum keys may follow.
NextDocument(n, d, doc, rest, native, maximum, count) ==
    /\ n \in 0..SavedDocuments /\ n + 1 \in 1..SavedDocuments /\ n \in Nat
    /\ left.documents = SavedDocuments - n /\ IndexBack(n)
    /\ d = Ascending(DOMAIN source.docs)[n + 1] /\ d \in DOMAIN source.docs /\ doc = source.docs[d]
    /\ IsDocument(doc) /\ IdsFit(doc.groups)
    /\ rest = PiecesFrom(KindCodes(doc), 0) \o PiecesFrom(DocumentCodes(source), n + 1)
    /\ count.ok <=> reader.ok /\ Cardinality(DOMAIN doc.groups) \in 0..maximum
    /\ count.ok => /\ native.value = d /\ count.value = Cardinality(DOMAIN doc.groups)
                   /\ Rest(count.position, PiecesFrom(GroupCodes(doc), 0) \o rest)

LEMMA DocumentTaken ==
    ASSUME BackInv, ~changed, pc = "document", left.documents > 0,
           NEW native, native = ReadNative(reader, LongMax),
           NEW maximum, NEW count, count = ReadCount(native, maximum, EntryMinimum)
    PROVE  \E n, d, doc, rest : NextDocument(n, d, doc, rest, native, maximum, count)
<1> DEFINE S == DOMAIN source.docs
           f == DocumentCodes(source)
<1>1. /\ payload \in Text /\ Len(payload) < WordSize /\ LimitsOK /\ IsAt(reader) /\ UseInv /\ Back
      /\ payload = Payload(source) /\ IsIndex(source)
      /\ \A d \in S : IdsFit(source.docs[d].groups)
      /\ left = [name \in LeftNames |-> left[name]] /\ Lists(Ascending(S), S)
      /\ SavedDocuments \in Nat
  BY BackFacts
<1>2. PICK n \in 0..SavedDocuments :
        left.documents = SavedDocuments - n /\ IndexBack(n) /\ Rest(reader.position, PiecesFrom(f, n))
  BY <1>1 DEF Back, BackDocument
<1>3. n + 1 \in 1..SavedDocuments /\ n \in 0..(SavedDocuments - 1) /\ n \in Nat
  BY <1>1, <1>2
<1> DEFINE d == Ascending(S)[n + 1]
<1>4. PICK doc, after : doc = source.docs[d] /\ after = PiecesFrom(f, n + 1)
  OBVIOUS
<1>5. /\ f \in Seq(Text) /\ Len(f) = SavedDocuments /\ d \in S
      /\ f[n + 1] = DocumentBytes(d, doc)
  <2>1. /\ f \in Seq(Text) /\ Len(f) = SavedDocuments
        /\ \A j \in 1..SavedDocuments :
             /\ Ascending(S)[j] \in S
             /\ f[j] = DocumentBytes(Ascending(S)[j], source.docs[Ascending(S)[j]])
    BY <1>1, PayloadCode DEF SavedDocuments
  <2> HIDE DEF f
  <2> QED
    BY <1>3, <1>4, <2>1
<1>6. d \in Long /\ IsDocument(doc) /\ IdsFit(doc.groups)
  BY <1>1, <1>4, <1>5 DEF IsIndex
<1>7. after \in Text /\ PiecesFrom(f, n) = f[n + 1] \o after
  <2> HIDE DEF f, d
  <2>1. /\ \A i \in 0..Len(f) : PiecesFrom(f, i) \in Text
        /\ \A i \in 0..(Len(f) - 1) : PiecesFrom(f, i) = f[i + 1] \o PiecesFrom(f, i + 1)
    BY <1>5, TailProperties
  <2>2. n + 1 \in 0..Len(f) /\ n \in 0..(Len(f) - 1)
    BY <1>1, <1>3, <1>5
  <2> QED
    BY <1>4, <2>1, <2>2
<1> DEFINE a == IntegerBytes(d)
           g == GroupCodes(doc)
           c == PiecesFrom(g, 0)
           k == PiecesFrom(KindCodes(doc), 0)
<1>8. g \in Seq(Text) /\ Len(g) = Cardinality(DOMAIN doc.groups) /\ \A j \in 1..Len(g) : Len(g[j]) >= EntryMinimum
  BY <1>6, GroupsCode
<1>9. Len(g) \in Nat /\ c \in Text
  <2> HIDE DEF g
  <2>1. Len(g) \in Nat /\ \A j \in 0..Len(g) : PiecesFrom(g, j) \in Text
    BY <1>8, TailProperties
  <2>2. 0 \in 0..Len(g)
    BY <2>1
  <2> QED
    BY <2>1, <2>2
<1>10. k \in Text
  <2> DEFINE h == KindCodes(doc)
  <2>1. h \in Seq(Text) /\ Len(h) = 5
    BY <1>6, KindsCode
  <2> HIDE DEF h
  <2>2. \A j \in 0..Len(h) : PiecesFrom(h, j) \in Text
    BY <2>1, TailProperties
  <2>3. 0 \in 0..Len(h)
    BY <2>1
  <2> QED
    BY <2>2, <2>3 DEF h
<1>11. f[n + 1] = a \o (IntegerBytes(Len(g)) \o (c \o k))
  BY <1>5, <1>6, <1>8, DocumentCode
<1>12. a \in Text /\ IntegerBytes(Len(g)) \in Text
  <2> HIDE DEF g, d
  <2> QED
    BY <1>6, <1>9, LongIsInt, IntegerBytesType
<1> HIDE DEF f, g, d, a, c, k
<1> DEFINE b == IntegerBytes(Len(g))
           rest == k \o after
<1>13. /\ rest \in Text /\ b \o (c \o rest) \in Text
       /\ (a \o (b \o (c \o k))) \o after = a \o (b \o (c \o rest))
  <2>1. b \in Text
    BY <1>12
  <2> HIDE DEF b
  <2>2. c \o k \in Text /\ b \o (c \o k) \in Text /\ rest \in Text /\ c \o rest \in Text /\ b \o (c \o rest) \in Text
    <3>1. c \o k \in Text /\ rest \in Text
      BY <1>7, <1>9, <1>10, JoinType
    <3> DEFINE x == c \o k
    <3> HIDE DEF rest, x
    <3>2. c \o rest \in Text /\ b \o x \in Text
      BY <1>9, <2>1, <3>1, JoinType DEF x
    <3> DEFINE y == c \o rest
    <3> HIDE DEF y
    <3>3. b \o y \in Text
      BY <2>1, <3>2, JoinType DEF y
    <3> QED
      BY <3>1, <3>2, <3>3 DEF x, y
  <2>3. (c \o k) \o after = c \o rest
    BY <1>7, <1>9, <1>10, JoinsAssociate
  <2> DEFINE x == c \o k
             y == b \o x
  <2> HIDE DEF rest
  <2>4. x \in Text /\ y \in Text /\ x \o after = c \o rest
    BY <2>2, <2>3
  <2> HIDE DEF x
  <2>5. y \o after = b \o (x \o after)
    BY <1>7, <2>1, <2>4, JoinsAssociate
  <2> HIDE DEF y
  <2>6. (a \o y) \o after = a \o (y \o after)
    <3>1. a \in Text /\ y \in Text /\ after \in Text
      BY <1>7, <1>12, <2>4
    <3> QED
      BY <3>1, JoinsAssociate
  <2> QED
    BY <2>2, <2>4, <2>5, <2>6 DEF x, y
<1>14. Rest(reader.position, a \o (b \o (c \o rest)))
  BY <1>2, <1>7, <1>11, <1>13
<1>15. /\ IsAt(native) /\ (native.ok <=> reader.ok)
       /\ native.ok => native.value = d /\ Rest(native.position, b \o (c \o rest))
  <2> DEFINE y == b \o (c \o rest)
  <2>1. y \in Text /\ Rest(reader.position, IntegerBytes(d) \o y)
    BY <1>13, <1>14 DEF a
  <2> HIDE DEF y
  <2>2. /\ native.ok <=> reader.ok /\ d \in (-LongMax - 1)..LongMax
        /\ native.ok => native.value = d /\ Rest(native.position, y)
    BY <1>1, <1>6, <2>1, ReadNativeBack
  <2>3. IsAt(native)
    BY <1>1, ReadNativeAt
  <2> QED
    BY <1>6, <2>2, <2>3 DEF y, Long
<1>16. count.ok => native.ok
  BY <1>1, <1>15, ReadCountAt
<1>17. ASSUME native.ok
       PROVE  /\ count.ok <=> Len(g) \in 0..maximum
              /\ count.ok => count.value = Len(g) /\ Rest(count.position, c \o rest)
  <2> PICK h, z : h = g /\ z = rest
    OBVIOUS
  <2>1. /\ h \in Seq(Text) /\ \A j \in 1..Len(h) : Len(h[j]) >= EntryMinimum
        /\ z \in Text /\ EntryMinimum \in Nat \ {0}
        /\ Rest(native.position, IntegerBytes(Len(h)) \o (PiecesFrom(h, 0) \o z))
    BY <1>8, <1>13, <1>15, <1>17, MinimumsType DEF b, c
  <2>2. /\ count.ok <=> native.ok /\ Len(h) \in 0..maximum
        /\ count.ok => count.value = Len(h) /\ Rest(count.position, PiecesFrom(h, 0) \o z)
    BY <1>1, <1>15, <2>1, CountBack
  <2> QED
    BY <1>17, <2>2 DEF c
<1> HIDE DEF rest, b
<1>18. rest = PiecesFrom(KindCodes(doc), 0) \o PiecesFrom(DocumentCodes(source), n + 1)
  BY <1>4 DEF rest, k, f
<1>19. /\ count.ok <=> reader.ok /\ Cardinality(DOMAIN doc.groups) \in 0..maximum
       /\ count.ok => /\ native.value = d /\ count.value = Cardinality(DOMAIN doc.groups)
                      /\ Rest(count.position, PiecesFrom(GroupCodes(doc), 0) \o rest)
  BY <1>8, <1>15, <1>16, <1>17 DEF c, g
<1>20. d = Ascending(DOMAIN source.docs)[n + 1]
  BY DEF d
<1> HIDE DEF S
<1> QED
  <2>1. NextDocument(n, d, doc, rest, native, maximum, count)
    BY <1>2, <1>3, <1>4, <1>5, <1>6, <1>18, <1>19, <1>20 DEF NextDocument, S
  <2> QED
    BY <2>1

LEMMA BackBeginDocument ==
    ASSUME BackInv, ~changed, BeginDocument
    PROVE  Back'
<1> PICK native, maximum, count :
      /\ native = ReadNative(reader, LongMax) /\ maximum = Left(limits.keys, keysTotal)
      /\ count = ReadCount(native, maximum, EntryMinimum)
  OBVIOUS
<1> SUFFICES ASSUME count.ok, pc = "document", left.documents > 0, pc' = "group", reader' = count,
                    left' = [left EXCEPT !.documents = @ - 1, !.groups = count.value],
                    id' = native.value, document' = NewDocument, index' = index,
                    UNCHANGED inputVars
             PROVE  Back'
  BY BackRejected DEF BeginDocument, resultVars
<1>1. UseInv /\ Back /\ SavedDocuments \in Nat /\ left = [name \in LeftNames |-> left[name]]
  BY BackFacts
<1>0. PICK n, d, doc, rest : NextDocument(n, d, doc, rest, native, maximum, count)
  BY DocumentTaken
<1>2. /\ n + 1 \in 1..SavedDocuments /\ n \in Nat
      /\ left.documents = SavedDocuments - n /\ IndexBack(n)
      /\ d = Ascending(DOMAIN source.docs)[n + 1] /\ d \in DOMAIN source.docs /\ doc = source.docs[d]
      /\ IsDocument(doc) /\ IdsFit(doc.groups)
      /\ rest = PiecesFrom(KindCodes(doc), 0) \o PiecesFrom(DocumentCodes(source), n + 1)
      /\ native.value = d /\ count.value = Cardinality(DOMAIN doc.groups)
      /\ Rest(count.position, PiecesFrom(GroupCodes(doc), 0) \o rest)
  BY <1>0 DEF NextDocument
<1>3. PICK after, m : after = PiecesFrom(DocumentCodes(source), n + 1) /\ m = Cardinality(DOMAIN doc.groups)
  OBVIOUS
<1>4. m \in Nat
  BY <1>2, <1>3, GroupsCode
<1>5. left'.documents = SavedDocuments - (n + 1) /\ left'.groups = m
  BY <1>1, <1>2, <1>3 DEF LeftNames
<1>6. IsCurrent(n + 1, doc, after)'
  <2>1. id' = d /\ (n + 1) - 1 = n
    BY <1>2
  <2>2. IndexBack(n)'
    BY <1>2 DEF IndexBack, inputVars
  <2> QED
    BY <1>2, <1>3, <1>5, <2>1, <2>2 DEF IsCurrent, SavedDocuments, inputVars
<1>7. GroupPart(doc, 0, PiecesFrom(KindCodes(doc), 0) \o after)'
  <2>1. (left.groups = Cardinality(DOMAIN doc.groups) - 0)'
    BY <1>3, <1>4, <1>5
  <2>2. GroupsBack(doc, 0)'
    <3>1. Firsts(SortedNames(DOMAIN doc.groups), 0) = {}
      BY <1>2, GroupsCode, FirstsAll
    <3> DEFINE e == <<>>
    <3>2. DOMAIN e = {} /\ e = [x \in {} |-> e[x]] /\ document'.groups = e
      BY DEF NewDocument
    <3> HIDE DEF e
    <3> QED
      BY <3>1, <3>2 DEF GroupsBack
  <2>3. PropertiesBack(doc, 0, 0)'
    <3> DEFINE e == <<>>
    <3>1. DOMAIN e = {} /\ e = [x \in {} |-> e[x]]
      OBVIOUS
    <3>2. \A j \in 1..5 : document'.properties[PropertyKinds[j]] = e
      BY KindsAre DEF NewDocument
    <3>3. \A j \in 1..5 : NamesBack(doc, 0, 0, j) = {}
      BY DEF NamesBack
    <3> HIDE DEF e
    <3> QED
      BY <3>1, <3>2, <3>3 DEF PropertiesBack
  <2>4. Rest(reader.position, PiecesFrom(GroupCodes(doc), 0) \o rest)'
    <3> PICK z : z = PiecesFrom(GroupCodes(doc), 0) \o rest
      OBVIOUS
    <3>1. Rest(count.position, z)
      BY <1>2
    <3>2. Rest(reader.position, z)'
      BY <3>1 DEF Rest, inputVars
    <3> QED
      BY <3>2
  <2> QED
    BY <1>2, <1>3, <2>1, <2>2, <2>3, <2>4 DEF GroupPart
<1>8. BackGroup'
  <2>1. 0 \in 0..Cardinality(DOMAIN doc.groups)
    BY <1>3, <1>4
  <2> QED
    BY <1>6, <1>7, <2>1, GroupIsBack
<1> QED
  BY <1>1, <1>8 DEF Back, inputVars

\* The nth group of a document is one of its groups.
LEMMA GroupFacts ==
    ASSUME NEW doc, IsDocument(doc), IdsFit(doc.groups), NEW n \in 1..Cardinality(DOMAIN doc.groups),
           NEW g, g = SortedNames(DOMAIN doc.groups)[n], NEW strings, strings = doc.groups[g]
    PROVE  /\ g \in DOMAIN doc.groups /\ g \in Text /\ strings \in Seq(Text)
           /\ \A i \in DOMAIN strings : KeyId(g, strings[i]) \in Long
           /\ n - 1 \in 0..(Len(GroupCodes(doc)) - 1) /\ GroupCodes(doc) \in Seq(Text)
           /\ Len(GroupCodes(doc)) = Cardinality(DOMAIN doc.groups)
           /\ PiecesFrom(GroupCodes(doc), n) \in Text
           /\ PiecesFrom(GroupCodes(doc), n - 1) = GroupBytes(g, strings) \o PiecesFrom(GroupCodes(doc), n)
           /\ GroupBytes(g, strings) \in Text
<1> DEFINE S == DOMAIN doc.groups
           m == Cardinality(S)
           f == GroupCodes(doc)
<1>1. /\ m \in Nat /\ Lists(SortedNames(S), S)
      /\ f \in Seq(Text) /\ Len(f) = m
      /\ \A i \in 1..m : f[i] = GroupBytes(SortedNames(S)[i], doc.groups[SortedNames(S)[i]])
  BY GroupsCode
<1>2. S \subseteq Text /\ \A h \in S : doc.groups[h] \in Seq(Text)
  BY DocumentParts DEF IsGroups
<1>3. g \in S
  <2> HIDE DEF m
  <2>1. SortedNames(S) \in [1..m -> S]
    BY <1>1 DEF Lists, m
  <2> QED
    BY <2>1 DEF m
<1>4. \A i \in DOMAIN strings : KeyId(g, strings[i]) \in Long
  BY <1>3 DEF IdsFit
<1>5. f[n] = GroupBytes(g, strings)
  BY <1>1
<1> HIDE DEF f, m, S
<1>6. /\ \A i \in 0..Len(f) : PiecesFrom(f, i) \in Text
      /\ \A i \in 0..(Len(f) - 1) : f[i + 1] \in Text /\ PiecesFrom(f, i) = f[i + 1] \o PiecesFrom(f, i + 1)
  BY <1>1, TailProperties
<1>7. n \in 1..m /\ n - 1 \in 0..(Len(f) - 1) /\ n \in 0..Len(f) /\ (n - 1) + 1 = n
  <2>1. n \in 1..m
    BY DEF m, S
  <2> QED
    BY <1>1, <2>1
<1>8. PiecesFrom(f, n - 1) = GroupBytes(g, strings) \o PiecesFrom(f, n) /\ GroupBytes(g, strings) \in Text
  BY <1>5, <1>6, <1>7
<1> QED
  BY <1>1, <1>2, <1>3, <1>4, <1>6, <1>7, <1>8 DEF f, m, S

\* g, the next group of doc after n of them, with tail written after its keys.
NextGroup(at, doc, after, n, g, tail, name, maximum, count) ==
    /\ IsCurrent(at, doc, after)
    /\ n \in Nat /\ n + 1 \in 1..Cardinality(DOMAIN doc.groups)
    /\ GroupPart(doc, n, PiecesFrom(KindCodes(doc), 0) \o after)
    /\ g = SortedNames(DOMAIN doc.groups)[n + 1]
    /\ tail = PiecesFrom(GroupCodes(doc), n + 1) \o (PiecesFrom(KindCodes(doc), 0) \o after)
    /\ count.ok <=> /\ reader.ok /\ Len(g) <= limits.string
                    /\ Len(g) <= Left(limits.decoded, reader.charged)
                    /\ g \notin reverseIndices => Len(g) <= Left(limits.decoded, reader.charged + Len(g))
                    /\ Len(doc.groups[g]) \in 0..maximum
    /\ count.ok => /\ name.value = g /\ count.value = Len(doc.groups[g])
                   /\ Rest(count.position, PiecesFrom(KeyCodes(g, doc.groups[g]), 0) \o tail)

LEMMA GroupTaken ==
    ASSUME BackInv, ~changed, pc = "group", left.groups > 0, NEW name, name = ReadText(reader),
           NEW charged, charged = IF name.ok THEN ChargeReverseIndex(name) ELSE name,
           NEW maximum, NEW count, count = ReadCount(charged, maximum, EntryMinimum)
    PROVE  \E at, doc, after, n, g, tail : NextGroup(at, doc, after, n, g, tail, name, maximum, count)
<1>1. /\ payload \in Text /\ Len(payload) < WordSize /\ LimitsOK /\ IsAt(reader) /\ Back
  BY BackFacts
<1>2. PICK at, doc, after : /\ IsCurrent(at, doc, after)
                            /\ \E n \in 0..Cardinality(DOMAIN doc.groups) :
                                 GroupPart(doc, n, PiecesFrom(KindCodes(doc), 0) \o after)
  BY <1>1, GroupWasBack DEF Back
<1>3. PICK rest : rest = PiecesFrom(KindCodes(doc), 0) \o after
  OBVIOUS
<1>4. IsDocument(doc) /\ IdsFit(doc.groups) /\ rest \in Text
  BY <1>2, <1>3, CurrentFacts
<1> DEFINE m == Cardinality(DOMAIN doc.groups)
           codes == GroupCodes(doc)
<1>5. PICK n \in 0..m : GroupPart(doc, n, rest)
  BY <1>2, <1>3
<1>6. m \in Nat
  BY <1>4, GroupsCode
<1>7. n + 1 \in 1..m /\ n \in Nat /\ (n + 1) - 1 = n
  <2>1. left.groups = m - n
    BY <1>5 DEF GroupPart
  <2> HIDE DEF m
  <2> QED
    BY <1>5, <1>6, <2>1
<1>8. PICK g, strings, tail : /\ g = SortedNames(DOMAIN doc.groups)[n + 1] /\ strings = doc.groups[g]
                              /\ tail = PiecesFrom(codes, n + 1) \o rest
  OBVIOUS
<1>9. /\ g \in Text /\ strings \in Seq(Text) /\ \A i \in DOMAIN strings : KeyId(g, strings[i]) \in Long
      /\ PiecesFrom(codes, n + 1) \in Text /\ GroupBytes(g, strings) \in Text
      /\ PiecesFrom(codes, n) = GroupBytes(g, strings) \o PiecesFrom(codes, n + 1)
  BY <1>4, <1>7, <1>8, GroupFacts
<1>10. PICK f : f = KeyCodes(g, strings)
  OBVIOUS
<1>11. PICK a, b, c : a = TextBytes(g) /\ b = IntegerBytes(Len(f)) /\ c = PiecesFrom(f, 0)
  OBVIOUS
<1>12. /\ f \in Seq(Text) /\ Len(f) = Len(strings) /\ \A i \in 1..Len(f) : Len(f[i]) >= EntryMinimum
       /\ GroupBytes(g, strings) = (a \o b) \o c
  BY <1>9, <1>10, <1>11, GroupCode
<1>13. a \in Text /\ b \in Text /\ c \in Text /\ Len(f) \in Nat
  <2>1. Len(f) \in Nat /\ \A i \in 0..Len(f) : PiecesFrom(f, i) \in Text
    BY <1>12, TailProperties
  <2>2. 0 \in 0..Len(f)
    BY <2>1
  <2>3. Len(f) \in Nat /\ c \in Text
    BY <1>11, <2>1, <2>2
  <2>4. a \in Text
    BY <1>9, <1>11, TextBytesType
  <2>5. b \in Text
    BY <1>11, <2>3, IntegerBytesType
  <2> QED
    BY <2>3, <2>4, <2>5
<1> HIDE DEF codes, m
<1>14. tail \in Text
  BY <1>4, <1>8, <1>9, JoinType
<1>15. /\ b \o (c \o tail) \in Text
       /\ Rest(reader.position, a \o (b \o (c \o tail)))
  <2> DEFINE x == (a \o b) \o c
             y == PiecesFrom(codes, n + 1)
  <2>1. x \in Text /\ y \in Text /\ PiecesFrom(codes, n) = x \o y
    BY <1>9, <1>12
  <2>2. x \o tail = a \o (b \o (c \o tail)) /\ b \o (c \o tail) \in Text
    <3>1. a \in Text /\ b \in Text /\ c \in Text /\ tail \in Text
      BY <1>13, <1>14
    <3> DEFINE u == a \o b
               v == c \o tail
    <3>2. u \in Text /\ v \in Text
      BY <3>1, JoinType
    <3> HIDE DEF u, v
    <3>3. (u \o c) \o tail = u \o (c \o tail)
      BY <3>1, <3>2, JoinsRegroup
    <3>4. (a \o b) \o v = a \o (b \o v)
      BY <3>1, <3>2, JoinsRegroup
    <3>5. x \o tail = a \o (b \o (c \o tail))
      BY <3>3, <3>4 DEF u, v
    <3> QED
      BY <3>1, <3>5, JoinThree
  <2> HIDE DEF x, y
  <2>3. (x \o y) \o rest = x \o (y \o rest)
    BY <1>4, <2>1, JoinsAssociate
  <2>4. Rest(reader.position, (x \o y) \o rest)
    BY <1>5, <2>1 DEF GroupPart, codes
  <2>5. tail = y \o rest
    BY <1>8 DEF y
  <2> QED
    BY <2>2, <2>3, <2>4, <2>5
<1>16. /\ IsAt(name)
       /\ name.ok <=> reader.ok /\ Len(g) <= limits.string /\ Len(g) <= Left(limits.decoded, reader.charged)
       /\ name.ok => /\ name.value = g /\ name.charged = reader.charged + Len(g)
                     /\ Rest(name.position, b \o (c \o tail))
  <2> PICK y : y = b \o (c \o tail)
    OBVIOUS
  <2>1. y \in Text /\ Rest(reader.position, TextBytes(g) \o y)
    BY <1>15, <1>11
  <2>2. /\ name.ok <=> reader.ok /\ Len(g) <= limits.string /\ Len(g) <= Left(limits.decoded, reader.charged)
        /\ name.ok => name.value = g /\ name.charged = reader.charged + Len(g) /\ Rest(name.position, y)
    BY <1>1, <1>9, <2>1, ReadTextBack
  <2>3. IsAt(name)
    BY <1>1, ReadTextAt
  <2> QED
    BY <2>2, <2>3
<1>17. /\ IsAt(charged) /\ (charged.ok => charged.position = name.position)
       /\ charged.ok <=> name.ok /\ (g \notin reverseIndices =>
                                       Len(g) <= Left(limits.decoded, reader.charged + Len(g)))
  <2>1. CASE ~name.ok
    BY <1>16, <2>1
  <2>2. CASE name.ok /\ g \in reverseIndices
    BY <1>16, <2>2 DEF ChargeReverseIndex
  <2>3. CASE name.ok /\ g \notin reverseIndices
    <3>1. charged = Charge(name, Len(g)) /\ Len(g) \in Nat
      BY <1>9, <1>16, <2>3, TextLength DEF ChargeReverseIndex
    <3>2. IsAt(charged) /\ (charged.ok => charged.position = name.position)
      BY <1>1, <1>16, <3>1, ChargeAt, ChargeBack
    <3>3. charged.ok <=> name.ok /\ Len(g) <= Left(limits.decoded, name.charged)
      BY <1>16, <3>1, ChargeBack
    <3> QED
      BY <1>16, <2>3, <3>2, <3>3
  <2> QED
    BY <2>1, <2>2, <2>3
<1>18. count.ok => charged.ok
  BY <1>1, <1>17, ReadCountAt
<1>19. ASSUME charged.ok
       PROVE  /\ count.ok <=> Len(f) \in 0..maximum
              /\ count.ok => count.value = Len(f) /\ Rest(count.position, c \o tail)
  <2>1. Rest(charged.position, IntegerBytes(Len(f)) \o (PiecesFrom(f, 0) \o tail))
    BY <1>16, <1>17, <1>19, <1>11
  <2>2. /\ count.ok <=> charged.ok /\ Len(f) \in 0..maximum
        /\ count.ok => count.value = Len(f) /\ Rest(count.position, PiecesFrom(f, 0) \o tail)
    BY <1>1, <1>12, <1>14, <1>17, <2>1, CountBack, MinimumsType
  <2> QED
    BY <1>11, <1>19, <2>2
<1>20. NextGroup(at, doc, after, n, g, tail, name, maximum, count)
  <2>1. GroupPart(doc, n, PiecesFrom(KindCodes(doc), 0) \o after)
    BY <1>3, <1>5
  <2>2. tail = PiecesFrom(GroupCodes(doc), n + 1) \o (PiecesFrom(KindCodes(doc), 0) \o after)
    BY <1>3, <1>8 DEF codes
  <2>3. /\ count.ok <=> /\ reader.ok /\ Len(g) <= limits.string
                        /\ Len(g) <= Left(limits.decoded, reader.charged)
                        /\ g \notin reverseIndices => Len(g) <= Left(limits.decoded, reader.charged + Len(g))
                        /\ Len(strings) \in 0..maximum
        /\ count.ok => /\ name.value = g /\ count.value = Len(strings)
                       /\ Rest(count.position, PiecesFrom(KeyCodes(g, strings), 0) \o tail)
    BY <1>10, <1>11, <1>12, <1>16, <1>17, <1>18, <1>19
  <2> QED
    BY <1>2, <1>7, <1>8, <2>1, <2>2, <2>3 DEF NextGroup, m
<1> QED
  BY <1>20

LEMMA BackBeginGroup ==
    ASSUME BackInv, ~changed, BeginGroup
    PROVE  Back'
<1> PICK name, charged, maximum, count :
      /\ name = ReadText(reader) /\ charged = IF name.ok THEN ChargeReverseIndex(name) ELSE name
      /\ maximum = Left(limits.keys, keysTotal) /\ count = ReadCount(charged, maximum, EntryMinimum)
  OBVIOUS
<1> SUFFICES ASSUME count.ok, pc = "group", left.groups > 0, pc' = "key", reader' = count,
                    left' = [left EXCEPT !.groups = @ - 1, !.keys = count.value],
                    group' = name.value, keySet' = <<>>,
                    UNCHANGED <<inputVars, id, document, index>>
             PROVE  Back'
  BY BackRejected DEF BeginGroup, resultVars
<1>1. UseInv /\ Back /\ left = [x \in LeftNames |-> left[x]]
  BY BackFacts
<1>2. PICK at, doc, after, n, g, tail : NextGroup(at, doc, after, n, g, tail, name, maximum, count)
  BY GroupTaken
<1>3. PICK rest, m, strings :
        /\ rest = PiecesFrom(KindCodes(doc), 0) \o after /\ m = Cardinality(DOMAIN doc.groups)
        /\ strings = doc.groups[g]
  OBVIOUS
<1>4. /\ IsCurrent(at, doc, after) /\ n \in Nat /\ n + 1 \in 1..m /\ GroupPart(doc, n, rest)
      /\ g = SortedNames(DOMAIN doc.groups)[n + 1] /\ tail = PiecesFrom(GroupCodes(doc), n + 1) \o rest
      /\ name.value = g /\ count.value = Len(strings)
      /\ Rest(count.position, PiecesFrom(KeyCodes(g, strings), 0) \o tail)
  BY <1>2, <1>3 DEF NextGroup
<1>5. m \in Nat /\ Len(strings) \in Nat
  <2>1. IsDocument(doc) /\ IdsFit(doc.groups)
    BY <1>4, CurrentFacts
  <2>2. strings \in Seq(Text)
    BY <1>3, <1>4, <2>1, GroupFacts
  <2> QED
    BY <1>3, <2>1, <2>2, GroupsCode
<1>6. IsCurrent(at, doc, after)'
  <2>1. left'.documents = left.documents
    BY <1>1 DEF LeftNames
  <2> QED
    BY <1>4, <2>1 DEF IsCurrent, IndexBack, SavedDocuments, inputVars
<1>7. KeyPart(doc, n + 1, 0, rest)'
  <2>1. left.groups = m - n
    BY <1>3, <1>4 DEF GroupPart
  <2>2. left'.groups = m - (n + 1) /\ left'.keys = Len(strings) - 0
    BY <1>1, <1>4, <1>5, <2>1 DEF LeftNames
  <2>3. keySet' = [j \in 1..0 |-> SortedKeys(strings)[j]]
    <3>1. 1..0 = {}
      OBVIOUS
    <3> QED
      BY <3>1
  <2>4. GroupsBack(doc, (n + 1) - 1)' /\ PropertiesBack(doc, 0, 0)'
    <3>1. (n + 1) - 1 = n
      BY <1>4
    <3> QED
      BY <1>4, <3>1 DEF GroupPart, GroupsBack, PropertiesBack
  <2>5. Rest(reader.position, PiecesFrom(KeyCodes(g, strings), 0) \o tail)'
    <3> PICK z : z = PiecesFrom(KeyCodes(g, strings), 0) \o tail
      OBVIOUS
    <3>1. Rest(count.position, z)
      BY <1>4
    <3>2. Rest(reader.position, z)'
      BY <3>1 DEF Rest, inputVars
    <3> QED
      BY <3>2
  <2> QED
    BY <1>3, <1>4, <2>2, <2>3, <2>4, <2>5 DEF KeyPart
<1>8. BackKey'
  <2>1. 0 \in 0..Len(doc.groups[SortedNames(DOMAIN doc.groups)[n + 1]])
    BY <1>3, <1>4, <1>5
  <2> QED
    BY <1>3, <1>4, <1>6, <1>7, <2>1, KeyIsBack
<1> QED
  BY <1>1, <1>8 DEF Back, inputVars

\* s, the next key of g, the nth group of doc, after k of them.
NextKey(at, doc, after, n, k, g, s, tail, string, key) ==
    /\ IsCurrent(at, doc, after)
    /\ n \in 1..Cardinality(DOMAIN doc.groups) /\ g = SortedNames(DOMAIN doc.groups)[n]
    /\ k \in Nat /\ k + 1 \in 1..Len(doc.groups[g]) /\ s = SortedKeys(doc.groups[g])[k + 1]
    /\ KeyPart(doc, n, k, PiecesFrom(KindCodes(doc), 0) \o after)
    /\ tail = PiecesFrom(KeyCodes(g, doc.groups[g]), k + 1)
                \o (PiecesFrom(GroupCodes(doc), n) \o (PiecesFrom(KindCodes(doc), 0) \o after))
    /\ key.ok <=> /\ reader.ok /\ Len(s) <= limits.string
                  /\ Len(s) <= Left(limits.decoded, reader.charged)
                  /\ Len(g) <= Left(limits.decoded, reader.charged + Len(s))
    /\ key.ok => string.value = s /\ key.value = KeyId(g, s) /\ Rest(key.position, tail)

LEMMA KeyTaken ==
    ASSUME BackInv, ~changed, pc = "key", left.keys > 0, NEW string, string = ReadText(reader),
           NEW key, key = ChargeKey(ReadNative(string, LongMax))
    PROVE  \E at, doc, after, n, k, g, s, tail : NextKey(at, doc, after, n, k, g, s, tail, string, key)
<1> PICK native : native = ReadNative(string, LongMax)
  OBVIOUS
<1>1. /\ payload \in Text /\ Len(payload) < WordSize /\ LimitsOK /\ IsAt(reader) /\ Back
  BY BackFacts
<1>2. PICK at, doc, after :
        /\ IsCurrent(at, doc, after)
        /\ \E n \in 1..Cardinality(DOMAIN doc.groups) :
             \E k \in 0..Len(doc.groups[SortedNames(DOMAIN doc.groups)[n]]) :
                KeyPart(doc, n, k, PiecesFrom(KindCodes(doc), 0) \o after)
  BY <1>1, KeyWasBack DEF Back
<1>3. PICK rest : rest = PiecesFrom(KindCodes(doc), 0) \o after
  OBVIOUS
<1>4. IsDocument(doc) /\ IdsFit(doc.groups) /\ rest \in Text
  BY <1>2, <1>3, CurrentFacts
<1>5. PICK n \in 1..Cardinality(DOMAIN doc.groups) :
        \E k \in 0..Len(doc.groups[SortedNames(DOMAIN doc.groups)[n]]) : KeyPart(doc, n, k, rest)
  BY <1>2, <1>3
<1>6. PICK g, strings : g = SortedNames(DOMAIN doc.groups)[n] /\ strings = doc.groups[g]
  OBVIOUS
<1>7. PICK k \in 0..Len(strings) : KeyPart(doc, n, k, rest)
  BY <1>5, <1>6
<1>8. PICK tail, f, w : /\ tail = PiecesFrom(GroupCodes(doc), n) \o rest
                        /\ f = KeyCodes(g, strings) /\ w = SortedKeys(strings)
  OBVIOUS
<1>9. /\ group = g /\ left.groups = Cardinality(DOMAIN doc.groups) - n
      /\ left.keys = Len(strings) - k /\ keySet = [j \in 1..k |-> w[j]]
      /\ GroupsBack(doc, n - 1) /\ PropertiesBack(doc, 0, 0)
      /\ Rest(reader.position, PiecesFrom(f, k) \o tail)
  BY <1>6, <1>7, <1>8 DEF KeyPart
<1>10. /\ g \in Text /\ strings \in Seq(Text) /\ \A i \in DOMAIN strings : KeyId(g, strings[i]) \in Long
       /\ PiecesFrom(GroupCodes(doc), n) \in Text
  BY <1>4, <1>6, GroupFacts
<1>11. tail \in Text
  BY <1>4, <1>8, <1>10, JoinType
<1>12. Len(strings) \in Nat /\ k \in 0..(Len(strings) - 1) /\ k + 1 \in 1..Len(strings) /\ k \in Nat
       /\ k + 1 \in 0..Len(strings)
  <2>1. Len(strings) \in Nat
    BY <1>10
  <2> QED
    BY <1>9, <2>1
<1>13. PICK s, v, next : s = w[k + 1] /\ v = KeyId(g, s) /\ next = PiecesFrom(f, k + 1)
  OBVIOUS
<1>14. /\ f \in Seq(Text) /\ Len(f) = Len(strings)
       /\ f[k + 1] = TextBytes(s) \o IntegerBytes(v) /\ v \in Long
  BY <1>8, <1>10, <1>12, <1>13, GroupCode
<1>15. s \in Text /\ w \in Seq(Text) /\ Len(w) = Len(strings)
  <2>1. w \in Seq(Text) /\ Len(w) = Len(strings)
    BY <1>8, <1>10, SortedKeysType
  <2> QED
    BY <1>12, <1>13, <2>1
<1>16. next \in Text /\ PiecesFrom(f, k) = f[k + 1] \o next
  <2>1. /\ \A i \in 0..Len(f) : PiecesFrom(f, i) \in Text
        /\ \A i \in 0..(Len(f) - 1) : PiecesFrom(f, i) = f[i + 1] \o PiecesFrom(f, i + 1)
    BY <1>14, TailProperties
  <2> QED
    BY <1>12, <1>13, <1>14, <2>1
<1>17. PICK a, b, c : a = TextBytes(s) /\ b = IntegerBytes(v) /\ c = next \o tail
  OBVIOUS
<1>18. a \in Text /\ b \in Text /\ c \in Text /\ b \o c \in Text
  <2>1. a \in Text
    BY <1>15, <1>17, TextBytesType
  <2>2. b \in Text
    BY <1>14, <1>17, LongIsInt, IntegerBytesType
  <2>3. c \in Text
    BY <1>11, <1>16, <1>17, JoinType
  <2> QED
    BY <2>1, <2>2, <2>3, JoinType
<1>19. Rest(reader.position, a \o (b \o c))
  <2> DEFINE u == a \o b
  <2>1. u \in Text
    BY <1>18, JoinType
  <2>2. Rest(reader.position, (u \o next) \o tail)
    BY <1>9, <1>14, <1>16, <1>17
  <2> HIDE DEF u
  <2>3. (u \o next) \o tail = u \o c
    BY <1>11, <1>16, <1>17, <2>1, JoinsRegroup
  <2>4. u \o c = a \o (b \o c)
    BY <1>18, JoinsRegroup DEF u
  <2> QED
    BY <2>2, <2>3, <2>4
<1>20. /\ IsAt(string)
       /\ string.ok <=> reader.ok /\ Len(s) <= limits.string /\ Len(s) <= Left(limits.decoded, reader.charged)
       /\ string.ok => /\ string.value = s /\ string.charged = reader.charged + Len(s)
                       /\ Rest(string.position, b \o c)
  <2>1. PICK y : y = b \o c
    OBVIOUS
  <2>2. y \in Text /\ Rest(reader.position, TextBytes(s) \o y)
    BY <1>17, <1>18, <1>19, <2>1
  <2>3. /\ string.ok <=> reader.ok /\ Len(s) <= limits.string /\ Len(s) <= Left(limits.decoded, reader.charged)
        /\ string.ok => string.value = s /\ string.charged = reader.charged + Len(s) /\ Rest(string.position, y)
    BY <1>1, <1>15, <2>2, ReadTextBack
  <2>4. IsAt(string)
    BY <1>1, ReadTextAt
  <2> QED
    BY <2>1, <2>3, <2>4
<1>21. IsAt(native) /\ (native.ok => string.ok)
  BY <1>1, <1>20, ReadNativeAt
<1>22. ASSUME string.ok
       PROVE  /\ native.ok
              /\ native.value = v /\ native.charged = string.charged /\ Rest(native.position, c)
  <2>1. Rest(string.position, IntegerBytes(v) \o c)
    BY <1>17, <1>20, <1>22
  <2>2. v \in (-LongMax - 1)..LongMax
    BY <1>14 DEF Long
  <2> QED
    BY <1>1, <1>14, <1>18, <1>20, <1>22, <2>1, <2>2, ReadNativeBack
<1>23. /\ key.ok <=> native.ok /\ Len(g) <= Left(limits.decoded, native.charged)
       /\ key.ok => key.value = native.value /\ key.position = native.position
  BY <1>9, <1>21, ChargeBack DEF ChargeKey
<1>24. NextKey(at, doc, after, n, k, g, s, c, string, key)
  <2>1. KeyPart(doc, n, k, PiecesFrom(KindCodes(doc), 0) \o after)
    BY <1>3, <1>7
  <2>2. c = PiecesFrom(KeyCodes(g, strings), k + 1)
              \o (PiecesFrom(GroupCodes(doc), n) \o (PiecesFrom(KindCodes(doc), 0) \o after))
    BY <1>3, <1>8, <1>13, <1>17
  <2>3. /\ key.ok <=> /\ reader.ok /\ Len(s) <= limits.string
                      /\ Len(s) <= Left(limits.decoded, reader.charged)
                      /\ Len(g) <= Left(limits.decoded, reader.charged + Len(s))
        /\ key.ok => string.value = s /\ key.value = KeyId(g, s) /\ Rest(key.position, c)
    BY <1>13, <1>20, <1>21, <1>22, <1>23
  <2>4. s = SortedKeys(strings)[k + 1]
    BY <1>8, <1>13
  <2> QED
    BY <1>2, <1>5, <1>6, <1>12, <2>1, <2>2, <2>3, <2>4 DEF NextKey
<1> QED
  BY <1>24

LEMMA BackReadKey ==
    ASSUME BackInv, ~changed, ReadKey
    PROVE  Back'
<1> PICK string, key : string = ReadText(reader) /\ key = ChargeKey(ReadNative(string, LongMax))
  OBVIOUS
<1> SUFFICES ASSUME key.ok, pc = "key", left.keys > 0, pc' = pc, reader' = key,
                    left' = [left EXCEPT !.keys = @ - 1],
                    keySet' = Append(keySet, string.value),
                    UNCHANGED <<inputVars, id, document, group, index>>
             PROVE  Back'
  BY BackRejected DEF ReadKey, resultVars
<1>1. UseInv /\ Back /\ left = [x \in LeftNames |-> left[x]]
  BY BackFacts
<1>2. PICK at, doc, after, n, k, g, s, tail : NextKey(at, doc, after, n, k, g, s, tail, string, key)
  BY KeyTaken
<1>3. PICK rest, strings, w :
        /\ rest = PiecesFrom(KindCodes(doc), 0) \o after
        /\ strings = doc.groups[g] /\ w = SortedKeys(strings)
  OBVIOUS
<1>4. /\ IsCurrent(at, doc, after) /\ n \in 1..Cardinality(DOMAIN doc.groups)
      /\ g = SortedNames(DOMAIN doc.groups)[n]
      /\ k \in Nat /\ k + 1 \in 1..Len(strings) /\ s = w[k + 1] /\ KeyPart(doc, n, k, rest)
      /\ tail = PiecesFrom(KeyCodes(g, strings), k + 1) \o (PiecesFrom(GroupCodes(doc), n) \o rest)
      /\ string.value = s /\ Rest(key.position, tail)
  BY <1>2, <1>3 DEF NextKey
<1>5. /\ group = g /\ left.groups = Cardinality(DOMAIN doc.groups) - n
      /\ left.keys = Len(strings) - k /\ keySet = [j \in 1..k |-> w[j]]
      /\ GroupsBack(doc, n - 1) /\ PropertiesBack(doc, 0, 0)
  BY <1>3, <1>4 DEF KeyPart
<1>6. Len(strings) \in Nat /\ w \in Seq(Text) /\ Len(w) = Len(strings)
  <2>1. IsDocument(doc) /\ IdsFit(doc.groups)
    BY <1>4, CurrentFacts
  <2>2. strings \in Seq(Text)
    BY <1>3, <1>4, <2>1, GroupFacts
  <2> QED
    BY <1>3, <2>2, SortedKeysType
<1>7. IsCurrent(at, doc, after)'
  <2>1. left'.documents = left.documents
    BY <1>1 DEF LeftNames
  <2> QED
    BY <1>4, <2>1 DEF IsCurrent, IndexBack, SavedDocuments, inputVars
<1>8. KeyPart(doc, n, k + 1, rest)'
  <2>1. left'.groups = left.groups /\ left'.keys = Len(strings) - (k + 1)
    BY <1>1, <1>4, <1>5, <1>6 DEF LeftNames
  <2>2. keySet' = [j \in 1..(k + 1) |-> w[j]]
    <3>1. k \in Nat /\ \A j \in 1..(k + 1) : w[j] \in Text
      BY <1>4, <1>6
    <3> QED
      BY <1>4, <1>5, <3>1, FirstsAppended
  <2>3. GroupsBack(doc, n - 1)' /\ PropertiesBack(doc, 0, 0)'
    BY <1>5 DEF GroupsBack, PropertiesBack
  <2>4. Rest(reader.position, tail)'
    BY <1>4 DEF Rest, inputVars
  <2> QED
    BY <1>3, <1>4, <1>5, <2>1, <2>2, <2>3, <2>4 DEF KeyPart
<1>9. BackKey'
  <2>1. k + 1 \in 0..Len(doc.groups[SortedNames(DOMAIN doc.groups)[n]])
    BY <1>3, <1>4, <1>6
  <2> QED
    BY <1>3, <1>4, <1>7, <1>8, <2>1, KeyIsBack
<1> QED
  BY <1>1, <1>9 DEF Back, inputVars

LEMMA BackEndGroup ==
    ASSUME BackInv, ~changed, EndGroup
    PROVE  Back'
<1> SUFFICES ASSUME pc = "key", left.keys = 0, pc' = "group",
                    document' = [document EXCEPT !.groups = Emplace(@, group, keySet)],
                    UNCHANGED <<inputVars, reader, left, id, index>>
             PROVE  Back'
  BY BackRejected DEF EndGroup, resultVars
<1>1. /\ payload \in Text /\ IsAt(reader) /\ UseInv /\ Back
  BY BackFacts
<1>2. PICK at, doc, after :
        /\ IsCurrent(at, doc, after)
        /\ \E n \in 1..Cardinality(DOMAIN doc.groups) :
             \E k \in 0..Len(doc.groups[SortedNames(DOMAIN doc.groups)[n]]) :
                KeyPart(doc, n, k, PiecesFrom(KindCodes(doc), 0) \o after)
  BY <1>1, KeyWasBack DEF Back
<1>3. PICK rest : rest = PiecesFrom(KindCodes(doc), 0) \o after
  OBVIOUS
<1>4. IsDocument(doc) /\ IdsFit(doc.groups) /\ rest \in Text
  BY <1>2, <1>3, CurrentFacts
<1>5. PICK n \in 1..Cardinality(DOMAIN doc.groups) :
        \E k \in 0..Len(doc.groups[SortedNames(DOMAIN doc.groups)[n]]) : KeyPart(doc, n, k, rest)
  BY <1>2, <1>3
<1>6. PICK g, strings : g = SortedNames(DOMAIN doc.groups)[n] /\ strings = doc.groups[g]
  OBVIOUS
<1>7. PICK k \in 0..Len(strings) : KeyPart(doc, n, k, rest)
  BY <1>5, <1>6
<1>8. PICK tail, f, w : /\ tail = PiecesFrom(GroupCodes(doc), n) \o rest
                        /\ f = KeyCodes(g, strings) /\ w = SortedKeys(strings)
  OBVIOUS
<1>9. /\ group = g /\ left.groups = Cardinality(DOMAIN doc.groups) - n
      /\ left.keys = Len(strings) - k /\ keySet = [j \in 1..k |-> w[j]]
      /\ GroupsBack(doc, n - 1) /\ PropertiesBack(doc, 0, 0)
      /\ Rest(reader.position, PiecesFrom(f, k) \o tail)
  BY <1>6, <1>7, <1>8 DEF KeyPart
<1>10. /\ g \in Text /\ strings \in Seq(Text) /\ \A i \in DOMAIN strings : KeyId(g, strings[i]) \in Long
       /\ PiecesFrom(GroupCodes(doc), n) \in Text
  BY <1>4, <1>6, GroupFacts
<1>11. tail \in Text
  BY <1>4, <1>8, <1>10, JoinType
<1>12. k = Len(strings)
  <2>1. Len(strings) \in Nat
    BY <1>10
  <2> QED
    BY <1>9, <2>1
<1>13. keySet = w
  <2>1. w \in Seq(Text) /\ Len(w) = Len(strings)
    BY <1>8, <1>10, SortedKeysType
  <2>2. w = [j \in 1..Len(w) |-> w[j]]
    BY <2>1
  <2> QED
    BY <1>9, <1>12, <2>1, <2>2
<1>14. Rest(reader.position, tail)
  <2>1. f \in Seq(Text) /\ Len(f) = Len(strings)
    BY <1>8, <1>10, GroupCode
  <2>2. PiecesFrom(f, k) = <<>>
    BY <1>12, <2>1, TailProperties
  <2> QED
    BY <1>9, <1>11, <2>2, NothingJoined
<1>15. IsCurrent(at, doc, after)'
  BY <1>2 DEF IsCurrent, IndexBack, SavedDocuments, inputVars
<1>16. document' = [groups |-> Emplace(document.groups, g, w), properties |-> document.properties]
  <2>1. document = [groups |-> document.groups, properties |-> document.properties]
    BY <1>1, DocumentParts DEF UseInv, TypeInv
  <2> DEFINE more == Emplace(document.groups, group, keySet)
  <2>2. document' = [document EXCEPT !.groups = more]
    OBVIOUS
  <2> HIDE DEF more
  <2>3. document' = [groups |-> more, properties |-> document.properties]
    BY <2>1, <2>2
  <2> QED
    BY <1>9, <1>13, <2>3 DEF more
<1>17. GroupPart(doc, n, rest)'
  <2>1. GroupsBack(doc, n)'
    <3> DEFINE S == DOMAIN doc.groups
               m == Cardinality(S)
               names == SortedNames(S)
               old == Firsts(names, n - 1)
               new == Firsts(names, n)
    <3>1. m \in Nat /\ Lists(names, S)
      BY <1>4, GroupsCode
    <3>2. n \in 1..m
      OBVIOUS
    <3>3. g \notin old /\ new = old \union {g}
      <4>1. names[n] \notin Firsts(names, n - 1) /\ Firsts(names, n) = Firsts(names, n - 1) \union {names[n]}
        <5> HIDE DEF names, S
        <5> QED
          BY <3>1, <3>2, FirstsMore
      <4> QED
        BY <1>6, <4>1
    <3>4. document.groups = [h \in old |-> SortedKeys(doc.groups[h])]
      BY <1>9 DEF GroupsBack
    <3>5. w = SortedKeys(doc.groups[g])
      BY <1>6, <1>8
    <3> HIDE DEF old, new
    <3>6. Emplace(document.groups, g, w) = [h \in new |-> SortedKeys(doc.groups[h])]
      BY <3>3, <3>4, <3>5 DEF Emplace
    <3> QED
      BY <1>16, <3>6 DEF GroupsBack, new
  <2>2. PropertiesBack(doc, 0, 0)'
    BY <1>9, <1>16 DEF PropertiesBack
  <2>3. Rest(reader.position, tail)'
    BY <1>14 DEF Rest, inputVars
  <2> QED
    BY <1>8, <1>9, <2>1, <2>2, <2>3 DEF GroupPart
<1>18. BackGroup'
  <2>1. Cardinality(DOMAIN doc.groups) \in Nat /\ n \in 0..Cardinality(DOMAIN doc.groups)
    BY <1>4, GroupsCode
  <2> QED
    BY <1>3, <1>15, <1>17, <2>1, GroupIsBack
<1> QED
  BY <1>1, <1>18 DEF Back, inputVars

\* The first property of a kind is yet to be read when those before it are.
LEMMA KindTurns ==
    ASSUME NEW doc, IsDocument(doc)
    PROVE  /\ PropertiesBack(doc, 0, 0) => PropertiesBack(doc, 1, 0)
           /\ \A k \in 1..4 :
                PropertiesBack(doc, k, Cardinality(DOMAIN doc.properties[PropertyKinds[k]])) =>
                    PropertiesBack(doc, k + 1, 0)
<1> DEFINE Names(j) == DOMAIN doc.properties[PropertyKinds[j]]
<1>1. ASSUME NEW j \in 1..5
      PROVE  /\ Firsts(SortedNames(Names(j)), 0) = {}
             /\ Firsts(SortedNames(Names(j)), Cardinality(Names(j))) = Names(j)
  <2>1. PropertyKinds[j] \in ToSet(PropertyKinds) /\ IsKind(PropertyKinds[j], doc.properties[PropertyKinds[j]])
    BY KindsCode
  <2>2. Lists(SortedNames(Names(j)), Names(j))
    BY <2>1, KindCode
  <2> HIDE DEF Names
  <2> QED
    BY <2>2, FirstsAll
<1>2. \A j \in 1..5 : NamesBack(doc, 0, 0, j) = NamesBack(doc, 1, 0, j)
  BY <1>1 DEF NamesBack
<1>3. ASSUME NEW k \in 1..4, NEW j \in 1..5
      PROVE  NamesBack(doc, k, Cardinality(Names(k)), j) = NamesBack(doc, k + 1, 0, j)
  <2>1. CASE j < k
    BY <2>1 DEF NamesBack
  <2>2. CASE j = k
    BY <1>1, <2>2 DEF NamesBack
  <2>3. CASE j = k + 1
    BY <1>1, <2>3 DEF NamesBack
  <2>4. CASE j > k + 1
    BY <2>4 DEF NamesBack
  <2> QED
    BY <2>1, <2>2, <2>3, <2>4
<1> QED
  BY <1>2, <1>3 DEF PropertiesBack

\* k, the next kind of doc.
NextKind(at, doc, after, k) ==
    /\ IsCurrent(at, doc, after)
    /\ k \in 1..5 /\ kind = k - 1
    /\ GroupsBack(doc, Cardinality(DOMAIN doc.groups)) /\ PropertiesBack(doc, k, 0)
    /\ Rest(reader.position, PiecesFrom(KindCodes(doc), k - 1) \o after)

\* The count of the kth kind is read.
LEMMA KindTaken ==
    ASSUME BackInv, ~changed, NEW at, NEW doc, NEW after, NEW k, NextKind(at, doc, after, k),
           NEW type, type = PropertyKinds[k], NEW properties, properties = doc.properties[type],
           NEW maximum, NEW count, count = ReadCount(reader, maximum, EntryMinimum)
    PROVE  /\ Cardinality(DOMAIN properties) \in Nat
           /\ count.ok <=> reader.ok /\ Cardinality(DOMAIN properties) \in 0..maximum
           /\ count.ok => /\ count.value = Cardinality(DOMAIN properties)
                          /\ Rest(count.position,
                                  PiecesFrom(EntryCodes(type, properties), 0)
                                    \o (PiecesFrom(KindCodes(doc), k) \o after))
<1>1. /\ payload \in Text /\ Len(payload) < WordSize /\ LimitsOK /\ IsAt(reader)
  BY BackFacts
<1>2. /\ IsDocument(doc) /\ after \in Text /\ k \in 1..5
      /\ Rest(reader.position, PiecesFrom(KindCodes(doc), k - 1) \o after)
  BY CurrentFacts DEF NextKind
<1>3. PICK f, rest, tail :
        /\ f = EntryCodes(type, properties)
        /\ rest = PiecesFrom(KindCodes(doc), k) /\ tail = rest \o after
  OBVIOUS
<1>4. /\ type \in ToSet(PropertyKinds) /\ IsKind(type, properties) /\ rest \in Text
      /\ PiecesFrom(KindCodes(doc), k - 1) = PropertyBytes(type, properties) \o rest
  BY <1>2, <1>3, KindFacts
<1>5. /\ Cardinality(DOMAIN properties) \in Nat /\ f \in Seq(Text) /\ Len(f) = Cardinality(DOMAIN properties)
      /\ \A i \in 1..Len(f) : Len(f[i]) >= EntryMinimum
      /\ PropertyBytes(type, properties) = IntegerBytes(Len(f)) \o PiecesFrom(f, 0)
  BY <1>3, <1>4, KindCode
<1>6. PICK b, c : b = IntegerBytes(Len(f)) /\ c = PiecesFrom(f, 0)
  OBVIOUS
<1>7. b \in Text /\ c \in Text /\ tail \in Text
  <2>1. \A i \in 0..Len(f) : PiecesFrom(f, i) \in Text
    BY <1>5, TailProperties
  <2>2. 0 \in 0..Len(f) /\ Len(f) \in Int
    BY <1>5
  <2> QED
    BY <1>2, <1>3, <1>4, <1>6, <2>1, <2>2, IntegerBytesType, JoinType
<1>8. Rest(reader.position, b \o (c \o tail))
  <2> DEFINE u == b \o c
  <2>1. u \in Text
    BY <1>7, JoinType
  <2>2. Rest(reader.position, (u \o rest) \o after)
    BY <1>2, <1>4, <1>5, <1>6
  <2> HIDE DEF u
  <2>3. (u \o rest) \o after = u \o tail
    BY <1>2, <1>3, <1>4, <2>1, JoinsRegroup
  <2>4. u \o tail = b \o (c \o tail)
    BY <1>7, JoinsRegroup DEF u
  <2> QED
    BY <2>2, <2>3, <2>4
<1>9. Rest(reader.position, IntegerBytes(Len(f)) \o (PiecesFrom(f, 0) \o tail))
  BY <1>6, <1>8
<1>10. /\ count.ok <=> reader.ok /\ Len(f) \in 0..maximum
       /\ count.ok => count.value = Len(f) /\ Rest(count.position, PiecesFrom(f, 0) \o tail)
  BY <1>1, <1>5, <1>7, <1>9, CountBack, MinimumsType
<1> QED
  BY <1>3, <1>5, <1>10

LEMMA KindBegins ==
    ASSUME BackInv, ~changed, NEW at, NEW doc, NEW after, NEW k, NextKind(at, doc, after, k),
           NEW maximum, NEW count, count = ReadCount(reader, maximum, EntryMinimum), count.ok,
           reader' = count, left' = [left EXCEPT !.properties = count.value], kind' = kind + 1,
           UNCHANGED <<inputVars, id, document, index>>
    PROVE  BackProperty'
<1>1. left = [x \in LeftNames |-> left[x]]
  BY BackFacts
<1>2. /\ IsCurrent(at, doc, after) /\ k \in 1..5 /\ kind = k - 1
      /\ GroupsBack(doc, Cardinality(DOMAIN doc.groups)) /\ PropertiesBack(doc, k, 0)
  BY DEF NextKind
<1>3. PICK type, properties : type = PropertyKinds[k] /\ properties = doc.properties[type]
  OBVIOUS
<1>4. PICK codes : codes = PiecesFrom(EntryCodes(type, properties), 0) \o (PiecesFrom(KindCodes(doc), k) \o after)
  OBVIOUS
<1>5. /\ Cardinality(DOMAIN properties) \in Nat
      /\ count.value = Cardinality(DOMAIN properties) /\ Rest(count.position, codes)
  BY <1>3, <1>4, KindTaken
<1>6. IsCurrent(at, doc, after)'
  <2>1. left'.documents = left.documents
    BY <1>1 DEF LeftNames
  <2> QED
    BY <1>2, <2>1 DEF IsCurrent, IndexBack, SavedDocuments, inputVars
<1>7. PropertyPart(doc, k, 0, after)'
  <2>1. kind' = k
    BY <1>2
  <2>2. left'.properties = Cardinality(DOMAIN properties) - 0
    BY <1>1, <1>5 DEF LeftNames
  <2>3. GroupsBack(doc, Cardinality(DOMAIN doc.groups))' /\ PropertiesBack(doc, k, 0)'
    BY <1>2 DEF GroupsBack, PropertiesBack
  <2>4. Rest(reader.position, codes)'
    BY <1>5 DEF Rest, inputVars
  <2> QED
    BY <1>3, <1>4, <2>1, <2>2, <2>3, <2>4 DEF PropertyPart
<1>8. 0 \in 0..Cardinality(DOMAIN doc.properties[PropertyKinds[k]])
  BY <1>3, <1>5
<1> QED
  BY <1>2, <1>6, <1>7, <1>8, PropertyIsBack

\* A kind is next where the groups or another kind are read.
LEMMA KindIsNext ==
    ASSUME BackInv, ~changed,
           \/ pc = "group" /\ left.groups = 0
           \/ pc = "property" /\ left.properties = 0 /\ kind < Len(PropertyKinds)
    PROVE  \E at, doc, after, k : NextKind(at, doc, after, k)
<1>1. UseInv /\ Back
  BY BackFacts
<1>2. CASE pc = "group" /\ left.groups = 0
  <2>1. PICK at, doc, after : /\ IsCurrent(at, doc, after)
                              /\ \E n \in 0..Cardinality(DOMAIN doc.groups) :
                                   GroupPart(doc, n, PiecesFrom(KindCodes(doc), 0) \o after)
    BY <1>1, <1>2, GroupWasBack DEF Back
  <2>2. PICK m, codes, rest : /\ m = Cardinality(DOMAIN doc.groups) /\ codes = GroupCodes(doc)
                              /\ rest = PiecesFrom(KindCodes(doc), 0) \o after
    OBVIOUS
  <2>3. PICK n \in 0..m : GroupPart(doc, n, rest)
    BY <2>1, <2>2
  <2>4. IsDocument(doc) /\ IdsFit(doc.groups) /\ rest \in Text
    BY <2>1, <2>2, CurrentFacts
  <2>5. m \in Nat /\ codes \in Seq(Text) /\ Len(codes) = m
    BY <2>2, <2>4, GroupsCode
  <2>6. n = m
    BY <1>2, <2>2, <2>3, <2>5 DEF GroupPart
  <2>7. Rest(reader.position, rest)
    <3>1. PiecesFrom(codes, n) = <<>>
      BY <2>5, <2>6, TailProperties
    <3> QED
      BY <2>2, <2>3, <2>4, <3>1, NothingJoined DEF GroupPart
  <2>8. GroupsBack(doc, Cardinality(DOMAIN doc.groups)) /\ PropertiesBack(doc, 1, 0)
    BY <2>2, <2>3, <2>4, <2>6, KindTurns DEF GroupPart
  <2>9. kind = 1 - 1
    BY <1>1, <1>2 DEF UseInv, PostingsInv, BudgetInv
  <2>10. Rest(reader.position, PiecesFrom(KindCodes(doc), 1 - 1) \o after)
    BY <2>2, <2>7
  <2>11. 1 \in 1..5
    OBVIOUS
  <2> QED
    BY <2>1, <2>8, <2>9, <2>10, <2>11 DEF NextKind
<1>3. CASE pc = "property" /\ left.properties = 0 /\ kind < Len(PropertyKinds)
  <2>1. PICK at, doc, after :
          /\ IsCurrent(at, doc, after)
          /\ \E k \in 1..5 : \E n \in 0..Cardinality(DOMAIN doc.properties[PropertyKinds[k]]) :
               PropertyPart(doc, k, n, after)
    BY <1>1, <1>3, PropertyWasBack DEF Back
  <2>2. PICK k \in 1..5 : \E n \in 0..Cardinality(DOMAIN doc.properties[PropertyKinds[k]]) :
                            PropertyPart(doc, k, n, after)
    BY <2>1
  <2>3. PICK type, properties, m, codes, rest :
          /\ type = PropertyKinds[k] /\ properties = doc.properties[type]
          /\ m = Cardinality(DOMAIN properties) /\ codes = EntryCodes(type, properties)
          /\ rest = PiecesFrom(KindCodes(doc), k) \o after
    OBVIOUS
  <2>4. PICK n \in 0..m : PropertyPart(doc, k, n, after)
    BY <2>2, <2>3
  <2>5. /\ IsDocument(doc) /\ after \in Text /\ rest \in Text
    BY <2>1, <2>3, CurrentFacts
  <2>6. type \in ToSet(PropertyKinds) /\ IsKind(type, properties)
    BY <2>3, <2>5, KindFacts
  <2>7. m \in Nat /\ codes \in Seq(Text) /\ Len(codes) = m
    BY <2>3, <2>6, KindCode
  <2>8. n = m
    BY <1>3, <2>3, <2>4, <2>7 DEF PropertyPart
  <2>9. Rest(reader.position, rest)
    <3>1. PiecesFrom(codes, n) = <<>>
      BY <2>7, <2>8, TailProperties
    <3> QED
      BY <2>3, <2>4, <2>5, <3>1, NothingJoined DEF PropertyPart
  <2>10. k \in 1..4 /\ kind = k
    BY <1>3, <2>4, KindsAre DEF PropertyPart
  <2>11. /\ GroupsBack(doc, Cardinality(DOMAIN doc.groups))
         /\ PropertiesBack(doc, k, Cardinality(DOMAIN doc.properties[PropertyKinds[k]]))
    BY <2>3, <2>4, <2>8 DEF PropertyPart
  <2>12. PropertiesBack(doc, k + 1, 0)
    BY <2>5, <2>10, <2>11, KindTurns
  <2>13. k + 1 \in 1..5 /\ kind = (k + 1) - 1 /\ (k + 1) - 1 = k
    BY <2>10
  <2>14. Rest(reader.position, PiecesFrom(KindCodes(doc), (k + 1) - 1) \o after)
    BY <2>3, <2>9, <2>13
  <2> QED
    BY <2>1, <2>11, <2>12, <2>13, <2>14 DEF NextKind
<1> QED
  BY <1>2, <1>3

LEMMA BackBeginProperties ==
    ASSUME BackInv, ~changed, BeginProperties
    PROVE  Back'
<1> PICK maximum, count : /\ maximum = Left(limits.properties, propertiesTotal)
                          /\ count = ReadCount(reader, maximum, EntryMinimum)
  OBVIOUS
<1> SUFFICES ASSUME count.ok, pc' = "property", reader' = count,
                    left' = [left EXCEPT !.properties = count.value], kind' = kind + 1,
                    UNCHANGED <<inputVars, id, document, index>>,
                    \/ pc = "group" /\ left.groups = 0
                    \/ pc = "property" /\ left.properties = 0 /\ kind < Len(PropertyKinds)
             PROVE  Back'
  BY BackRejected DEF BeginProperties, documentVars, resultVars
<1>1. Back
  BY BackFacts
<1>2. BackProperty'
  BY KindIsNext, KindBegins
<1> QED
  BY <1>1, <1>2 DEF Back, inputVars

\* A document that has one more property has those that were there before.
LEMMA OneMoreBack ==
    ASSUME IsDocument(document), NEW doc, IsDocument(doc), NEW k \in 1..5,
           NEW n \in 1..Cardinality(DOMAIN doc.properties[PropertyKinds[k]]),
           NEW type, type = PropertyKinds[k], NEW properties, properties = doc.properties[type],
           NEW name, name = SortedNames(DOMAIN properties)[n],
           PropertiesBack(doc, k, n - 1),
           document' = [document EXCEPT !.properties[type] = Emplace(@, name, properties[name])]
    PROVE  PropertiesBack(doc, k, n)' /\ document'.groups = document.groups
<1> DEFINE Old(j) == NamesBack(doc, k, n - 1, j)
           New(j) == NamesBack(doc, k, n, j)
           more == Emplace(document.properties[type], name, properties[name])
<1>1. type \in ToSet(PropertyKinds) /\ IsKind(type, properties)
  BY KindFacts
<1>2. Cardinality(DOMAIN properties) \in Nat /\ Lists(SortedNames(DOMAIN properties), DOMAIN properties)
  BY <1>1, KindCode
<1>3. n \in 1..Cardinality(DOMAIN properties)
  OBVIOUS
<1>4. /\ name \notin Firsts(SortedNames(DOMAIN properties), n - 1)
      /\ Firsts(SortedNames(DOMAIN properties), n) =
           Firsts(SortedNames(DOMAIN properties), n - 1) \union {name}
  <2> PICK S, w : S = DOMAIN properties /\ w = SortedNames(S)
    OBVIOUS
  <2>1. w[n] \notin Firsts(w, n - 1) /\ Firsts(w, n) = Firsts(w, n - 1) \union {w[n]}
    BY <1>2, <1>3, FirstsMore
  <2> QED
    BY <2>1
<1>5. name \notin Old(k) /\ New(k) = Old(k) \union {name}
  BY <1>4 DEF NamesBack
<1>6. \A j \in 1..5 : j # k => New(j) = Old(j)
  BY DEF NamesBack
<1>7. /\ document = [groups |-> document.groups, properties |-> document.properties]
      /\ document.properties = [t \in ToSet(PropertyKinds) |-> document.properties[t]]
  BY DocumentParts DEF IsProperties
<1>8. document' = [document EXCEPT !.properties[type] = more]
  OBVIOUS
<1>9. document.properties[type] = [x \in Old(k) |-> properties[x]]
  BY DEF PropertiesBack
<1> HIDE DEF Old, New
<1>10. more = [x \in New(k) |-> properties[x]]
  BY <1>5, <1>9 DEF Emplace
<1> HIDE DEF more
<1>11. /\ document'.groups = document.groups
       /\ document'.properties = [document.properties EXCEPT ![type] = more]
  BY <1>7, <1>8
<1>12. /\ document'.properties[type] = more
       /\ \A t \in ToSet(PropertyKinds) : t # type => document'.properties[t] = document.properties[t]
  BY <1>1, <1>7, <1>11
<1>13. ASSUME NEW j \in 1..5
       PROVE  document'.properties[PropertyKinds[j]] =
                [x \in NamesBack(doc, k, n, j) |-> doc.properties[PropertyKinds[j]][x]]
  <2>1. CASE j = k
    BY <1>10, <1>12, <2>1 DEF New
  <2>2. CASE j # k
    <3>1. PropertyKinds[j] \in ToSet(PropertyKinds) /\ PropertyKinds[j] # type
      <4>1. \A a, b \in 1..5 : a # b => PropertyKinds[a] # PropertyKinds[b]
        BY DEF PropertyKinds
      <4> QED
        BY <2>2, <4>1, KindsAre
    <3>2. document'.properties[PropertyKinds[j]] = document.properties[PropertyKinds[j]]
      BY <1>12, <3>1
    <3>3. document.properties[PropertyKinds[j]] = [x \in Old(j) |-> doc.properties[PropertyKinds[j]][x]]
      BY DEF PropertiesBack, Old
    <3> QED
      BY <1>6, <2>2, <3>2, <3>3 DEF New
  <2> QED
    BY <2>1, <2>2
<1>14. PropertiesBack(doc, k, n)'
  BY <1>13 DEF PropertiesBack
<1> QED
  BY <1>11, <1>14

\* s, the next property of kind k of doc after n of them.
NextProperty(at, doc, after, k, n, s, tail, name, value) ==
    LET type == PropertyKinds[k]
        properties == doc.properties[type]
    IN /\ IsCurrent(at, doc, after)
       /\ k \in 1..5 /\ n \in Nat /\ n + 1 \in 1..Cardinality(DOMAIN properties)
       /\ PropertyPart(doc, k, n, after)
       /\ s = SortedNames(DOMAIN properties)[n + 1]
       /\ tail = PiecesFrom(EntryCodes(type, properties), n + 1) \o (PiecesFrom(KindCodes(doc), k) \o after)
       /\ value.ok <=> /\ reader.ok /\ Len(s) <= limits.string
                       /\ Len(s) <= Left(limits.decoded, reader.charged)
                       /\ type = "string" =>
                            /\ Len(properties[s]) <= limits.string
                            /\ Len(properties[s]) <= Left(limits.decoded, reader.charged + Len(s))
       /\ value.ok => name.value = s /\ value.value = properties[s] /\ Rest(value.position, tail)

LEMMA PropertyTaken ==
    ASSUME BackInv, ~changed, pc = "property", left.properties > 0, NEW name, name = ReadText(reader),
           NEW type, type = PropertyKinds[kind], NEW value, value = ReadValue(name, type)
    PROVE  \E at, doc, after, k, n, s, tail : NextProperty(at, doc, after, k, n, s, tail, name, value)
<1>1. /\ payload \in Text /\ Len(payload) < WordSize /\ LimitsOK /\ IsAt(reader) /\ Back
  BY BackFacts
<1>2. PICK at, doc, after :
        /\ IsCurrent(at, doc, after)
        /\ \E k \in 1..5 : \E n \in 0..Cardinality(DOMAIN doc.properties[PropertyKinds[k]]) :
             PropertyPart(doc, k, n, after)
  BY <1>1, PropertyWasBack DEF Back
<1>3. PICK k \in 1..5 : \E n \in 0..Cardinality(DOMAIN doc.properties[PropertyKinds[k]]) :
                          PropertyPart(doc, k, n, after)
  BY <1>2
<1>4. kind = k /\ type = PropertyKinds[k]
  BY <1>3 DEF PropertyPart
<1>5. PICK properties, m, f, rest, w :
        /\ properties = doc.properties[type] /\ m = Cardinality(DOMAIN properties)
        /\ f = EntryCodes(type, properties) /\ w = SortedNames(DOMAIN properties)
        /\ rest = PiecesFrom(KindCodes(doc), k) \o after
  OBVIOUS
<1>6. PICK n \in 0..m : PropertyPart(doc, k, n, after)
  BY <1>3, <1>4, <1>5
<1>7. IsDocument(doc) /\ rest \in Text
  BY <1>2, <1>5, CurrentFacts
<1>8. type \in ToSet(PropertyKinds) /\ IsKind(type, properties)
  BY <1>4, <1>5, <1>7, KindFacts
<1>9. /\ m \in Nat /\ f \in Seq(Text) /\ Len(f) = m /\ Lists(w, DOMAIN properties)
      /\ \A i \in 1..m : f[i] = TextBytes(w[i]) \o ValueBytes(type, properties[w[i]])
  <2>1. /\ m \in Nat /\ f \in Seq(Text) /\ Len(f) = m
        /\ Lists(SortedNames(DOMAIN properties), DOMAIN properties)
    BY <1>5, <1>8, KindCode
  <2>2. \A i \in 1..Cardinality(DOMAIN properties) :
          EntryCodes(type, properties)[i] =
            TextBytes(SortedNames(DOMAIN properties)[i])
              \o ValueBytes(type, properties[SortedNames(DOMAIN properties)[i]])
    BY <1>8, KindCode
  <2> QED
    BY <1>5, <2>1, <2>2
<1>10. /\ left.properties = m - n /\ PropertiesBack(doc, k, n)
       /\ GroupsBack(doc, Cardinality(DOMAIN doc.groups))
       /\ Rest(reader.position, PiecesFrom(f, n) \o rest)
  BY <1>4, <1>5, <1>6 DEF PropertyPart
<1>11. n + 1 \in 1..m /\ n \in 0..(m - 1) /\ (n + 1) - 1 = n /\ n + 1 \in 0..m
  BY <1>6, <1>9, <1>10
<1>12. PICK s, v, next : s = w[n + 1] /\ v = properties[s] /\ next = PiecesFrom(f, n + 1)
  OBVIOUS
<1>13. /\ s \in DOMAIN properties /\ s \in Text /\ v \in PropertyValues(type)
       /\ f[n + 1] = TextBytes(s) \o ValueBytes(type, v)
  <2>1. w \in [1..m -> DOMAIN properties]
    BY <1>5, <1>9 DEF Lists
  <2>2. s \in DOMAIN properties
    BY <1>11, <1>12, <2>1
  <2> QED
    BY <1>8, <1>9, <1>11, <1>12, <2>2 DEF IsKind
<1>14. next \in Text /\ PiecesFrom(f, n) = f[n + 1] \o next
  <2>1. /\ \A i \in 0..Len(f) : PiecesFrom(f, i) \in Text
        /\ \A i \in 0..(Len(f) - 1) : PiecesFrom(f, i) = f[i + 1] \o PiecesFrom(f, i + 1)
    BY <1>9, TailProperties
  <2> QED
    BY <1>9, <1>11, <1>12, <2>1
<1>15. PICK a, b, c : a = TextBytes(s) /\ b = ValueBytes(type, v) /\ c = next \o rest
  OBVIOUS
<1>16. a \in Text /\ b \in Text /\ c \in Text /\ b \o c \in Text
  <2>1. a \in Text
    BY <1>13, <1>15, TextBytesType
  <2>2. b \in Text
    BY <1>8, <1>13, <1>15, ValueLength DEF ValueBytes
  <2>3. c \in Text
    BY <1>7, <1>14, <1>15, JoinType
  <2> QED
    BY <2>1, <2>2, <2>3, JoinType
<1>17. Rest(reader.position, a \o (b \o c))
  <2> DEFINE u == a \o b
  <2>1. u \in Text
    BY <1>16, JoinType
  <2>2. Rest(reader.position, (u \o next) \o rest)
    BY <1>10, <1>13, <1>14, <1>15
  <2> HIDE DEF u
  <2>3. (u \o next) \o rest = u \o c
    BY <1>7, <1>14, <1>15, <2>1, JoinsRegroup
  <2>4. u \o c = a \o (b \o c)
    BY <1>16, JoinsRegroup DEF u
  <2> QED
    BY <2>2, <2>3, <2>4
<1>18. /\ IsAt(name)
       /\ name.ok <=> reader.ok /\ Len(s) <= limits.string /\ Len(s) <= Left(limits.decoded, reader.charged)
       /\ name.ok => /\ name.value = s /\ name.charged = reader.charged + Len(s)
                     /\ Rest(name.position, b \o c)
  <2>1. PICK y : y = b \o c
    OBVIOUS
  <2>2. y \in Text /\ Rest(reader.position, TextBytes(s) \o y)
    BY <1>15, <1>16, <1>17, <2>1
  <2>3. /\ name.ok <=> reader.ok /\ Len(s) <= limits.string /\ Len(s) <= Left(limits.decoded, reader.charged)
        /\ name.ok => name.value = s /\ name.charged = reader.charged + Len(s) /\ Rest(name.position, y)
    BY <1>1, <1>13, <2>2, ReadTextBack
  <2>4. IsAt(name)
    BY <1>1, ReadTextAt
  <2> QED
    BY <2>1, <2>3, <2>4
<1>19. value.ok => name.ok
  BY <1>1, <1>8, <1>18, ReadValueAt
<1>20. ASSUME name.ok
       PROVE  /\ value.ok <=> (type = "string" => /\ Len(v) <= limits.string
                                                  /\ Len(v) <= Left(limits.decoded, name.charged))
              /\ value.ok => value.value = v /\ Rest(value.position, c)
  <2>1. Rest(name.position, ValueBytes(type, v) \o c)
    BY <1>15, <1>18, <1>20
  <2> QED
    BY <1>1, <1>8, <1>13, <1>16, <1>18, <1>20, <2>1, ReadValueBack
<1>21. NextProperty(at, doc, after, k, n, s, c, name, value)
  <2>1. s = SortedNames(DOMAIN properties)[n + 1]
    BY <1>5, <1>12
  <2>2. c = PiecesFrom(EntryCodes(type, properties), n + 1) \o (PiecesFrom(KindCodes(doc), k) \o after)
    BY <1>5, <1>12, <1>15
  <2>3. /\ value.ok <=> /\ reader.ok /\ Len(s) <= limits.string
                        /\ Len(s) <= Left(limits.decoded, reader.charged)
                        /\ type = "string" => /\ Len(properties[s]) <= limits.string
                                              /\ Len(properties[s]) <= Left(limits.decoded, reader.charged + Len(s))
        /\ value.ok => name.value = s /\ value.value = properties[s] /\ Rest(value.position, c)
    BY <1>12, <1>18, <1>19, <1>20
  <2>4. n \in Nat /\ n + 1 \in 1..Cardinality(DOMAIN properties)
    <3>1. m \in Nat /\ n \in 0..m /\ n + 1 \in 1..m
      BY <1>9, <1>11
    <3>2. n \in Nat /\ n + 1 \in 1..m
      BY <3>1
    <3> QED
      BY <1>5, <3>2
  <2> QED
    BY <1>2, <1>4, <1>5, <1>6, <2>1, <2>2, <2>3, <2>4 DEF NextProperty
<1> QED
  BY <1>21

LEMMA BackReadProperty ==
    ASSUME BackInv, ~changed, ReadProperty
    PROVE  Back'
<1> PICK type, name, value :
      type = PropertyKinds[kind] /\ name = ReadText(reader) /\ value = ReadValue(name, type)
  OBVIOUS
<1> SUFFICES ASSUME value.ok, pc = "property", left.properties > 0, pc' = pc, reader' = value,
                    left' = [left EXCEPT !.properties = @ - 1],
                    document' = [document EXCEPT !.properties[type] =
                                   Emplace(@, name.value, value.value)],
                    UNCHANGED <<inputVars, kind, id, index>>
             PROVE  Back'
  BY BackRejected DEF ReadProperty, resultVars
<1>1. UseInv /\ Back /\ left = [x \in LeftNames |-> left[x]]
  BY BackFacts
<1>2. PICK at, doc, after, k, n, s, tail : NextProperty(at, doc, after, k, n, s, tail, name, value)
  BY PropertyTaken
<1>3. PICK properties, m : properties = doc.properties[PropertyKinds[k]] /\ m = Cardinality(DOMAIN properties)
  OBVIOUS
<1>4. /\ IsCurrent(at, doc, after) /\ k \in 1..5 /\ n \in Nat /\ n + 1 \in 1..m
      /\ PropertyPart(doc, k, n, after) /\ s = SortedNames(DOMAIN properties)[n + 1]
      /\ name.value = s /\ value.value = properties[s]
      /\ Rest(value.position,
              PiecesFrom(EntryCodes(PropertyKinds[k], properties), n + 1) \o (PiecesFrom(KindCodes(doc), k) \o after))
  BY <1>2, <1>3 DEF NextProperty
<1>5. kind = k /\ type = PropertyKinds[k]
  BY <1>4 DEF PropertyPart
<1>6. /\ left.properties = m - n /\ PropertiesBack(doc, k, n)
      /\ GroupsBack(doc, Cardinality(DOMAIN doc.groups))
  BY <1>3, <1>4 DEF PropertyPart
<1>7. IsDocument(doc) /\ m \in Nat
  <2>1. IsDocument(doc)
    BY <1>4, CurrentFacts
  <2> QED
    BY <1>3, <1>4, <2>1, KindFacts, KindCode
<1>8. IsCurrent(at, doc, after)'
  <2>1. left'.documents = left.documents
    BY <1>1 DEF LeftNames
  <2> QED
    BY <1>4, <2>1 DEF IsCurrent, IndexBack, SavedDocuments, inputVars
<1>9. PropertiesBack(doc, k, n + 1)' /\ document'.groups = document.groups
  <2>1. IsDocument(document)
    BY <1>1 DEF UseInv, TypeInv
  <2>2. document' = [document EXCEPT !.properties[type] = Emplace(@, s, properties[s])]
    BY <1>4
  <2>3. n + 1 \in 1..Cardinality(DOMAIN doc.properties[PropertyKinds[k]]) /\ PropertiesBack(doc, k, (n + 1) - 1)
    BY <1>3, <1>4, <1>6
  <2> QED
    BY <1>3, <1>4, <1>5, <1>7, <2>1, <2>2, <2>3, OneMoreBack
<1>10. PropertyPart(doc, k, n + 1, after)'
  <2>1. left'.properties = m - (n + 1)
    BY <1>1, <1>4, <1>6, <1>7 DEF LeftNames
  <2>2. GroupsBack(doc, Cardinality(DOMAIN doc.groups))'
    BY <1>6, <1>9 DEF GroupsBack
  <2>3. PICK z : z = PiecesFrom(EntryCodes(PropertyKinds[k], properties), n + 1)
                       \o (PiecesFrom(KindCodes(doc), k) \o after)
    OBVIOUS
  <2>4. Rest(reader.position, z)'
    BY <1>4, <2>3 DEF Rest, inputVars
  <2> QED
    BY <1>3, <1>5, <1>9, <2>1, <2>2, <2>3, <2>4 DEF PropertyPart
<1>11. BackProperty'
  <2>1. n + 1 \in 0..Cardinality(DOMAIN doc.properties[PropertyKinds[k]])
    BY <1>3, <1>4, <1>7
  <2> QED
    BY <1>4, <1>8, <1>10, <2>1, PropertyIsBack
<1> QED
  BY <1>1, <1>11 DEF Back, inputVars

\* When the last property of the last kind is read, so is the document.
LEMMA DocumentIsBack ==
    ASSUME IsDocument(document), NEW doc, IsDocument(doc), IdsFit(doc.groups),
           GroupsBack(doc, Cardinality(DOMAIN doc.groups)),
           PropertiesBack(doc, 5, Cardinality(DOMAIN doc.properties[PropertyKinds[5]]))
    PROVE  document = Kept(doc)
<1> DEFINE Names(j) == DOMAIN doc.properties[PropertyKinds[j]]
<1>1. document.groups = [g \in DOMAIN doc.groups |-> SortedKeys(doc.groups[g])]
  <2>1. Firsts(SortedNames(DOMAIN doc.groups), Cardinality(DOMAIN doc.groups)) = DOMAIN doc.groups
    BY GroupsCode, FirstsAll
  <2> QED
    BY <2>1 DEF GroupsBack
<1>2. ASSUME NEW j \in 1..5
      PROVE  document.properties[PropertyKinds[j]] = doc.properties[PropertyKinds[j]]
  <2>1. PICK type, properties : type = PropertyKinds[j] /\ properties = doc.properties[type]
    OBVIOUS
  <2>2. type \in ToSet(PropertyKinds) /\ IsKind(type, properties)
    BY <2>1, KindFacts
  <2>3. Firsts(SortedNames(DOMAIN properties), Cardinality(DOMAIN properties)) = DOMAIN properties
    BY <2>2, KindCode, FirstsAll
  <2>4. NamesBack(doc, 5, Cardinality(Names(5)), j) = DOMAIN properties
    <3>1. j < 5 \/ j = 5
      OBVIOUS
    <3> QED
      BY <2>1, <2>3, <3>1 DEF NamesBack
  <2>5. document.properties[type] = [x \in DOMAIN properties |-> properties[x]]
    BY <2>1, <2>4 DEF PropertiesBack
  <2>6. properties = [x \in DOMAIN properties |-> properties[x]]
    BY <2>2 DEF IsKind
  <2> QED
    BY <2>1, <2>5, <2>6
<1>3. /\ document = [groups |-> document.groups, properties |-> document.properties]
      /\ document.properties = [t \in ToSet(PropertyKinds) |-> document.properties[t]]
      /\ doc.properties = [t \in ToSet(PropertyKinds) |-> doc.properties[t]]
  BY DocumentParts DEF IsProperties
<1>4. \A t \in ToSet(PropertyKinds) : \E j \in 1..5 : t = PropertyKinds[j]
  BY KindsAre DEF ToSet
<1>5. document.properties = doc.properties
  <2>1. \A t \in ToSet(PropertyKinds) : document.properties[t] = doc.properties[t]
    BY <1>2, <1>4
  <2> QED
    BY <1>3, <2>1
<1> QED
  BY <1>1, <1>3, <1>5 DEF Kept

LEMMA BackAddDocument ==
    ASSUME BackInv, ~changed, AddDocument
    PROVE  Back'
<1> SUFFICES ASSUME pc = "property", left.properties = 0, kind = Len(PropertyKinds), pc' = "document",
                    index' = [index EXCEPT !.docs = Emplace(@, id, document)],
                    UNCHANGED <<inputVars, reader, left>>
             PROVE  Back'
  BY DEF AddDocument
<1>1. /\ UseInv /\ Back /\ SavedDocuments \in Nat
      /\ Lists(Ascending(DOMAIN source.docs), DOMAIN source.docs)
  BY BackFacts
<1>2. PICK at, doc, after :
        /\ IsCurrent(at, doc, after)
        /\ \E k \in 1..5 : \E n \in 0..Cardinality(DOMAIN doc.properties[PropertyKinds[k]]) :
             PropertyPart(doc, k, n, after)
  BY <1>1, PropertyWasBack DEF Back
<1>3. \E n \in 0..Cardinality(DOMAIN doc.properties[PropertyKinds[5]]) : PropertyPart(doc, 5, n, after)
  BY <1>2, KindsAre DEF PropertyPart
<1>4. PICK type, properties, m, codes :
        /\ type = PropertyKinds[5] /\ properties = doc.properties[type]
        /\ m = Cardinality(DOMAIN properties) /\ codes = EntryCodes(type, properties)
  OBVIOUS
<1>5. PICK n \in 0..m : PropertyPart(doc, 5, n, after)
  BY <1>3, <1>4
<1>6. /\ IsDocument(doc) /\ IdsFit(doc.groups) /\ after \in Text /\ at \in 1..SavedDocuments
      /\ doc = source.docs[id]
  BY <1>2, CurrentFacts
<1>7. m \in Nat /\ codes \in Seq(Text) /\ Len(codes) = m
  <2>1. 5 \in 1..5
    OBVIOUS
  <2>2. type \in ToSet(PropertyKinds) /\ IsKind(type, properties)
    BY <1>4, <1>6, <2>1, KindFacts
  <2> QED
    BY <1>4, <2>2, KindCode
<1>8. n = m
  BY <1>4, <1>5, <1>7 DEF PropertyPart
<1>9. Rest(reader.position, after)
  <2>1. PiecesFrom(codes, n) = <<>>
    BY <1>7, <1>8, TailProperties
  <2>2. PiecesFrom(KindCodes(doc), 5) = <<>>
    <3> PICK h : h = KindCodes(doc)
      OBVIOUS
    <3>1. h \in Seq(Text) /\ Len(h) = 5
      BY <1>6, KindsCode
    <3> QED
      BY <3>1, TailProperties
  <2>3. Rest(reader.position, PiecesFrom(codes, n) \o (PiecesFrom(KindCodes(doc), 5) \o after))
    BY <1>4, <1>5 DEF PropertyPart
  <2> QED
    BY <1>6, <2>1, <2>2, <2>3, NothingJoined
<1>10. document = Kept(doc)
  <2>1. /\ GroupsBack(doc, Cardinality(DOMAIN doc.groups))
        /\ PropertiesBack(doc, 5, Cardinality(DOMAIN doc.properties[PropertyKinds[5]]))
    BY <1>4, <1>5, <1>8 DEF PropertyPart
  <2>2. IsDocument(document)
    BY <1>1 DEF UseInv, TypeInv
  <2> QED
    BY <1>6, <2>1, <2>2, DocumentIsBack
<1>11. IndexBack(at)'
  <2>1. PICK S, w : S = DOMAIN source.docs /\ w = Ascending(S)
    OBVIOUS
  <2>2. id = w[at] /\ IndexBack(at - 1)
    BY <1>2, <2>1 DEF IsCurrent
  <2>3. id \notin Firsts(w, at - 1) /\ Firsts(w, at) = Firsts(w, at - 1) \union {id}
    <3>1. at \in 1..Cardinality(S) /\ Cardinality(S) \in Nat /\ Lists(w, S)
      BY <1>1, <1>6, <2>1 DEF SavedDocuments
    <3> QED
      BY <2>2, <3>1, FirstsMore
  <2>4. index.docs = [d \in Firsts(w, at - 1) |-> Kept(source.docs[d])]
        /\ index = [implicit |-> source.implicit, docs |-> index.docs]
    BY <2>1, <2>2 DEF IndexBack
  <2> PICK old, new : old = Firsts(w, at - 1) /\ new = Firsts(w, at)
    OBVIOUS
  <2> DEFINE more == Emplace(index.docs, id, document)
  <2>5. more = [d \in new |-> Kept(source.docs[d])]
    BY <1>6, <1>10, <2>3, <2>4 DEF Emplace
  <2>6. index' = [index EXCEPT !.docs = more]
    OBVIOUS
  <2> HIDE DEF more
  <2>7. index' = [implicit |-> source.implicit, docs |-> more]
    BY <2>4, <2>6
  <2> QED
    BY <2>1, <2>5, <2>7 DEF IndexBack, inputVars
<1>12. BackDocument'
  <2>1. (at \in 0..SavedDocuments)' /\ (left.documents = SavedDocuments - at)'
    BY <1>1, <1>2, <1>6 DEF IsCurrent, SavedDocuments, inputVars
  <2>2. Rest(reader.position, PiecesFrom(DocumentCodes(source), at))'
    <3>1. Rest(reader.position, after)'
      BY <1>9 DEF Rest, inputVars
    <3>2. after = PiecesFrom(DocumentCodes(source), at)'
      BY <1>2 DEF IsCurrent, inputVars
    <3> QED
      BY <3>1, <3>2
  <2> QED
    BY <1>11, <2>1, <2>2 DEF BackDocument
<1> QED
  BY <1>1, <1>12 DEF Back, inputVars

LEMMA BackFinish ==
    ASSUME BackInv, ~changed, Finish
    PROVE  Back'
<1> SUFFICES ASSUME pc = "document", left.documents = 0, pc' = "decoded", UNCHANGED <<inputVars, index>>
             PROVE  Back'
  BY BackRejected DEF Finish, resultVars
<1>1. Back /\ SavedDocuments \in Nat
  BY BackFacts
<1>2. PICK n \in 0..SavedDocuments : left.documents = SavedDocuments - n /\ IndexBack(n)
  BY <1>1 DEF Back, BackDocument
<1>3. n = SavedDocuments
  BY <1>1, <1>2
<1>4. IndexBack(SavedDocuments)'
  BY <1>2, <1>3 DEF IndexBack, SavedDocuments, inputVars
<1> QED
  BY <1>1, <1>4 DEF Back, inputVars

\* The invariant holds at first, and every step keeps it.
LEMMA BackInit == Init => BackInv
<1> SUFFICES ASSUME Init PROVE BackInv
  OBVIOUS
<1>1. left = [name \in LeftNames |-> left[name]]
  BY DEF Init, LeftNames
<1>2. Back
  BY DEF Init, Back
<1> QED
  BY <1>1, <1>2, UseInit DEF Init, BackInv

\* Back says the same of two states alike.
LEMMA BackSame ==
    ASSUME Back, UNCHANGED vars
    PROVE  Back'
<1> USE DEF vars, inputVars, documentVars, resultVars
<1>1. /\ \A p, s : Rest(p, s) => Rest(p, s)'
      /\ \A n : IndexBack(n) => IndexBack(n)'
      /\ \A doc, n : GroupsBack(doc, n) => GroupsBack(doc, n)'
      /\ \A doc, k, n : PropertiesBack(doc, k, n) => PropertiesBack(doc, k, n)'
  BY DEF Rest, IndexBack, GroupsBack, PropertiesBack
<1>2. \A n, doc, after : IsCurrent(n, doc, after) => IsCurrent(n, doc, after)'
  BY <1>1 DEF IsCurrent, SavedDocuments
<1>3. Current = Current'
  BY DEF Current, SavedDocuments
<1>4. \A doc, n, rest : GroupPart(doc, n, rest) => GroupPart(doc, n, rest)'
  BY <1>1 DEF GroupPart
<1>5. \A doc, n, k, rest : KeyPart(doc, n, k, rest) => KeyPart(doc, n, k, rest)'
  BY <1>1 DEF KeyPart
<1>6. \A doc, k, n, rest : PropertyPart(doc, k, n, rest) => PropertyPart(doc, k, n, rest)'
  BY <1>1 DEF PropertyPart
<1>7. BackDocument => BackDocument'
  BY <1>1 DEF BackDocument, SavedDocuments
<1>8. BackGroup => BackGroup'
  BY <1>2, <1>3, <1>4 DEF BackGroup
<1>9. BackKey => BackKey'
  BY <1>2, <1>3, <1>5 DEF BackKey
<1>10. BackProperty => BackProperty'
  BY <1>2, <1>3, <1>6 DEF BackProperty
<1> QED
  BY <1>1, <1>7, <1>8, <1>9, <1>10 DEF Back, SavedDocuments

LEMMA BackStep == BackInv /\ [Next]_vars => BackInv'
<1> SUFFICES ASSUME BackInv, [Next]_vars PROVE BackInv'
  OBVIOUS
<1>1. UseInv'
  BY UseStep DEF BackInv
<1>2. source' = source /\ source \in Sources
  BY DEF BackInv, Next, Change, ReadIndex, BeginDocument, BeginGroup, ReadKey, EndGroup, BeginProperties,
         ReadProperty, AddDocument, Finish, Reject, vars, inputVars
<1>3. (left = [name \in LeftNames |-> left[name]])'
  <2>1. left = [name \in LeftNames |-> left[name]]
    BY DEF BackInv
  <2>2. \/ left' = left
        \/ \E n : left' = [left EXCEPT !.documents = n]
        \/ \E n, m : left' = [left EXCEPT !.documents = n, !.groups = m]
        \/ \E n, m : left' = [left EXCEPT !.groups = n, !.keys = m]
        \/ \E n : left' = [left EXCEPT !.keys = n]
        \/ \E n : left' = [left EXCEPT !.properties = n]
    BY DEF Next, Change, ReadIndex, BeginDocument, BeginGroup, ReadKey, EndGroup, BeginProperties,
           ReadProperty, AddDocument, Finish, Reject, vars
  <2> QED
    BY <2>1, <2>2 DEF LeftNames
<1>4. ASSUME ~changed' PROVE Back'
  <2>1. CASE UNCHANGED vars
    <3>1. BackInv /\ Back /\ ~changed
      BY <1>4, <2>1 DEF BackInv, vars, inputVars
    <3> QED
      BY <2>1, <3>1, BackSame
  <2>2. CASE Change
    BY <1>4, <2>2 DEF Change
  <2>3. CASE Next /\ ~Change
    <3>1. ~changed
      BY <1>4, <2>3 DEF Next, ReadIndex, BeginDocument, BeginGroup, ReadKey, EndGroup, BeginProperties,
                        ReadProperty, AddDocument, Finish, Reject, inputVars
    <3> QED
      BY <2>3, <3>1, BackReadIndex, BackBeginDocument, BackBeginGroup, BackReadKey, BackEndGroup,
         BackBeginProperties, BackReadProperty, BackAddDocument, BackFinish DEF Next
  <2> QED
    BY <2>1, <2>2, <2>3
<1> QED
  BY <1>1, <1>2, <1>3, <1>4 DEF BackInv

\* So is a document.
LEMMA DocumentIsWrittenAlike ==
    ASSUME NEW d \in Long, NEW doc, IsDocument(doc), IdsFit(doc.groups),
           IsDocument(Kept(doc)), IdsFit(Kept(doc).groups)
    PROVE  DocumentBytes(d, Kept(doc)) = DocumentBytes(d, doc)
<1> PICK kept : kept = Kept(doc)
  OBVIOUS
<1>1. /\ DOMAIN kept.groups = DOMAIN doc.groups /\ kept.properties = doc.properties
      /\ \A g \in DOMAIN doc.groups : kept.groups[g] = SortedKeys(doc.groups[g])
  BY DEF Kept
<1>2. GroupCodes(kept) = GroupCodes(doc)
  <2>1. PICK S, w : S = DOMAIN doc.groups /\ w = SortedNames(S)
    OBVIOUS
  <2>2. w \in [1..Cardinality(S) -> S] /\ DOMAIN w = 1..Cardinality(S)
    BY <2>1, GroupsCode DEF Lists
  <2>3. \A i \in DOMAIN w : GroupBytes(w[i], kept.groups[w[i]]) = GroupBytes(w[i], doc.groups[w[i]])
    <3>1. \A g \in S : doc.groups[g] \in Seq(Text)
      BY <2>1, DocumentParts DEF IsGroups
    <3>2. \A g \in S : GroupBytes(g, kept.groups[g]) = GroupBytes(g, doc.groups[g])
      BY <1>1, <2>1, <3>1, GroupIsWrittenAlike
    <3> QED
      BY <2>2, <3>2
  <2> QED
    BY <1>1, <2>1, <2>3 DEF GroupCodes
<1>3. KindCodes(kept) = KindCodes(doc)
  BY <1>1 DEF KindCodes
<1> QED
  BY <1>1, <1>2, <1>3, DocumentCode

\* What loading gives is written as the index that was saved.
LEMMA IndexIsWrittenAlike ==
    ASSUME NEW i, IsIndex(i), \A d \in DOMAIN i.docs : IdsFit(i.docs[d].groups),
           NEW j, IsIndex(j), \A d \in DOMAIN j.docs : IdsFit(j.docs[d].groups),
           j.implicit = i.implicit, DOMAIN j.docs = DOMAIN i.docs,
           \A d \in DOMAIN i.docs : j.docs[d] = Kept(i.docs[d])
    PROVE  Payload(j) = Payload(i) /\ Contents(j) = Contents(i)
<1>1. DocumentCodes(j) = DocumentCodes(i)
  <2>1. PICK S, w : S = DOMAIN i.docs /\ w = Ascending(S)
    OBVIOUS
  <2>2. w \in [1..Cardinality(S) -> S] /\ DOMAIN w = 1..Cardinality(S)
    <3>1. S \in SUBSET Int /\ IsFiniteSet(S)
      BY <2>1, LongIsInt DEF IsIndex
    <3> QED
      BY <2>1, <3>1, AscendingProperties
  <2>3. \A d \in S : DocumentBytes(d, j.docs[d]) = DocumentBytes(d, i.docs[d])
    <3> SUFFICES ASSUME NEW d \in S
                 PROVE  DocumentBytes(d, j.docs[d]) = DocumentBytes(d, i.docs[d])
      OBVIOUS
    <3> PICK doc : doc = i.docs[d]
      OBVIOUS
    <3>1. d \in Long /\ IsDocument(doc) /\ IdsFit(doc.groups)
      BY <2>1 DEF IsIndex
    <3>2. IsDocument(Kept(doc)) /\ IdsFit(Kept(doc).groups) /\ j.docs[d] = Kept(doc)
      BY <2>1 DEF IsIndex
    <3> QED
      BY <3>1, <3>2, DocumentIsWrittenAlike
  <2>4. \A k \in DOMAIN w : DocumentBytes(w[k], j.docs[w[k]]) = DocumentBytes(w[k], i.docs[w[k]])
    BY <2>2, <2>3
  <2> QED
    BY <2>1, <2>4 DEF DocumentCodes
<1>2. Payload(j) = Payload(i)
  BY <1>1, PayloadCode
<1>3. ASSUME NEW d \in DOMAIN i.docs
      PROVE  [j.docs[d] EXCEPT !.groups = [g \in DOMAIN @ |-> SortedKeys(@[g])]]
               = [i.docs[d] EXCEPT !.groups = [g \in DOMAIN @ |-> SortedKeys(@[g])]]
  <2> PICK doc, kept : doc = i.docs[d] /\ kept = j.docs[d]
    OBVIOUS
  <2>1. /\ doc = [groups |-> doc.groups, properties |-> doc.properties]
        /\ \A g \in DOMAIN doc.groups : doc.groups[g] \in Seq(Text)
    BY DocumentParts DEF IsIndex, IsGroups
  <2>2. kept = [groups |-> [g \in DOMAIN doc.groups |-> SortedKeys(doc.groups[g])],
                properties |-> doc.properties]
    BY DEF Kept
  <2> PICK sorted : sorted = [g \in DOMAIN doc.groups |-> SortedKeys(doc.groups[g])]
    OBVIOUS
  <2>3. [g \in DOMAIN sorted |-> SortedKeys(sorted[g])] = sorted
    BY <2>1, SortedKeysStay
  <2>4. [kept EXCEPT !.groups = [g \in DOMAIN @ |-> SortedKeys(@[g])]]
          = [groups |-> sorted, properties |-> doc.properties]
    <3>1. kept = [groups |-> sorted, properties |-> doc.properties] /\ kept.groups = sorted
      BY <2>2
    <3>2. [g \in DOMAIN kept.groups |-> SortedKeys(kept.groups[g])] = sorted
      BY <2>3, <3>1
    <3> QED
      BY <3>1, <3>2
  <2>5. [doc EXCEPT !.groups = [g \in DOMAIN @ |-> SortedKeys(@[g])]]
          = [groups |-> sorted, properties |-> doc.properties]
    BY <2>1
  <2> QED
    BY <2>4, <2>5
<1>4. Contents(j) = Contents(i)
  BY <1>3 DEF Contents
<1> QED
  BY <1>2, <1>4

\* What is read of the payload of a saved index is that index, its keys in
\* order, and it is written again to the byte.
THEOREM LoadingGivesBack == Spec => []RoundTrip
<1>1. BackInv => RoundTrip
  <2> SUFFICES ASSUME BackInv, ~changed, pc = "decoded"
               PROVE  Contents(index) = Contents(source) /\ Payload(index) = payload
    BY DEF RoundTrip
  <2>1. /\ UseInv /\ Back /\ payload = Payload(source) /\ IsIndex(source)
        /\ \A d \in DOMAIN source.docs : IdsFit(source.docs[d].groups)
        /\ Lists(Ascending(DOMAIN source.docs), DOMAIN source.docs)
    BY BackFacts
  <2>2. /\ IsIndex(index) /\ \A d \in DOMAIN index.docs : IdsFit(index.docs[d].groups)
    BY <2>1 DEF UseInv, TypeInv
  <2>3. IndexBack(SavedDocuments)
    BY <2>1 DEF Back
  <2>4. Firsts(Ascending(DOMAIN source.docs), SavedDocuments) = DOMAIN source.docs
    BY <2>1, FirstsAll DEF SavedDocuments
  <2>5. /\ index.implicit = source.implicit /\ DOMAIN index.docs = DOMAIN source.docs
        /\ \A d \in DOMAIN source.docs : index.docs[d] = Kept(source.docs[d])
    BY <2>3, <2>4 DEF IndexBack
  <2> QED
    BY <2>1, <2>2, <2>5, IndexIsWrittenAlike
<1> QED
  BY <1>1, BackInit, BackStep, PTL DEF Spec
=============================================================================
