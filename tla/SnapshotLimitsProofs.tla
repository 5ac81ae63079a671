------------------------ MODULE SnapshotLimitsProofs ------------------------
(***************************************************************************)
(* The limits of SnapshotCodec are exact, for any index, limits, widths    *)
(* and hash: an unchanged payload is accepted if and only if its index is  *)
(* within the limits.  Two more inductive invariants, over those of        *)
(* SnapshotCodecProofs:                                                    *)
(*   CountInv     the totals count what was built and announced, so that   *)
(*                what is accepted is within the limits;                   *)
(*   FitInv       an index within the limits is not rejected: what is read *)
(*                of it is a part of it and takes no more than all of it.  *)
(***************************************************************************)
EXTENDS SnapshotCodecProofs

-----------------------------------------------------------------------------
(* What Emplace adds to what is counted                                    *)

\* One more group adds its keys.
LEMMA KeysInMore ==
    ASSUME NEW groups, IsGroups(groups), NEW g, g \notin DOMAIN groups, NEW strings \in Seq(Text)
    PROVE  KeysIn(Emplace(groups, g, strings)) = KeysIn(groups) + Len(strings)
<1> DEFINE S == DOMAIN groups
           f == [h \in S |-> Len(groups[h])]
           k == [h \in S \union {g} |-> IF h \in S THEN Len(groups[h]) ELSE Len(strings)]
<1>1. IsFiniteSet(S) /\ \A h \in S : Len(groups[h]) \in Nat
  BY DEF IsGroups
<1>2. Len(strings) \in Nat
  OBVIOUS
<1>3. KeysIn(groups) = SumFunction(f)
  BY DEF KeysIn, SumOver
<1>4. KeysIn(Emplace(groups, g, strings)) = SumFunction(k)
  <2> PICK more : more = Emplace(groups, g, strings)
    OBVIOUS
  <2>1. DOMAIN more = S \union {g} /\ \A h \in S \union {g} : more[h] = IF h \in S THEN groups[h] ELSE strings
    BY DEF Emplace
  <2>2. [h \in DOMAIN more |-> Len(more[h])] = k
    BY <2>1
  <2>3. KeysIn(more) = SumFunction(k)
    BY <2>2 DEF KeysIn, SumOver
  <2> QED
    BY <2>3
<1>5. /\ DOMAIN f = S /\ DOMAIN k = S \union {g} /\ \A h \in S : f[h] = k[h]
      /\ k[g] = Len(strings) /\ \A h \in DOMAIN k : k[h] \in Nat
  BY <1>1, <1>2
<1> HIDE DEF f, k, S
<1>6. SumFunction(k) = SumFunction(f) + k[g]
  BY <1>1, <1>5, SumOfMore DEF S
<1> QED
  BY <1>3, <1>4, <1>5, <1>6

\* One more property counts as one.
LEMMA EntriesInMore ==
    ASSUME NEW properties, IsProperties(properties), NEW type \in ToSet(PropertyKinds),
           NEW name, name \notin DOMAIN properties[type], NEW value,
           NEW more, more = [properties EXCEPT ![type] = Emplace(@, name, value)]
    PROVE  EntriesIn(more) = EntriesIn(properties) + 1
<1> DEFINE K == ToSet(PropertyKinds)
           f == [t \in K |-> Cardinality(DOMAIN properties[t])]
           h == [t \in K |-> Cardinality(DOMAIN more[t])]
           new == Emplace(properties[type], name, value)
<1>1. DOMAIN properties = K /\ IsFiniteSet(DOMAIN properties[type])
  BY DEF IsProperties, IsKind
<1>2. more[type] = new /\ \A t \in K \ {type} : more[t] = properties[t]
  BY <1>1
<1>3. DOMAIN new = DOMAIN properties[type] \union {name}
  BY DEF Emplace
<1>4. Cardinality(DOMAIN new) = Cardinality(DOMAIN properties[type]) + 1
  BY <1>1, <1>3, FS_AddElement
<1>5. \A t \in K : f[t] \in Nat
  BY EntriesInType
<1> HIDE DEF new
<1>6. /\ DOMAIN f = K /\ DOMAIN h = K /\ IsFiniteSet(K) /\ f[type] \in Nat
      /\ h[type] = f[type] + 1 /\ \A t \in K \ {type} : h[t] = f[t]
  BY <1>2, <1>4, <1>5, KindsAre
<1>7. EntriesIn(properties) = SumFunction(f) /\ EntriesIn(more) = SumFunction(h)
  BY DEF EntriesIn, SumOver
<1> HIDE DEF f, h, K
<1>8. /\ SumFunction(f) \in Nat /\ SumFunction(h) \in Nat
      /\ SumFunction(f) + h[type] = SumFunction(h) + f[type]
  BY <1>5, <1>6, SumOfChanged DEF K
<1> QED
  BY <1>6, <1>7, <1>8

LEMMA NoneCounted == KeysIn(NewDocument.groups) = 0 /\ EntriesIn(NewDocument.properties) = 0
<1> DEFINE K == ToSet(PropertyKinds)
           e == <<>>
           f == [t \in K |-> Cardinality(DOMAIN NewDocument.properties[t])]
<1>1. IsGroups(NewDocument.groups) /\ DOMAIN NewDocument.groups = {}
  <2>1. IsDocument(NewDocument)
    BY NoPropertiesUse DEF Measures
  <2> QED
    BY <2>1, DocumentParts DEF NewDocument
<1>2. \A t \in K : NewDocument.properties[t] = e
  BY DEF NewDocument
<1>3. DOMAIN e = {} /\ Cardinality({}) = 0
  BY FS_EmptySet
<1> HIDE DEF e
<1>4. DOMAIN f = K /\ \A t \in K : f[t] = 0
  BY <1>2, <1>3
<1>5. EntriesIn(NewDocument.properties) = SumFunction(f)
  BY DEF EntriesIn, SumOver
<1> HIDE DEF f, K
<1>6. SumFunction(f) = 0
  <2>1. Units(f, K) = {}
    <3>1. \A t \in K : 1..f[t] = {}
      BY <1>4
    <3> QED
      BY <3>1 DEF Units
  <2> QED
    BY <1>4, <2>1, SumIsUnits, KindsAre, FS_EmptySet DEF K
<1> QED
  BY <1>1, <1>5, <1>6, KeysInType

\* One more document adds the counts of its keys and of its properties.
LEMMA CountsMore ==
    ASSUME NEW i, IsIndex(i), NEW d, d \notin DOMAIN i.docs, NEW doc,
           NEW more, more.docs = Emplace(i.docs, d, doc), IsIndex(more)
    PROVE  /\ KeyCount(more) = KeyCount(i) + KeysIn(doc.groups)
           /\ PropertyCount(more) = PropertyCount(i) + EntriesIn(doc.properties)
<1> DEFINE S == DOMAIN i.docs
           f == [e \in DOMAIN i.docs |-> KeysIn(i.docs[e].groups)]
           h == [e \in DOMAIN i.docs |-> EntriesIn(i.docs[e].properties)]
           k == [e \in DOMAIN more.docs |-> KeysIn(more.docs[e].groups)]
           l == [e \in DOMAIN more.docs |-> EntriesIn(more.docs[e].properties)]
<1>1. /\ DOMAIN more.docs = S \union {d} /\ more.docs[d] = doc
      /\ \A e \in S : more.docs[e] = i.docs[e]
  <2> PICK docs : docs = Emplace(i.docs, d, doc)
    OBVIOUS
  <2>1. DOMAIN docs = S \union {d} /\ docs[d] = doc /\ \A e \in S : docs[e] = i.docs[e]
    BY DEF Emplace
  <2> QED
    BY <2>1
<1>2. /\ KeyCount(i) = SumFunction(f) /\ PropertyCount(i) = SumFunction(h)
      /\ KeyCount(more) = SumFunction(k) /\ PropertyCount(more) = SumFunction(l)
  BY CountsType
<1>3. /\ DOMAIN f = S /\ DOMAIN k = S \union {d} /\ DOMAIN h = S /\ DOMAIN l = S \union {d}
      /\ \A e \in S : f[e] = k[e] /\ h[e] = l[e]
      /\ k[d] = KeysIn(doc.groups) /\ l[d] = EntriesIn(doc.properties)
  BY <1>1
<1>4. \A e \in S \union {d} : k[e] \in Nat /\ l[e] \in Nat
  BY <1>1, CountsType
<1>5. IsFiniteSet(S) /\ d \notin S
  BY DEF IsIndex
<1> HIDE DEF f, h, k, l, S
<1>6. SumFunction(k) = SumFunction(f) + k[d] /\ SumFunction(l) = SumFunction(h) + l[d]
  BY <1>3, <1>4, <1>5, SumOfMore
<1> QED
  BY <1>2, <1>3, <1>6

-----------------------------------------------------------------------------
(* What was accepted is within the limits, whatever the bytes are          *)

InDocument == pc \in {"group", "key", "property"}

\* The totals count what was built, and what is announced and not yet read.
TotalsCounted ==
    /\ keysTotal = KeyCount(index) + (IF InDocument THEN KeysIn(document.groups) ELSE 0)
                     + (IF pc = "key" THEN Len(keySet) + left.keys ELSE 0)
    /\ propertiesTotal = PropertyCount(index) + (IF InDocument THEN EntriesIn(document.properties) ELSE 0)
                           + (IF pc = "property" THEN left.properties ELSE 0)

\* So do the documents, once their count is read.
SizesLimited ==
    /\ HeaderBytes + Len(payload) <= limits.bytes
    /\ Cardinality(DOMAIN index.docs) + left.documents + (IF InDocument THEN 1 ELSE 0)
         <= limits.documents

StringsLimited ==
    \A string \in StringsOf(index) \union DocumentStrings(document) \union {group} \union ToSet(keySet) :
        Len(string) <= limits.string

LeftType == left \in [LeftNames -> Nat]

ItemsCounted ==
    /\ reader.ok
    /\ LeftType
    /\ pc # "rejected" => TotalsCounted
    /\ pc \notin {"header", "rejected"} => SizesLimited
    /\ StringsLimited

CountInv == UseInv /\ ItemsCounted

LEMMA NoStrings == DocumentStrings(NewDocument) = {}
<1> DEFINE e == <<>>
<1>1. /\ NewDocument.groups = e /\ \A type \in ToSet(PropertyKinds) : NewDocument.properties[type] = e
      /\ NewDocument.properties["string"] = e /\ DOMAIN e = {}
  BY KindsAre DEF NewDocument
<1> HIDE DEF e
<1> QED
  BY <1>1 DEF DocumentStrings

\* One more group adds its name and its keys to the strings.
LEMMA StringsOfMoreGroups ==
    ASSUME NEW doc, NEW g, NEW strings, NEW more,
           more.groups = Emplace(doc.groups, g, strings), more.properties = doc.properties
    PROVE  \A s \in DocumentStrings(more) : s \in DocumentStrings(doc) \/ s = g \/ s \in ToSet(strings)
<1> PICK groups : groups = Emplace(doc.groups, g, strings)
  OBVIOUS
<1>1. /\ DOMAIN groups = DOMAIN doc.groups \union {g}
      /\ \A h \in DOMAIN groups : groups[h] = IF h \in DOMAIN doc.groups THEN doc.groups[h] ELSE strings
  BY DEF Emplace
<1> QED
  BY <1>1 DEF DocumentStrings

\* One more property adds its name and its value.
LEMMA StringsOfMoreProperties ==
    ASSUME NEW doc, IsProperties(doc.properties), NEW type \in ToSet(PropertyKinds),
           NEW name, name \notin DOMAIN doc.properties[type], NEW value,
           NEW more, more.groups = doc.groups,
           more.properties = [doc.properties EXCEPT ![type] = Emplace(@, name, value)]
    PROVE  \A s \in DocumentStrings(more) :
             s \in DocumentStrings(doc) \/ s = name \/ (type = "string" /\ s = value)
<1> PICK properties, new : properties = doc.properties /\ new = Emplace(properties[type], name, value)
  OBVIOUS
<1>1. /\ DOMAIN new = DOMAIN properties[type] \union {name}
      /\ new[name] = value /\ \A n \in DOMAIN properties[type] : new[n] = properties[type][n]
  BY DEF Emplace
<1>2. DOMAIN properties = ToSet(PropertyKinds)
  BY DEF IsProperties
<1>3. more.properties[type] = new /\ \A t \in ToSet(PropertyKinds) \ {type} : more.properties[t] = properties[t]
  BY <1>2
<1>4. "string" \in ToSet(PropertyKinds)
  BY KindsAre
<1>5. ASSUME NEW s \in DocumentStrings(more)
      PROVE  s \in DocumentStrings(doc) \/ s = name \/ (type = "string" /\ s = value)
  <2>1. CASE \E g \in DOMAIN doc.groups : s = g \/ s \in ToSet(doc.groups[g])
    BY <2>1, IsStringOf
  <2>2. ASSUME NEW t \in ToSet(PropertyKinds), s \in DOMAIN more.properties[t]
        PROVE  s \in DocumentStrings(doc) \/ s = name
    <3>1. s = name \/ s \in DOMAIN doc.properties[t]
      BY <1>1, <1>3, <2>2
    <3> QED
      BY <3>1, IsStringOf
  <2>3. ASSUME NEW n \in DOMAIN more.properties["string"], s = more.properties["string"][n]
        PROVE  s \in DocumentStrings(doc) \/ (type = "string" /\ s = value)
    <3>1. \/ type = "string" /\ s = value
          \/ \E m \in DOMAIN doc.properties["string"] : s = doc.properties["string"][m]
      <4>1. CASE type = "string"
        BY <1>1, <1>3, <2>3, <4>1
      <4>2. CASE type # "string"
        BY <1>3, <1>4, <2>3, <4>2
      <4> QED
        BY <4>1, <4>2
    <3>2. (\E m \in DOMAIN doc.properties["string"] : s = doc.properties["string"][m]) => s \in DocumentStrings(doc)
      BY IsStringOf
    <3> QED
      BY <3>1, <3>2
  <2>4. \/ \E g \in DOMAIN doc.groups : s = g \/ s \in ToSet(doc.groups[g])
        \/ \E t \in ToSet(PropertyKinds) : s \in DOMAIN more.properties[t]
        \/ \E n \in DOMAIN more.properties["string"] : s = more.properties["string"][n]
    <3>1. \/ \E g \in DOMAIN more.groups : s = g \/ s \in ToSet(more.groups[g])
          \/ \E t \in ToSet(PropertyKinds) : s \in DOMAIN more.properties[t]
          \/ \E n \in DOMAIN more.properties["string"] : s = more.properties["string"][n]
      BY <1>5, IsStringOf
    <3> QED
      BY <3>1
  <2> QED
    BY <2>1, <2>2, <2>3, <2>4
<1> QED
  BY <1>5

\* A string that was read is within the limit.
LEMMA ReadTextLimited ==
    ASSUME LimitsOK, payload \in Text, NEW r, IsAt(r)
    PROVE  ReadText(r).ok => Len(ReadText(r).value) <= limits.string
<1> DEFINE length == ReadCount(r, limits.string, 1)
           n == length.value
           charged == Charge(length, n)
           v == Taken(length, n)
           s == ReadText(r)
<1> SUFFICES ASSUME s.ok PROVE Len(s.value) <= limits.string
  OBVIOUS
<1>1. /\ IsAt(length)
      /\ length.ok => /\ n \in 0..limits.string
                      /\ n <= Remaining(length) \div 1
  BY ReadCountAt
<1>2. s = IF charged.ok THEN [charged EXCEPT !.position = @ + n, !.value = v] ELSE charged
  BY DEF ReadText
<1> HIDE DEF length
<1>3. IsAt(charged) /\ (charged.ok => length.ok)
  BY <1>1, ChargeAt
<1> HIDE DEF charged, s
<1>4. charged.ok
  BY <1>2
<1>5. n \in 0..limits.string /\ limits.string \in Nat
  BY <1>1, <1>3, <1>4 DEF LimitsOK, LimitNames
<1>6. n <= Remaining(length)
  <2>1. length.position \in 0..Len(payload) /\ Len(payload) \in Nat
    BY <1>1, TextLength DEF IsAt
  <2>2. Remaining(length) \in Nat
    BY <2>1 DEF Remaining
  <2> QED
    BY <1>1, <1>3, <1>4, <2>2
<1>7. Len(v) = n
  BY <1>1, <1>5, <1>6, TakenType DEF IsAt
<1>8. s.value = v
  BY <1>2, <1>3, <1>4 DEF IsAt, InBudget, IsReader
<1> QED
  BY <1>5, <1>7, <1>8

\* What the invariant says of the parts of the state.
LEMMA CountFacts ==
    ASSUME CountInv
    PROVE  /\ IsAt(reader) /\ LimitsOK /\ payload \in Text /\ reader.ok
           /\ limits.documents \in Nat /\ limits.keys \in Nat /\ limits.properties \in Nat
           /\ limits.string \in Nat /\ limits.bytes \in Nat /\ limits.decoded \in Nat
           /\ left \in [LeftNames -> Nat]
           /\ left.documents \in Nat /\ left.groups \in Nat /\ left.keys \in Nat /\ left.properties \in Nat
           /\ IsIndex(index) /\ KeyCount(index) \in Nat /\ PropertyCount(index) \in Nat
           /\ Cardinality(DOMAIN index.docs) \in Nat
           /\ IsDocument(document) /\ IsGroups(document.groups) /\ IsProperties(document.properties)
           /\ document = [groups |-> document.groups, properties |-> document.properties]
           /\ KeysIn(document.groups) \in Nat /\ EntriesIn(document.properties) \in Nat
           /\ keySet \in Seq(Text) /\ Len(keySet) \in Nat
           /\ keysTotal \in Nat /\ propertiesTotal \in Nat
<1>1. UseInv /\ ItemsCounted /\ TypeInv /\ BudgetInv
  BY DEF CountInv, UseInv, PostingsInv
<1>2. LimitsOK /\ \A name \in LimitNames : limits[name] \in Nat
  BY <1>1 DEF BudgetInv, LimitsOK
<1>3. left \in [LeftNames -> Nat] /\ reader.ok
  BY <1>1 DEF ItemsCounted, LeftType
<1>4. IsDocument(document) /\ IsIndex(index) /\ keySet \in Seq(Text)
  BY <1>1 DEF TypeInv
<1>5. /\ IsGroups(document.groups) /\ IsProperties(document.properties)
      /\ document = [groups |-> document.groups, properties |-> document.properties]
  BY <1>4, DocumentParts
<1>6. Cardinality(DOMAIN index.docs) \in Nat
  BY <1>4, FS_CardinalityType DEF IsIndex
<1>7. keysTotal \in Nat /\ propertiesTotal \in Nat
  BY <1>1, <1>2 DEF BudgetInv, LimitNames
<1>8. KeysIn(document.groups) \in Nat /\ EntriesIn(document.properties) \in Nat
  BY <1>5, KeysInType, EntriesInType
<1>9. KeyCount(index) \in Nat /\ PropertyCount(index) \in Nat
  BY <1>4, CountsType
<1> QED
  BY <1>1, <1>2, <1>3, <1>4, <1>5, <1>6, <1>7, <1>8, <1>9, UseReader DEF LimitNames, LeftNames

LEMMA CountRejected ==
    ASSUME CountInv, Reject
    PROVE  ItemsCounted'
BY DEF CountInv, ItemsCounted, LeftType, TotalsCounted, SizesLimited, StringsLimited, Reject, InDocument,
       inputVars, budgetVars, documentVars, resultVars

\* A step that changes nothing.
LEMMA CountSame ==
    ASSUME CountInv, UNCHANGED vars
    PROVE  ItemsCounted'
BY DEF CountInv, ItemsCounted, LeftType, TotalsCounted, SizesLimited, StringsLimited, InDocument, vars,
       inputVars, budgetVars, documentVars, resultVars

LEMMA CountChange ==
    ASSUME CountInv, Change
    PROVE  ItemsCounted'
BY DEF CountInv, ItemsCounted, LeftType, TotalsCounted, SizesLimited, StringsLimited, InDocument, Change,
       inputVars, budgetVars, documentVars, resultVars

\* Each step counts what it builds, and announces what it will read.
LEMMA CountReadIndex ==
    ASSUME CountInv, UseInv', ReadIndex
    PROVE  ItemsCounted'
<1> DEFINE implicit == ReadText(reader)
           maximum == limits.documents
           count == ReadCount(implicit, maximum, DocumentMinimum)
<1> SUFFICES ASSUME HeaderBytes + Len(payload) <= limits.bytes, count.ok, pc = "header", pc' = "document",
                    reader' = count, left' = [left EXCEPT !.documents = count.value],
                    index' = [index EXCEPT !.implicit = implicit.value],
                    UNCHANGED <<inputVars, keysTotal, propertiesTotal, document, group, keySet>>
             PROVE  ItemsCounted'
  BY CountRejected DEF ReadIndex, budgetVars, documentVars
<1>1. CountInv
  OBVIOUS
<1>2. /\ IsAt(implicit) /\ (implicit.ok => Len(implicit.value) <= limits.string)
  BY <1>1, CountFacts, ReadTextAt, ReadTextLimited
<1> HIDE DEF implicit, maximum
<1>3. implicit.ok /\ count.value \in 0..maximum
  BY <1>1, <1>2, CountFacts, ReadCountAt
<1> HIDE DEF count
<1>4. left' \in [LeftNames -> Nat] /\ left'.documents = count.value
  <2>1. left \in [LeftNames -> Nat] /\ count.value \in Nat
    BY <1>1, <1>3, CountFacts DEF maximum
  <2> QED
    BY <2>1 DEF LeftNames
<1>5. DOMAIN index.docs = {} /\ index' = [implicit |-> implicit.value, docs |-> index.docs]
      /\ IsIndex(index) /\ IsIndex(index')
  BY DEF UseInv, TypeInv, PostingsInv, CountInv
<1>6. KeyCount(index) = 0 /\ PropertyCount(index) = 0 /\ KeyCount(index') = 0 /\ PropertyCount(index') = 0
  BY <1>5, CountsType
<1>7. TotalsCounted'
  BY <1>6 DEF TotalsCounted, InDocument, CountInv, ItemsCounted
<1>8. SizesLimited'
  <2>1. Cardinality(DOMAIN index'.docs) = 0
    BY <1>5, FS_EmptySet
  <2> QED
    <3>1. limits.documents \in Nat /\ left'.documents \in 0..limits.documents
      BY <1>1, <1>3, <1>4, CountFacts DEF maximum
    <3>2. Cardinality(DOMAIN index'.docs) + left'.documents + 0 <= limits.documents
      BY <2>1, <3>1
    <3> QED
      BY <3>2 DEF SizesLimited, InDocument, inputVars
<1>9. StringsLimited'
  <2>1. StringsOf(index') = {implicit.value}
    BY <1>5, StringsAre
  <2> QED
    BY <1>2, <1>3, <2>1 DEF StringsLimited, CountInv, ItemsCounted, inputVars
<1> QED
  BY <1>4, <1>7, <1>8, <1>9 DEF ItemsCounted, LeftType

LEMMA CountBeginDocument ==
    ASSUME CountInv, UseInv', BeginDocument
    PROVE  ItemsCounted'
<1> DEFINE native == ReadNative(reader, LongMax)
           maximum == Left(limits.keys, keysTotal)
           count == ReadCount(native, maximum, EntryMinimum)
<1> SUFFICES ASSUME count.ok, pc = "document", left.documents > 0, pc' = "group", reader' = count,
                    left' = [left EXCEPT !.documents = @ - 1, !.groups = count.value],
                    document' = NewDocument,
                    UNCHANGED <<inputVars, keysTotal, propertiesTotal, group, keySet, index>>
             PROVE  ItemsCounted'
  BY CountRejected DEF BeginDocument, budgetVars, resultVars
<1>1. CountInv
  OBVIOUS
<1>2. IsAt(native)
  BY <1>1, CountFacts, ReadNativeAt
<1> HIDE DEF native
<1>3. maximum \in Nat
  BY DEF CountInv, UseInv, PostingsInv, BudgetInv, LimitsOK, LimitNames, Left
<1> HIDE DEF maximum
<1>4. count.value \in 0..maximum
  BY <1>1, <1>2, CountFacts, ReadCountAt
<1> HIDE DEF count
<1>5. left' \in [LeftNames -> Nat] /\ left'.documents = left.documents - 1
  <2>1. /\ left \in [LeftNames -> Nat] /\ count.value \in Nat
        /\ left.documents \in Nat /\ left.documents - 1 \in Nat
    <3>1. left \in [LeftNames -> Nat] /\ left.documents \in Nat
      BY <1>1, CountFacts
    <3>2. left.documents > 0
      OBVIOUS
    <3> QED
      BY <1>3, <1>4, <3>1, <3>2
  <2>2. left' = [left EXCEPT !.documents = left.documents - 1, !.groups = count.value]
    OBVIOUS
  <2> QED
    BY <2>1, <2>2 DEF LeftNames
<1>6. TotalsCounted'
  <2>1. keysTotal = KeyCount(index) /\ propertiesTotal = PropertyCount(index)
    BY <1>1, CountFacts DEF CountInv, ItemsCounted, TotalsCounted, InDocument
  <2> QED
    BY <1>1, <2>1, CountFacts, NoneCounted DEF TotalsCounted, InDocument
<1>7. SizesLimited'
  BY <1>1, <1>5, CountFacts DEF CountInv, ItemsCounted, SizesLimited, InDocument, inputVars
<1>8. StringsLimited'
  BY NoStrings DEF CountInv, ItemsCounted, StringsLimited, inputVars
<1> QED
  BY <1>5, <1>6, <1>7, <1>8 DEF ItemsCounted, LeftType

LEMMA CountBeginGroup ==
    ASSUME CountInv, UseInv', BeginGroup
    PROVE  ItemsCounted'
<1> DEFINE name == ReadText(reader)
           l == Len(name.value)
           charge == Charge(name, l)
           charged == IF name.ok THEN ChargeReverseIndex(name) ELSE name
           maximum == Left(limits.keys, keysTotal)
           count == ReadCount(charged, maximum, EntryMinimum)
<1> SUFFICES ASSUME count.ok, pc = "group", pc' = "key", reader' = count,
                    left' = [left EXCEPT !.groups = @ - 1, !.keys = count.value],
                    left.groups > 0,
                    keysTotal' = keysTotal + count.value, group' = name.value, keySet' = <<>>,
                    UNCHANGED <<inputVars, propertiesTotal, document, index>>
             PROVE  ItemsCounted'
  BY CountRejected DEF BeginGroup, resultVars
<1>1. CountInv
  OBVIOUS
<1>2. IsAt(name) /\ (name.ok => l \in Nat /\ l <= limits.string)
  BY <1>1, CountFacts, ReadTextAt, ReadTextLimited, TextLength
<1>3. charged \in {name, charge}
  BY DEF ChargeReverseIndex
<1> HIDE DEF name, l
<1>4. IsAt(charge) /\ (charge.ok => name.ok)
  BY <1>1, <1>2, CountFacts, ChargeAt
<1> HIDE DEF charge, charged
<1>5. IsAt(charged) /\ (charged.ok => name.ok)
  BY <1>2, <1>3, <1>4
<1>6. maximum \in Nat
  BY DEF CountInv, UseInv, PostingsInv, BudgetInv, LimitsOK, LimitNames, Left
<1> HIDE DEF maximum
<1>7. name.ok /\ count.value \in 0..maximum
  BY <1>1, <1>5, CountFacts, ReadCountAt
<1> HIDE DEF count
<1>8. left' \in [LeftNames -> Nat] /\ left'.documents = left.documents /\ left'.keys = count.value
  <2>1. left \in [LeftNames -> Nat] /\ count.value \in Nat /\ left.groups - 1 \in Nat
    <3>1. left \in [LeftNames -> Nat] /\ left.groups \in Nat
      BY <1>1, CountFacts
    <3>2. left.groups > 0
      OBVIOUS
    <3> QED
      BY <1>6, <1>7, <3>1, <3>2
  <2>2. left' = [left EXCEPT !.groups = left.groups - 1, !.keys = count.value]
    OBVIOUS
  <2> QED
    BY <2>1, <2>2 DEF LeftNames
<1>9. TotalsCounted'
  <2>1. keysTotal = KeyCount(index) + KeysIn(document.groups)
        /\ propertiesTotal = PropertyCount(index) + EntriesIn(document.properties)
    BY <1>1, CountFacts DEF CountInv, ItemsCounted, TotalsCounted, InDocument
  <2>2. keysTotal' = KeyCount(index) + KeysIn(document.groups) + (Len(keySet') + left'.keys)
    <3>1. Len(keySet') = 0
      OBVIOUS
    <3>2. count.value \in Nat /\ KeyCount(index) \in Nat /\ KeysIn(document.groups) \in Nat
      BY <1>1, <1>6, <1>7, CountFacts
    <3> QED
      BY <1>8, <2>1, <3>1, <3>2
  <2>3. propertiesTotal' = PropertyCount(index) + EntriesIn(document.properties) + 0
    BY <1>1, <2>1, CountFacts
  <2> QED
    BY <2>2, <2>3 DEF TotalsCounted, InDocument
<1>10. SizesLimited'
  BY <1>8 DEF CountInv, ItemsCounted, SizesLimited, InDocument, inputVars
<1>11. StringsLimited'
  <2>1. ToSet(keySet') = {}
    BY DEF ToSet
  <2> QED
    BY <1>2, <1>7, <2>1 DEF CountInv, ItemsCounted, StringsLimited, inputVars, l
<1> QED
  BY <1>8, <1>9, <1>10, <1>11 DEF ItemsCounted, LeftType

LEMMA CountReadKey ==
    ASSUME CountInv, UseInv', ReadKey
    PROVE  ItemsCounted'
<1> DEFINE string == ReadText(reader)
           native == ReadNative(string, LongMax)
           key == ChargeKey(native)
<1> SUFFICES ASSUME key.ok, pc = "key", pc' = pc, left.keys > 0, reader' = key,
                    left' = [left EXCEPT !.keys = @ - 1], keySet' = Append(keySet, string.value),
                    UNCHANGED <<inputVars, keysTotal, propertiesTotal, document, group, index>>
             PROVE  ItemsCounted'
  BY CountRejected DEF ReadKey, budgetVars, resultVars
<1>1. CountInv
  OBVIOUS
<1>2. IsAt(string) /\ (string.ok => string.value \in Text /\ Len(string.value) <= limits.string)
  BY <1>1, CountFacts, ReadTextAt, ReadTextLimited
<1> HIDE DEF string
<1>3. IsAt(native) /\ (native.ok => string.ok)
  BY <1>1, <1>2, CountFacts, ReadNativeAt
<1> HIDE DEF native
<1>4. string.ok
  <2>1. Len(group) \in Nat
    BY DEF CountInv, UseInv, PostingsInv, BudgetInv
  <2> QED
    BY <1>1, <1>3, <2>1, CountFacts, ChargeAt DEF ChargeKey
<1> HIDE DEF key
<1>5. left' \in [LeftNames -> Nat] /\ left'.documents = left.documents /\ left'.keys = left.keys - 1
  <2>1. left \in [LeftNames -> Nat] /\ left.keys - 1 \in Nat
    <3>1. left \in [LeftNames -> Nat] /\ left.keys \in Nat
      BY <1>1, CountFacts
    <3>2. left.keys > 0
      OBVIOUS
    <3> QED
      BY <3>1, <3>2
  <2>2. left' = [left EXCEPT !.keys = left.keys - 1]
    OBVIOUS
  <2> QED
    BY <2>1, <2>2 DEF LeftNames
<1>6. Len(keySet') = Len(keySet) + 1 /\ ToSet(keySet') = ToSet(keySet) \union {string.value}
  <2>1. keySet \in Seq(Text) /\ string.value \in Text /\ Len(keySet) \in Nat
    BY <1>1, <1>2, <1>4, CountFacts
  <2> DEFINE more == Append(keySet, string.value)
  <2>2. /\ Len(more) = Len(keySet) + 1 /\ DOMAIN more = 1..(Len(keySet) + 1) /\ DOMAIN keySet = 1..Len(keySet)
        /\ \A j \in 1..Len(keySet) : more[j] = keySet[j]
        /\ more[Len(keySet) + 1] = string.value
    BY <2>1
  <2> HIDE DEF more
  <2>3. \A j \in 1..(Len(keySet) + 1) : j \in 1..Len(keySet) \/ j = Len(keySet) + 1
    BY <2>1
  <2>4. Len(keySet) + 1 \in 1..(Len(keySet) + 1) /\ \A j \in 1..Len(keySet) : j \in 1..(Len(keySet) + 1)
    BY <2>1
  <2>5. ToSet(more) = ToSet(keySet) \union {string.value}
    BY <2>2, <2>3, <2>4 DEF ToSet
  <2> QED
    BY <2>2, <2>5 DEF more
<1>7. TotalsCounted'
  <2>1. keysTotal = KeyCount(index) + KeysIn(document.groups) + (Len(keySet) + left.keys)
        /\ propertiesTotal = PropertyCount(index) + EntriesIn(document.properties)
    BY <1>1, CountFacts DEF CountInv, ItemsCounted, TotalsCounted, InDocument
  <2>2. keysTotal = KeyCount(index) + KeysIn(document.groups) + (Len(keySet') + left'.keys)
    <3>1. Len(keySet) \in Nat /\ left.keys \in Nat
      BY <1>1, CountFacts
    <3>2. Len(keySet) + left.keys = Len(keySet') + left'.keys
      <4> PICK l, k : l = Len(keySet) /\ k = left.keys
        OBVIOUS
      <4>1. l \in Nat /\ k \in Nat /\ Len(keySet') = l + 1 /\ left'.keys = k - 1
        BY <1>5, <1>6, <3>1
      <4>2. l + k = (l + 1) + (k - 1)
        BY <4>1
      <4> QED
        BY <4>1, <4>2
    <3> QED
      BY <2>1, <3>2
  <2>3. propertiesTotal = PropertyCount(index) + EntriesIn(document.properties) + 0
    BY <1>1, <2>1, CountFacts
  <2> QED
    BY <2>2, <2>3 DEF TotalsCounted, InDocument
<1>8. SizesLimited'
  BY <1>5 DEF CountInv, ItemsCounted, SizesLimited, InDocument, inputVars
<1>9. StringsLimited'
  BY <1>2, <1>4, <1>6 DEF CountInv, ItemsCounted, StringsLimited, inputVars
<1> QED
  BY <1>5, <1>7, <1>8, <1>9 DEF ItemsCounted, LeftType

LEMMA GroupAddsItsStrings ==
    ASSUME document'.groups = Emplace(document.groups, group, keySet), document'.properties = document.properties
    PROVE  \A s \in DocumentStrings(document') : s \in DocumentStrings(document) \/ s = group \/ s \in ToSet(keySet)
BY StringsOfMoreGroups, ZenonT(60)

LEMMA CountEndGroup ==
    ASSUME CountInv, UseInv', EndGroup
    PROVE  ItemsCounted'
<1> DEFINE groups == Emplace(document.groups, group, keySet)
<1> SUFFICES ASSUME group \notin DOMAIN document.groups, pc = "key", left.keys = 0, pc' = "group",
                    document' = [document EXCEPT !.groups = Emplace(@, group, keySet)],
                    UNCHANGED <<inputVars, reader, left, keysTotal, propertiesTotal, group, keySet, index>>
             PROVE  ItemsCounted'
  BY CountRejected DEF EndGroup, budgetVars, resultVars
<1>1. CountInv
  OBVIOUS
<1>2. document' = [document EXCEPT !.groups = groups]
  OBVIOUS
<1>3. KeysIn(groups) = KeysIn(document.groups) + Len(keySet)
  BY <1>1, CountFacts, KeysInMore
<1>4. document'.groups = groups /\ document'.properties = document.properties
  <2> HIDE DEF groups
  <2> QED
    BY <1>1, <1>2, CountFacts
<1>5. \A s \in DocumentStrings(document') : s \in DocumentStrings(document) \/ s = group \/ s \in ToSet(keySet)
  <2>1. document'.groups = Emplace(document.groups, group, keySet) /\ document'.properties = document.properties
    BY <1>4
  <2> QED
    BY <2>1, GroupAddsItsStrings
<1> HIDE DEF groups
<1>6. TotalsCounted'
  <2>1. keysTotal = KeyCount(index) + KeysIn(document.groups) + (Len(keySet) + 0)
        /\ propertiesTotal = PropertyCount(index) + EntriesIn(document.properties)
    BY <1>1, CountFacts DEF CountInv, ItemsCounted, TotalsCounted, InDocument
  <2>2. keysTotal = KeyCount(index) + KeysIn(document'.groups) + 0
    BY <1>1, <1>3, <1>4, <2>1, CountFacts
  <2>3. propertiesTotal = PropertyCount(index) + EntriesIn(document'.properties) + 0
    BY <1>1, <1>4, <2>1, CountFacts
  <2> QED
    BY <2>2, <2>3 DEF TotalsCounted, InDocument
<1>7. SizesLimited'
  BY DEF CountInv, ItemsCounted, SizesLimited, InDocument, inputVars
<1>8. StringsLimited'
  BY <1>5 DEF CountInv, ItemsCounted, StringsLimited, inputVars
<1> QED
  BY <1>6, <1>7, <1>8 DEF CountInv, ItemsCounted, LeftType

LEMMA CountBeginProperties ==
    ASSUME CountInv, UseInv', BeginProperties
    PROVE  ItemsCounted'
<1> DEFINE maximum == Left(limits.properties, propertiesTotal)
           count == ReadCount(reader, maximum, EntryMinimum)
<1> SUFFICES ASSUME count.ok,
                    (pc = "group" /\ left.groups = 0) \/ (pc = "property" /\ left.properties = 0),
                    pc' = "property", reader' = count,
                    left' = [left EXCEPT !.properties = count.value],
                    propertiesTotal' = propertiesTotal + count.value,
                    UNCHANGED <<inputVars, keysTotal, document, group, keySet, index>>
             PROVE  ItemsCounted'
  BY CountRejected DEF BeginProperties, documentVars, resultVars
<1>1. CountInv
  OBVIOUS
<1>2. maximum \in Nat
  BY DEF CountInv, UseInv, PostingsInv, BudgetInv, LimitsOK, LimitNames, Left
<1> HIDE DEF maximum
<1>3. count.value \in Nat
  BY <1>1, <1>2, CountFacts, ReadCountAt
<1> HIDE DEF count
<1>4. left' \in [LeftNames -> Nat] /\ left'.documents = left.documents /\ left'.properties = count.value
  <2>1. left \in [LeftNames -> Nat]
    BY <1>1, CountFacts
  <2> QED
    BY <1>3, <2>1 DEF LeftNames
<1>5. TotalsCounted'
  <2>1. keysTotal = KeyCount(index) + KeysIn(document.groups) + 0
        /\ propertiesTotal = PropertyCount(index) + EntriesIn(document.properties)
    <3>1. propertiesTotal = PropertyCount(index) + EntriesIn(document.properties)
                              + (IF pc = "property" THEN left.properties ELSE 0)
      BY DEF CountInv, ItemsCounted, TotalsCounted, InDocument
    <3>2. propertiesTotal = PropertyCount(index) + EntriesIn(document.properties) + 0
      BY <3>1
    <3>3. propertiesTotal = PropertyCount(index) + EntriesIn(document.properties)
      BY <1>1, <3>2, CountFacts
    <3>4. keysTotal = KeyCount(index) + KeysIn(document.groups) + 0
      BY DEF CountInv, ItemsCounted, TotalsCounted, InDocument
    <3> QED
      BY <3>3, <3>4
  <2>2. propertiesTotal' = PropertyCount(index) + EntriesIn(document.properties) + left'.properties
    BY <1>4, <2>1
  <2> QED
    BY <2>1, <2>2 DEF TotalsCounted, InDocument
<1>6. SizesLimited'
  BY <1>4 DEF CountInv, ItemsCounted, SizesLimited, InDocument, inputVars
<1>7. StringsLimited'
  BY DEF CountInv, ItemsCounted, StringsLimited, inputVars
<1> QED
  BY <1>4, <1>5, <1>6, <1>7 DEF ItemsCounted, LeftType

LEMMA PropertyAddsItsStrings ==
    ASSUME IsProperties(document.properties), NEW type \in ToSet(PropertyKinds),
           NEW n, n \notin DOMAIN document.properties[type], NEW v,
           document'.groups = document.groups,
           document'.properties = [document.properties EXCEPT ![type] = Emplace(@, n, v)]
    PROVE  \A s \in DocumentStrings(document') :
             s \in DocumentStrings(document) \/ s = n \/ (type = "string" /\ s = v)
BY StringsOfMoreProperties, ZenonT(60)

LEMMA CountReadProperty ==
    ASSUME CountInv, UseInv', ReadProperty
    PROVE  ItemsCounted'
<1> DEFINE type == PropertyKinds[kind]
           name == ReadText(reader)
           value == ReadValue(name, type)
<1> SUFFICES ASSUME value.ok, name.value \notin DOMAIN document.properties[type], pc = "property", pc' = pc,
                    left.properties > 0, reader' = value, left' = [left EXCEPT !.properties = @ - 1],
                    document' = [document EXCEPT !.properties[type] = Emplace(@, name.value, value.value)],
                    UNCHANGED <<inputVars, keysTotal, propertiesTotal, group, keySet, index>>
             PROVE  ItemsCounted'
  BY CountRejected DEF ReadProperty, budgetVars, resultVars
<1>1. CountInv
  OBVIOUS
<1>2. IsAt(name) /\ (name.ok => Len(name.value) <= limits.string)
  BY <1>1, CountFacts, ReadTextAt, ReadTextLimited
<1>3. type \in ToSet(PropertyKinds)
  <2>1. kind \in 1..5
    BY DEF CountInv, UseInv, PostingsInv, BudgetInv
  <2> QED
    BY <2>1, KindsAre
<1> HIDE DEF name, type
<1>4. name.ok
  BY <1>1, <1>2, <1>3, CountFacts, ReadValueAt
<1>5. type = "string" => Len(value.value) <= limits.string
  BY <1>1, <1>2, CountFacts, ReadTextLimited DEF ReadValue
<1>6. PICK n, v : n = name.value /\ v = value.value
  OBVIOUS
<1> HIDE DEF value
<1>7. PICK more : more = [document.properties EXCEPT ![type] = Emplace(@, n, v)]
  OBVIOUS
<1>8. document'.groups = document.groups /\ document'.properties = more
  <2> PICK new, properties : new = Emplace(document.properties[type], n, v) /\ properties = document.properties
    OBVIOUS
  <2>1. document' = [document EXCEPT !.properties = [properties EXCEPT ![type] = new]]
    BY <1>6
  <2>2. document' = [document EXCEPT !.properties = more]
    BY <1>7, <2>1
  <2> QED
    BY <1>1, <2>2, CountFacts
<1>9. EntriesIn(more) = EntriesIn(document.properties) + 1
  <2>1. IsProperties(document.properties) /\ n \notin DOMAIN document.properties[type]
    BY <1>1, <1>6, CountFacts
  <2> QED
    BY <1>3, <1>7, <2>1, EntriesInMore
<1>10. \A s \in DocumentStrings(document') :
         s \in DocumentStrings(document) \/ s = n \/ (type = "string" /\ s = v)
  <2>1. IsProperties(document.properties) /\ n \notin DOMAIN document.properties[type]
    BY <1>1, <1>6, CountFacts
  <2>2. document'.groups = document.groups
    BY <1>8
  <2>3. document'.properties = [document.properties EXCEPT ![type] = Emplace(@, n, v)]
    BY <1>7, <1>8
  <2> QED
    BY <1>3, <2>1, <2>2, <2>3, PropertyAddsItsStrings, ZenonT(60)
<1>11. left' \in [LeftNames -> Nat] /\ left'.documents = left.documents
       /\ left'.properties = left.properties - 1
  <2>1. left \in [LeftNames -> Nat] /\ left.properties - 1 \in Nat
    <3>1. left \in [LeftNames -> Nat] /\ left.properties \in Nat
      BY <1>1, CountFacts
    <3>2. left.properties > 0
      OBVIOUS
    <3> QED
      BY <3>1, <3>2
  <2>2. left' = [left EXCEPT !.properties = left.properties - 1]
    OBVIOUS
  <2> QED
    BY <2>1, <2>2 DEF LeftNames
<1>12. TotalsCounted'
  <2>1. keysTotal = KeyCount(index) + KeysIn(document.groups) + 0
        /\ propertiesTotal = PropertyCount(index) + EntriesIn(document.properties) + left.properties
    BY <1>1, CountFacts DEF CountInv, ItemsCounted, TotalsCounted, InDocument
  <2>2. propertiesTotal = PropertyCount(index) + EntriesIn(document'.properties) + left'.properties
    <3> PICK a, b, c : a = PropertyCount(index) /\ b = EntriesIn(document.properties) /\ c = left.properties
      OBVIOUS
    <3>1. a \in Nat /\ b \in Nat /\ c \in Nat
      BY <1>1, CountFacts
    <3>2. a + b + c = a + (b + 1) + (c - 1)
      BY <3>1
    <3> QED
      BY <1>8, <1>9, <1>11, <2>1, <3>2
  <2> QED
    BY <1>8, <2>1, <2>2 DEF TotalsCounted, InDocument
<1>13. SizesLimited'
  BY <1>11 DEF CountInv, ItemsCounted, SizesLimited, InDocument, inputVars
<1>14. StringsLimited'
  <2>1. \A s \in DocumentStrings(document') : Len(s) <= limits.string
    BY <1>2, <1>4, <1>5, <1>6, <1>10 DEF CountInv, ItemsCounted, StringsLimited
  <2> QED
    BY <2>1 DEF CountInv, ItemsCounted, StringsLimited, inputVars
<1> QED
  BY <1>11, <1>12, <1>13, <1>14 DEF ItemsCounted, LeftType

LEMMA CountAddDocument ==
    ASSUME CountInv, UseInv', AddDocument
    PROVE  ItemsCounted'
<1> DEFINE docs == Emplace(index.docs, id, document)
<1>1. /\ pc = "property" /\ left.properties = 0 /\ pc' = "document"
      /\ index' = [index EXCEPT !.docs = docs]
      /\ UNCHANGED <<inputVars, reader, left, keysTotal, propertiesTotal, document, group, keySet>>
  BY DEF AddDocument, budgetVars, documentVars
<1>2. CountInv
  OBVIOUS
<1>3. /\ id \notin DOMAIN index.docs /\ IsIndex(index) /\ IsIndex(index')
      /\ index = [implicit |-> index.implicit, docs |-> index.docs]
  BY <1>1 DEF CountInv, UseInv, PostingsInv, TypeInv
<1>4. DOMAIN docs = DOMAIN index.docs \union {id} /\ docs[id] = document
      /\ \A d \in DOMAIN index.docs : docs[d] = index.docs[d]
  BY <1>3 DEF Emplace
<1>5. index'.docs = docs /\ index'.implicit = index.implicit
  <2> HIDE DEF docs
  <2> QED
    BY <1>1, <1>3
<1>6. /\ KeyCount(index') = KeyCount(index) + KeysIn(document.groups)
      /\ PropertyCount(index') = PropertyCount(index) + EntriesIn(document.properties)
  <2> PICK i, more, d, doc : i = index /\ more = index' /\ d = id /\ doc = document
    OBVIOUS
  <2>1. IsIndex(i) /\ d \notin DOMAIN i.docs /\ IsIndex(more)
    BY <1>3
  <2>2. more.docs = Emplace(i.docs, d, doc)
    BY <1>5
  <2>3. /\ KeyCount(more) = KeyCount(i) + KeysIn(doc.groups)
        /\ PropertyCount(more) = PropertyCount(i) + EntriesIn(doc.properties)
    BY <2>1, <2>2, CountsMore
  <2> QED
    BY <2>3
<1> HIDE DEF docs
<1>7. TotalsCounted'
  <2>1. /\ keysTotal = KeyCount(index) + KeysIn(document.groups) + 0
        /\ propertiesTotal = PropertyCount(index) + EntriesIn(document.properties) + 0
    BY <1>1 DEF CountInv, ItemsCounted, TotalsCounted, InDocument
  <2>2. keysTotal' = KeyCount(index') + 0 + 0 /\ propertiesTotal' = PropertyCount(index') + 0 + 0
    BY <1>1, <1>2, <1>6, <2>1, CountFacts
  <2> QED
    BY <1>1, <2>2 DEF TotalsCounted, InDocument
<1>8. SizesLimited'
  <2>1. Cardinality(DOMAIN index'.docs) = Cardinality(DOMAIN index.docs) + 1
    BY <1>3, <1>4, <1>5, FS_AddElement DEF IsIndex
  <2>2. HeaderBytes + Len(payload) <= limits.bytes
        /\ Cardinality(DOMAIN index.docs) + left.documents + 1 <= limits.documents
    BY <1>1 DEF CountInv, ItemsCounted, SizesLimited, InDocument
  <2>3. Cardinality(DOMAIN index'.docs) + left.documents + 0 <= limits.documents
    <3> PICK n, l : n = Cardinality(DOMAIN index.docs) /\ l = left.documents
      OBVIOUS
    <3>1. n \in Nat /\ l \in Nat /\ limits.documents \in Nat
      BY <1>2, CountFacts
    <3>2. (n + 1) + l + 0 <= limits.documents
      BY <2>2, <3>1
    <3> QED
      BY <2>1, <3>2
  <2> QED
    BY <1>1, <2>2, <2>3 DEF SizesLimited, InDocument, inputVars
<1>9. StringsLimited'
  <2>1. StringsOf(index') \subseteq StringsOf(index) \union DocumentStrings(document)
    <3>1. StringsOf(index) = {index.implicit} \union UNION {DocumentStrings(index.docs[d]) : d \in DOMAIN index.docs}
      BY StringsAre
    <3>2. StringsOf(index') = {index'.implicit} \union UNION {DocumentStrings(index'.docs[d]) : d \in DOMAIN index'.docs}
      BY StringsAre
    <3> QED
      BY <1>4, <1>5, <3>1, <3>2
  <2> QED
    BY <1>1, <2>1 DEF CountInv, ItemsCounted, StringsLimited, inputVars
<1> QED
  BY <1>1, <1>7, <1>8, <1>9 DEF CountInv, ItemsCounted, LeftType

LEMMA CountFinish ==
    ASSUME CountInv, Finish
    PROVE  ItemsCounted'
<1> SUFFICES ASSUME pc = "document", pc' = "decoded",
                    UNCHANGED <<inputVars, reader, left, keysTotal, propertiesTotal, document, group, keySet, index>>
             PROVE  ItemsCounted'
  BY CountRejected DEF Finish, budgetVars, documentVars, resultVars
<1> QED
  BY DEF CountInv, ItemsCounted, LeftType, TotalsCounted, SizesLimited, StringsLimited, InDocument, inputVars

LEMMA CountInit == Init => CountInv
<1> SUFFICES ASSUME Init PROVE ItemsCounted
  BY UseInit DEF CountInv
<1>1. UseInv
  BY UseInit
<1>2. IsIndex(index) /\ DOMAIN index.docs = {} /\ index.implicit = <<>> /\ LimitsOK
  BY <1>1 DEF UseInv, PostingsInv, BudgetInv, TypeInv, Init
<1>3. KeyCount(index) = 0 /\ PropertyCount(index) = 0
  BY <1>2, CountsType
<1>4. StringsLimited
  <2>1. StringsOf(index) = {<<>>} /\ ToSet(keySet) = {} /\ group = <<>> /\ DocumentStrings(document) = {}
    BY <1>2, StringsAre, NoStrings DEF Init, ToSet
  <2>2. Len(<<>>) <= limits.string
    BY <1>2 DEF LimitsOK, LimitNames
  <2> QED
    BY <2>1, <2>2 DEF StringsLimited
<1>5. reader.ok /\ LeftType
  BY DEF Init, LeftType, LeftNames
<1>6. pc = "header" /\ TotalsCounted
  BY <1>3 DEF Init, TotalsCounted, InDocument
<1> QED
  BY <1>4, <1>5, <1>6 DEF ItemsCounted

LEMMA CountStep == CountInv /\ [Next]_vars => CountInv'
<1> SUFFICES ASSUME CountInv, [Next]_vars PROVE CountInv'
  OBVIOUS
<1>1. UseInv'
  BY UseStep DEF CountInv
<1>2. CASE UNCHANGED vars
  BY <1>1, <1>2, CountSame DEF CountInv
<1>3. CASE Next
  BY <1>1, <1>3, CountChange, CountReadIndex, CountBeginDocument, CountBeginGroup, CountReadKey, CountEndGroup,
     CountBeginProperties, CountReadProperty, CountAddDocument, CountFinish DEF Next, CountInv
<1> QED
  BY <1>2, <1>3

\* At the end, every limit was respected.
LEMMA AcceptedIsWithin ==
    ASSUME CountInv, pc = "decoded"
    PROVE  WithinLimits(index)
<1>1. UseInv /\ ItemsCounted /\ TypeInv /\ PostingsInv /\ BudgetInv
  BY DEF CountInv, UseInv, PostingsInv
<1>2. TotalsCounted /\ SizesLimited /\ StringsLimited
  BY <1>1 DEF ItemsCounted
<1>3. Len(Payload(index)) = Len(payload)
  <2>1. "position" \in Measures
    BY DEF Measures
  <2>2. Used("position", reader) = IndexUse("position", index) + NamesUse("position", reverseIndices)
    BY <1>1, <2>1 DEF UseInv, AllCounted, Counted, CountedAt
  <2>3. NamesUse("position", reverseIndices) = 0 /\ IndexUse("position", index) \in Nat
    BY <1>1, <2>1, UseTypes DEF NamesUse
  <2>4. Len(Payload(index)) = IndexUse("position", index)
    BY <1>1, PayloadLength DEF TypeInv
  <2>5. Used("position", reader) = Len(payload)
    BY <1>1 DEF TypeInv
  <2> QED
    BY <2>2, <2>3, <2>4, <2>5
<1>4. RetainedText(index) = reader.charged
  <2>1. "charged" \in Measures
    BY DEF Measures
  <2>2. Used("charged", reader) = IndexUse("charged", index) + NamesUse("charged", reverseIndices)
    BY <1>1, <2>1 DEF UseInv, AllCounted, Counted, CountedAt
  <2>3. reverseIndices = GroupsNamed(index) /\ IsIndex(index)
        /\ IsFiniteSet(GroupsNamed(index)) /\ GroupsNamed(index) \subseteq Text
    BY <1>1 DEF PostingsInv, PostingsMatchDocuments, TypeInv
  <2>4. RetainedText(index) = IndexUse("charged", index) + NamesUse("charged", GroupsNamed(index))
    BY <2>3, RetainedUse
  <2> QED
    BY <2>2, <2>3, <2>4 DEF Used
<1>5. KeyCount(index) <= limits.keys /\ PropertyCount(index) <= limits.properties
  BY <1>1, <1>2, CountFacts DEF TotalsCounted, InDocument, BudgetInv
<1>6. Cardinality(DOMAIN index.docs) <= limits.documents
  <2> PICK n, l, m : n = Cardinality(DOMAIN index.docs) /\ l = left.documents /\ m = limits.documents
    OBVIOUS
  <2>1. n \in Nat /\ l \in Nat /\ m \in Nat
    BY CountFacts
  <2>2. n + l + 0 <= m
    BY <1>2 DEF SizesLimited, InDocument
  <2> QED
    BY <2>1, <2>2
<1>7. \A s \in StringsOf(index) : Len(s) <= limits.string
  BY <1>2 DEF StringsLimited
<1>8. RetainedText(index) <= limits.decoded
  BY <1>1, <1>4 DEF BudgetInv, InBudget
<1> QED
  BY <1>2, <1>3, <1>5, <1>6, <1>7, <1>8 DEF WithinLimits, SizesLimited

\* An index as it is loaded has the sizes of the index that was saved.
LEMMA KeptIsWithin ==
    ASSUME NEW i, IsIndex(i), \A d \in DOMAIN i.docs : IdsFit(i.docs[d].groups), NEW j, j = KeptIndex(i)
    PROVE  /\ Payload(j) = Payload(i) /\ GroupsNamed(j) = GroupsNamed(i) /\ StringsOf(j) = StringsOf(i)
           /\ KeyCount(j) = KeyCount(i) /\ PropertyCount(j) = PropertyCount(i)
           /\ RetainedText(j) = RetainedText(i)
           /\ WithinLimits(j) <=> WithinLimits(i)
<1> PICK S : S = DOMAIN i.docs
  OBVIOUS
<1>1. /\ IsIndex(j) /\ \A d \in DOMAIN j.docs : IdsFit(j.docs[d].groups)
      /\ j.implicit = i.implicit /\ DOMAIN j.docs = S
      /\ \A d \in S : j.docs[d] = Kept(i.docs[d])
  BY KeptIsIndex
<1>2. \A d \in S : IsDocument(i.docs[d]) /\ IdsFit(i.docs[d].groups) /\ IsGroups(i.docs[d].groups)
  BY DocumentParts DEF IsIndex
<1>3. Payload(j) = Payload(i)
  BY <1>1, IndexIsWrittenAlike
<1>4. \A d \in S : /\ KeysIn(j.docs[d].groups) = KeysIn(i.docs[d].groups)
                   /\ j.docs[d].properties = i.docs[d].properties
                   /\ DOMAIN j.docs[d].groups = DOMAIN i.docs[d].groups
                   /\ DocumentStrings(j.docs[d]) = DocumentStrings(i.docs[d])
  BY <1>1, <1>2, KeptSize, KeptIsDocument
<1>5. GroupsNamed(j) = GroupsNamed(i)
  BY <1>1, <1>4 DEF GroupsNamed
<1>6. StringsOf(j) = StringsOf(i)
  <2>1. {DocumentStrings(j.docs[d]) : d \in DOMAIN j.docs} = {DocumentStrings(i.docs[d]) : d \in DOMAIN i.docs}
    BY <1>1, <1>4
  <2> QED
    BY <1>1, <2>1, StringsAre
<1>7. KeyCount(j) = KeyCount(i) /\ PropertyCount(j) = PropertyCount(i)
  <2>1. [d \in DOMAIN i.docs |-> KeysIn(i.docs[d].groups)] = [d \in DOMAIN j.docs |-> KeysIn(j.docs[d].groups)]
    BY <1>1, <1>4
  <2>2. [d \in DOMAIN i.docs |-> EntriesIn(i.docs[d].properties)]
          = [d \in DOMAIN j.docs |-> EntriesIn(j.docs[d].properties)]
    BY <1>1, <1>4
  <2> QED
    BY <1>1, <2>1, <2>2, CountsType
<1>8. RetainedText(j) = RetainedText(i)
  <2> PICK m : m = "charged"
    OBVIOUS
  <2>1. \A d \in S : DocumentUse(m, j.docs[d]) = DocumentUse(m, i.docs[d])
    BY <1>1, <1>2, KeptSize DEF Measures
  <2>2. [d \in DOMAIN j.docs |-> DocumentUse(m, j.docs[d])] = [d \in DOMAIN i.docs |-> DocumentUse(m, i.docs[d])]
    BY <1>1, <2>1
  <2>3. IndexUse(m, j) = IndexUse(m, i)
    BY <1>1, <2>2 DEF IndexUse, SumOver
  <2>4. IsFiniteSet(GroupsNamed(i)) /\ GroupsNamed(i) \in SUBSET Text
    BY NamedGroups
  <2> QED
    BY <1>1, <1>5, <2>3, <2>4, RetainedUse
<1>9. WithinLimits(j) <=> WithinLimits(i)
  BY <1>1, <1>3, <1>6, <1>7, <1>8 DEF WithinLimits
<1> QED
  BY <1>3, <1>5, <1>6, <1>7, <1>8, <1>9

-----------------------------------------------------------------------------
(* What is read of an index that is within the limits stays within them    *)

\* What a load that should succeed is about.
Loadable == ~changed /\ ~HasEmptyGroup(source) /\ WithinLimits(source)

\* What three of the limits say of the saved index.
LEMMA LimitsRead ==
    ASSUME WithinLimits(source)
    PROVE  /\ HeaderBytes + Len(Payload(source)) <= limits.bytes
           /\ SavedDocuments <= limits.documents
           /\ \A s \in StringsOf(source) : Len(s) <= limits.string
BY DEF WithinLimits, SavedDocuments

\* The documents before the nth are a part of what loading makes.
LEMMA IndexIsPart ==
    ASSUME BackInv, ~changed, NEW n \in 1..SavedDocuments, IndexBack(n - 1),
           NEW d, d = Ascending(DOMAIN source.docs)[n], NEW j, j = KeptIndex(source)
    PROVE  /\ IsIndex(j) /\ IsIndex(index) /\ d \in DOMAIN source.docs
           /\ index.implicit = j.implicit
           /\ DOMAIN index.docs \subseteq DOMAIN j.docs
           /\ \A e \in DOMAIN index.docs : index.docs[e] = j.docs[e]
           /\ d \in DOMAIN j.docs /\ d \notin DOMAIN index.docs
           /\ j.docs[d] = Kept(source.docs[d])
           /\ DOMAIN index.docs = Firsts(Ascending(DOMAIN source.docs), n - 1)
<1> PICK S, seq, F : S = DOMAIN source.docs /\ seq = Ascending(S) /\ F = Firsts(seq, n - 1)
  OBVIOUS
<1>1. /\ IsIndex(source) /\ \A e \in S : IdsFit(source.docs[e].groups)
      /\ SavedDocuments \in Nat /\ Lists(seq, S) /\ UseInv
      /\ seq \in [1..SavedDocuments -> S]
  BY BackFacts
<1>2. /\ IsIndex(j) /\ j.implicit = source.implicit /\ DOMAIN j.docs = S
      /\ \A e \in S : j.docs[e] = Kept(source.docs[e])
  BY <1>1, KeptIsIndex
<1>3. d \in S /\ d \notin F /\ F \subseteq S
  <2>1. Cardinality(S) \in Nat /\ n \in 1..Cardinality(S)
    BY <1>1 DEF SavedDocuments
  <2>2. seq[n] \in S /\ seq[n] \notin Firsts(seq, n - 1)
    BY <1>1, <2>1, FirstsMore
  <2>3. \A i \in 1..(n - 1) : i \in 1..SavedDocuments
    BY <1>1
  <2>4. F \subseteq S
    BY <1>1, <2>3 DEF Firsts
  <2> QED
    BY <2>2, <2>4
<1>4. index.implicit = source.implicit /\ index.docs = [e \in F |-> Kept(source.docs[e])]
  BY DEF IndexBack
<1>5. DOMAIN index.docs = F /\ \A e \in F : index.docs[e] = Kept(source.docs[e])
  BY <1>4
<1>6. IsIndex(index)
  BY <1>1 DEF UseInv, TypeInv
<1> QED
  BY <1>2, <1>3, <1>4, <1>5, <1>6

\* So are its strings.
LEMMA StringsFit ==
    ASSUME WithinLimits(source), NEW d \in DOMAIN source.docs
    PROVE  \A s \in DocumentStrings(source.docs[d]) \union {source.implicit} : Len(s) <= limits.string
<1>1. DocumentStrings(source.docs[d]) \subseteq StringsOf(source) /\ source.implicit \in StringsOf(source)
  <2> PICK S : S = {DocumentStrings(source.docs[e]) : e \in DOMAIN source.docs}
    OBVIOUS
  <2>1. StringsOf(source) = {source.implicit} \union UNION S
    BY StringsAre
  <2>2. DocumentStrings(source.docs[d]) \in S
    OBVIOUS
  <2> QED
    BY <2>1, <2>2
<1> QED
  BY <1>1, LimitsRead

\* A part of the nth document is charged and counted within the limits.
LEMMA RoomFor ==
    ASSUME BackInv, ~changed, WithinLimits(source), NEW n \in 1..SavedDocuments, IndexBack(n - 1),
           NEW d, d = Ascending(DOMAIN source.docs)[n], NEW doc, doc = source.docs[d],
           NEW part, IsDocument(part), PartOfGroups(part.groups, Kept(doc).groups),
           PartOfProperties(part.properties, doc.properties)
    PROVE  /\ IndexUse("charged", index) + GroupsUse("charged", part.groups)
                + PropertiesUse("charged", part.properties)
                + NamesUse("charged", reverseIndices \union DOMAIN part.groups) <= limits.decoded
           /\ KeyCount(index) + KeysIn(part.groups) <= limits.keys
           /\ PropertyCount(index) + EntriesIn(part.properties) <= limits.properties
<1> PICK m, j, whole : m = "charged" /\ j = KeptIndex(source) /\ whole = Kept(doc)
  OBVIOUS
<1>1. /\ IsIndex(j) /\ IsIndex(index) /\ d \in DOMAIN source.docs
      /\ index.implicit = j.implicit /\ DOMAIN index.docs \subseteq DOMAIN j.docs
      /\ \A e \in DOMAIN index.docs : index.docs[e] = j.docs[e]
      /\ d \in DOMAIN j.docs /\ d \notin DOMAIN index.docs /\ j.docs[d] = whole
  BY IndexIsPart
<1>2. IsIndex(source) /\ (\A e \in DOMAIN source.docs : IdsFit(source.docs[e].groups)) /\ UseInv
  BY BackFacts
<1>3. WithinLimits(j)
  BY <1>2, KeptIsWithin
<1>4. m \in Measures
  BY DEF Measures
<1>5. /\ IsDocument(whole) /\ whole.properties = doc.properties
  BY <1>1, <1>2, KeptIsDocument DEF IsIndex
<1>6. /\ IsGroups(whole.groups) /\ IsProperties(whole.properties)
      /\ IsGroups(part.groups) /\ IsProperties(part.properties)
  BY <1>5, DocumentParts
<1>7. /\ GroupsUse(m, part.groups) <= GroupsUse(m, whole.groups) /\ KeysIn(part.groups) <= KeysIn(whole.groups)
      /\ PropertiesUse(m, part.properties) <= PropertiesUse(m, whole.properties)
      /\ EntriesIn(part.properties) <= EntriesIn(whole.properties)
  BY <1>4, <1>5, <1>6, GroupsPart, PropertiesPart
<1>8. /\ IndexUse(m, index) + DocumentUse(m, whole) <= IndexUse(m, j)
      /\ KeyCount(index) + KeysIn(whole.groups) <= KeyCount(j)
      /\ PropertyCount(index) + EntriesIn(whole.properties) <= PropertyCount(j)
  BY <1>1, <1>4, IndexRoom
<1>9. DocumentUse(m, whole) = GroupsUse(m, whole.groups) + PropertiesUse(m, whole.properties)
  <2>1. GroupsUse(m, whole.groups) \in Nat /\ PropertiesUse(m, whole.properties) \in Nat /\ Word(m) = 0
    BY <1>4, <1>6, GroupsUseType, PropertiesUseType DEF Word
  <2> QED
    BY <2>1 DEF DocumentUse
<1>10. GroupsNamed(j) \in SUBSET Text /\ IsFiniteSet(GroupsNamed(j))
  BY <1>1, NamedGroups
<1>11. reverseIndices \union DOMAIN part.groups \subseteq GroupsNamed(j)
  <2>1. reverseIndices = GroupsNamed(index)
    BY <1>2 DEF UseInv, PostingsInv, PostingsMatchDocuments
  <2>2. GroupsNamed(index) \subseteq GroupsNamed(j)
    BY <1>1 DEF GroupsNamed
  <2>3. DOMAIN part.groups \subseteq GroupsNamed(j)
    BY <1>1 DEF GroupsNamed, PartOfGroups
  <2> QED
    BY <2>1, <2>2, <2>3
<1>12. NamesUse(m, reverseIndices \union DOMAIN part.groups) <= NamesUse(m, GroupsNamed(j))
  BY <1>4, <1>10, <1>11, NamesPart
<1>13. IndexUse(m, j) + NamesUse(m, GroupsNamed(j)) <= limits.decoded
  BY <1>1, <1>3, <1>10, RetainedUse DEF WithinLimits
<1>14. KeyCount(j) <= limits.keys /\ PropertyCount(j) <= limits.properties
  BY <1>3 DEF WithinLimits
<1>15. /\ IndexUse(m, index) \in Nat /\ IndexUse(m, j) \in Nat
       /\ GroupsUse(m, part.groups) \in Nat /\ GroupsUse(m, whole.groups) \in Nat
       /\ PropertiesUse(m, part.properties) \in Nat /\ PropertiesUse(m, whole.properties) \in Nat
       /\ NamesUse(m, reverseIndices \union DOMAIN part.groups) \in Nat
       /\ NamesUse(m, GroupsNamed(j)) \in Nat /\ limits.decoded \in Nat
  <2>1. LimitsOK /\ reverseIndices \union DOMAIN part.groups \in SUBSET Text
        /\ IsFiniteSet(reverseIndices \union DOMAIN part.groups)
    BY <1>2, <1>10, <1>11, UseReader, FS_Subset
  <2>2. limits.decoded \in Nat
    BY <2>1 DEF LimitsOK, LimitNames
  <2> QED
    BY <1>1, <1>4, <1>6, <1>10, <2>1, <2>2, IndexUseType, GroupsUseType, PropertiesUseType, NamesUseType
<1>16. /\ KeysIn(part.groups) \in Nat /\ KeysIn(whole.groups) \in Nat
       /\ EntriesIn(part.properties) \in Nat /\ EntriesIn(whole.properties) \in Nat
       /\ KeyCount(index) \in Nat /\ KeyCount(j) \in Nat
       /\ PropertyCount(index) \in Nat /\ PropertyCount(j) \in Nat
       /\ limits.keys \in Nat /\ limits.properties \in Nat
  <2>1. limits.keys \in Nat /\ limits.properties \in Nat
    <3>1. LimitsOK
      BY <1>2, UseReader
    <3> QED
      BY <3>1 DEF LimitsOK, LimitNames
  <2>2. /\ KeysIn(part.groups) \in Nat /\ KeysIn(whole.groups) \in Nat
        /\ EntriesIn(part.properties) \in Nat /\ EntriesIn(whole.properties) \in Nat
    BY <1>6, KeysInType, EntriesInType
  <2>3. /\ KeyCount(index) \in Nat /\ KeyCount(j) \in Nat
        /\ PropertyCount(index) \in Nat /\ PropertyCount(j) \in Nat
    BY <1>1, CountsType
  <2> QED
    BY <2>1, <2>2, <2>3
<1>17. IndexUse(m, index) + GroupsUse(m, part.groups) + PropertiesUse(m, part.properties)
         + NamesUse(m, reverseIndices \union DOMAIN part.groups) <= limits.decoded
  <2> PICK a, b, c, e, f, h, i, k, l :
        /\ a = IndexUse(m, index) /\ b = GroupsUse(m, part.groups) /\ c = PropertiesUse(m, part.properties)
        /\ e = NamesUse(m, reverseIndices \union DOMAIN part.groups)
        /\ f = GroupsUse(m, whole.groups) /\ h = PropertiesUse(m, whole.properties)
        /\ i = IndexUse(m, j) /\ k = NamesUse(m, GroupsNamed(j)) /\ l = limits.decoded
    OBVIOUS
  <2>1. /\ a \in Nat /\ b \in Nat /\ c \in Nat /\ e \in Nat /\ f \in Nat /\ h \in Nat /\ i \in Nat
        /\ k \in Nat /\ l \in Nat
    BY <1>15
  <2>2. b <= f /\ c <= h /\ a + (f + h) <= i /\ e <= k /\ i + k <= l
    BY <1>7, <1>8, <1>9, <1>12, <1>13
  <2>3. a + b + c + e <= l
    BY <2>1, <2>2
  <2> QED
    BY <2>3
<1>18. KeyCount(index) + KeysIn(part.groups) <= limits.keys
  BY <1>7, <1>8, <1>14, <1>16
<1>19. PropertyCount(index) + EntriesIn(part.properties) <= limits.properties
  BY <1>7, <1>8, <1>14, <1>16
<1> QED
  BY <1>17, <1>18, <1>19

\* No budget wraps around that has room.
LEMMA RoomIsLeft ==
    ASSUME NEW limit \in Nat, NEW used \in Nat, NEW n \in Nat, used + n <= limit
    PROVE  n <= Left(limit, used) /\ n \in 0..Left(limit, used)
BY DEF Left

\* The first keys of the next group make it a part of the document's groups.
LEMMA GroupsAreAPart ==
    ASSUME NEW doc, IsDocument(doc), IdsFit(doc.groups), NEW n \in 1..Cardinality(DOMAIN doc.groups),
           GroupsBack(doc, n - 1), NEW g, g = SortedNames(DOMAIN doc.groups)[n],
           NEW k \in 0..Len(doc.groups[g]), NEW keys, keys = [j \in 1..k |-> SortedKeys(doc.groups[g])[j]]
    PROVE  /\ g \in DOMAIN doc.groups /\ g \in Text /\ g \notin DOMAIN document.groups
           /\ keys \in Seq(Text) /\ Len(keys) = k
           /\ PartOfGroups(Emplace(document.groups, g, keys), Kept(doc).groups)
<1> PICK S, names, F, more, strings :
      /\ S = DOMAIN doc.groups /\ names = SortedNames(S) /\ F = Firsts(names, n - 1)
      /\ more = Emplace(document.groups, g, keys) /\ strings = doc.groups[g]
  OBVIOUS
<1>1. Cardinality(S) \in Nat /\ Lists(names, S)
  BY GroupsCode
<1>2. g \in S /\ g \notin F /\ F \subseteq S
  <2>1. names[n] \in S /\ names[n] \notin Firsts(names, n - 1)
    BY <1>1, FirstsMore
  <2>2. \A i \in 1..(n - 1) : i \in 1..Cardinality(S)
    BY <1>1
  <2>3. F \subseteq S
    BY <1>1, <2>2 DEF Firsts, Lists
  <2> QED
    BY <2>1, <2>3
<1>3. g \in Text /\ strings \in Seq(Text)
  BY GroupFacts
<1>4. /\ SortedKeys(strings) \in Seq(Text) /\ Len(SortedKeys(strings)) = Len(strings) /\ Len(strings) \in Nat
      /\ DOMAIN SortedKeys(strings) = 1..Len(strings)
  BY <1>3, SortedKeysType
<1>5. k \in Nat /\ \A j \in 1..k : j \in 1..Len(strings)
  BY <1>4
<1>6. keys \in Seq(Text) /\ Len(keys) = k
  <2>1. \A j \in 1..k : SortedKeys(strings)[j] \in Text
    BY <1>4, <1>5
  <2>2. keys = [j \in 1..k |-> SortedKeys(strings)[j]]
    OBVIOUS
  <2> QED
    BY <1>5, <2>1, <2>2
<1>7. document.groups = [h \in F |-> SortedKeys(doc.groups[h])]
  BY DEF GroupsBack
<1>8. DOMAIN document.groups = F /\ \A h \in F : document.groups[h] = SortedKeys(doc.groups[h])
  BY <1>7
<1>9. DOMAIN more = F \union {g} /\ more[g] = keys /\ \A h \in F : more[h] = SortedKeys(doc.groups[h])
  BY <1>2, <1>8 DEF Emplace
<1>10. DOMAIN Kept(doc).groups = S /\ \A h \in S : Kept(doc).groups[h] = SortedKeys(doc.groups[h])
  BY DEF Kept
<1>11. \A h \in S : Len(SortedKeys(doc.groups[h])) \in Nat
  <2> TAKE h \in S
  <2>1. doc.groups[h] \in Seq(Text)
    BY DEF IsDocument
  <2> QED
    BY <2>1, SortedKeysType
<1>12. PartOfGroups(more, Kept(doc).groups)
  <2>1. DOMAIN more \subseteq DOMAIN Kept(doc).groups
    BY <1>2, <1>9, <1>10
  <2>2. ASSUME NEW h \in DOMAIN more
        PROVE  /\ Len(more[h]) <= Len(Kept(doc).groups[h])
               /\ \A i \in 1..Len(more[h]) : more[h][i] = Kept(doc).groups[h][i]
    <3>1. CASE h \in F
      <4>1. more[h] = Kept(doc).groups[h] /\ Len(Kept(doc).groups[h]) \in Nat
        BY <1>2, <1>9, <1>10, <1>11, <3>1
      <4> QED
        BY <4>1
    <3>2. CASE h = g
      <4>1. more[h] = keys /\ Kept(doc).groups[h] = SortedKeys(strings)
        BY <1>2, <1>9, <1>10, <3>2
      <4>2. \A i \in 1..k : keys[i] = SortedKeys(strings)[i]
        OBVIOUS
      <4>3. Len(more[h]) = k /\ Len(Kept(doc).groups[h]) = Len(strings)
        BY <1>4, <1>6, <4>1
      <4>4. k <= Len(strings)
        BY <1>4
      <4> QED
        BY <4>1, <4>2, <4>3, <4>4
    <3> QED
      BY <1>9, <3>1, <3>2
  <2> QED
    BY <2>1, <2>2 DEF PartOfGroups
<1> QED
  BY <1>2, <1>3, <1>6, <1>8, <1>12

\* While groups are read, no property is.
LEMMA NoPropertyYet ==
    ASSUME NEW doc, PropertiesBack(doc, 0, 0)
    PROVE  \A type \in ToSet(PropertyKinds) : DOMAIN document.properties[type] = {}
<1>1. \A j \in 1..5 : NamesBack(doc, 0, 0, j) = {}
  BY DEF NamesBack
<1>2. \A j \in 1..5 : DOMAIN document.properties[PropertyKinds[j]] = {}
  BY <1>1 DEF PropertiesBack
<1>3. \A type \in ToSet(PropertyKinds) : \E j \in 1..5 : type = PropertyKinds[j]
  BY KindsAre DEF ToSet
<1> QED
  BY <1>2, <1>3

\* The next group, as far as its keys are read, stays within the limits.
LEMMA GroupRoom ==
    ASSUME BackInv, ~changed, WithinLimits(source), NEW at, NEW doc, NEW after, IsCurrent(at, doc, after),
           NEW n \in 1..Cardinality(DOMAIN doc.groups), GroupsBack(doc, n - 1), PropertiesBack(doc, 0, 0),
           NEW g, g = SortedNames(DOMAIN doc.groups)[n],
           NEW k \in 0..Len(doc.groups[g]), NEW keys, keys = [j \in 1..k |-> SortedKeys(doc.groups[g])[j]]
    PROVE  /\ IndexUse("charged", index) + PartUse("charged", document, kind)
                + NamesUse("charged", reverseIndices \union DOMAIN document.groups)
                + GroupUse("charged", g, keys) + NewNameUse("charged", g, reverseIndices) <= limits.decoded
           /\ KeyCount(index) + KeysIn(document.groups) + k <= limits.keys
<1> PICK m, more, part : /\ m = "charged" /\ more = Emplace(document.groups, g, keys)
                         /\ part = [groups |-> more, properties |-> document.properties]
  OBVIOUS
<1>1. m \in Measures
  BY DEF Measures
<1>2. /\ at \in 1..SavedDocuments /\ id \in DOMAIN source.docs /\ doc = source.docs[id]
      /\ IsDocument(doc) /\ IdsFit(doc.groups) /\ id = Ascending(DOMAIN source.docs)[at] /\ IndexBack(at - 1)
  BY CurrentFacts DEF IsCurrent
<1>3. /\ g \in DOMAIN doc.groups /\ g \in Text /\ g \notin DOMAIN document.groups
      /\ keys \in Seq(Text) /\ Len(keys) = k /\ PartOfGroups(more, Kept(doc).groups)
  <2>1. /\ g \in DOMAIN doc.groups /\ g \in Text /\ g \notin DOMAIN document.groups
        /\ keys \in Seq(Text) /\ Len(keys) = k
        /\ PartOfGroups(Emplace(document.groups, g, keys), Kept(doc).groups)
    <3>1. IsDocument(doc) /\ IdsFit(doc.groups)
      BY <1>2
    <3> QED
      BY <3>1, GroupsAreAPart
  <2> QED
    BY <2>1
<1>4. UseInv
  BY BackFacts
<1>5. /\ IsDocument(document) /\ IsFiniteSet(reverseIndices) /\ reverseIndices \in SUBSET Text
      /\ kind \in 0..5
  BY <1>4, UseReader DEF UseInv, TypeInv
<1>6. IsGroups(document.groups) /\ IsProperties(document.properties)
  BY <1>5, DocumentParts
<1>7. /\ IsGroups(more)
      /\ GroupsUse(m, more) = GroupsUse(m, document.groups) + GroupUse(m, g, keys)
      /\ KeysIn(more) = KeysIn(document.groups) + k
  BY <1>1, <1>3, <1>6, GroupsUseMore, KeysInMore
<1>8. IsDocument(part)
  BY <1>6, <1>7, DocumentParts
<1>9. PartOfProperties(part.properties, doc.properties)
  <2>1. \A type \in ToSet(PropertyKinds) : DOMAIN document.properties[type] = {}
    BY NoPropertyYet
  <2> QED
    BY <2>1 DEF PartOfProperties
<1>10. /\ IndexUse(m, index) + GroupsUse(m, more) + PropertiesUse(m, document.properties)
            + NamesUse(m, reverseIndices \union DOMAIN more) <= limits.decoded
       /\ KeyCount(index) + KeysIn(more) <= limits.keys
  <2>1. part.groups = more /\ part.properties = document.properties
    OBVIOUS
  <2> QED
    BY <1>2, <1>3, <1>8, <1>9, <2>1, RoomFor
<1>11. NamesUse(m, reverseIndices \union DOMAIN more)
         = NamesUse(m, reverseIndices \union DOMAIN document.groups) + NewNameUse(m, g, reverseIndices)
  <2>1. DOMAIN document.groups \in SUBSET Text /\ IsFiniteSet(DOMAIN document.groups)
    BY <1>6 DEF IsGroups
  <2>2. reverseIndices \union DOMAIN more = reverseIndices \union DOMAIN document.groups \union {g}
    BY DEF Emplace
  <2>3. NamesUse(m, reverseIndices \union DOMAIN document.groups \union {g})
          = NamesUse(m, reverseIndices \union DOMAIN document.groups) + NewNameUse(m, g, reverseIndices)
    BY <1>1, <1>3, <1>5, <2>1, NewNameIsOnce
  <2> QED
    BY <2>2, <2>3
<1>12. PartUse(m, document, kind) = GroupsUse(m, document.groups) + PropertiesUse(m, document.properties)
  <2>1. GroupsUse(m, document.groups) \in Nat /\ PropertiesUse(m, document.properties) \in Nat
        /\ Word(m) = 0
    BY <1>1, <1>6, GroupsUseType, PropertiesUseType DEF Word
  <2>2. (2 + kind) * Word(m) = 0
    BY <1>5, <2>1
  <2> QED
    BY <2>1, <2>2 DEF PartUse
<1>13. /\ IndexUse(m, index) \in Nat /\ GroupsUse(m, document.groups) \in Nat
       /\ PropertiesUse(m, document.properties) \in Nat
       /\ NamesUse(m, reverseIndices \union DOMAIN document.groups) \in Nat
       /\ GroupUse(m, g, keys) \in Nat
  BY <1>1, <1>3, <1>4, UseTypes, GroupUseType
<1>14. NewNameUse(m, g, reverseIndices) \in Nat
  BY <1>3, TextLength DEF NewNameUse
<1>15. IndexUse(m, index) + PartUse(m, document, kind)
         + NamesUse(m, reverseIndices \union DOMAIN document.groups)
         + GroupUse(m, g, keys) + NewNameUse(m, g, reverseIndices) <= limits.decoded
  <2>0. PICK a, b, c, d, e, f, l :
        /\ a = IndexUse(m, index) /\ b = GroupsUse(m, document.groups)
        /\ c = PropertiesUse(m, document.properties)
        /\ d = NamesUse(m, reverseIndices \union DOMAIN document.groups)
        /\ e = GroupUse(m, g, keys) /\ f = NewNameUse(m, g, reverseIndices) /\ l = limits.decoded
    OBVIOUS
  <2>1. a \in Nat /\ b \in Nat /\ c \in Nat /\ d \in Nat /\ e \in Nat /\ f \in Nat
    BY <1>13, <1>14, <2>0
  <2>2. a + (b + e) + c + (d + f) <= l
    BY <1>7, <1>10, <1>11, <2>0
  <2>3. a + (b + e) + c + (d + f) = a + (b + c) + d + e + f
    BY <2>1
  <2> QED
    BY <1>12, <2>0, <2>2, <2>3
<1>16. KeyCount(index) + KeysIn(document.groups) + k <= limits.keys
  <2>1. KeyCount(index) \in Nat /\ KeysIn(document.groups) \in Nat /\ k \in Nat
    <3>1. IsIndex(index)
      BY <1>4 DEF UseInv, TypeInv
    <3>2. k \in Nat
      BY <1>3
    <3> QED
      BY <1>6, <3>1, <3>2, CountsType, KeysInType
  <2>2. KeyCount(index) + (KeysIn(document.groups) + k) <= limits.keys
    BY <1>7, <1>10
  <2> QED
    BY <2>1, <2>2
<1> QED
  BY <1>15, <1>16

\* With its groups read, a document is charged and counted within the limits.
LEMMA PropertiesRoom ==
    ASSUME BackInv, ~changed, WithinLimits(source), NEW at, NEW doc, NEW after, IsCurrent(at, doc, after),
           GroupsBack(doc, Cardinality(DOMAIN doc.groups)),
           NEW more, IsProperties(more), PartOfProperties(more, doc.properties)
    PROVE  /\ IndexUse("charged", index) + GroupsUse("charged", document.groups)
                + PropertiesUse("charged", more)
                + NamesUse("charged", reverseIndices \union DOMAIN document.groups) <= limits.decoded
           /\ PropertyCount(index) + EntriesIn(more) <= limits.properties
<1> PICK part : part = [groups |-> document.groups, properties |-> more]
  OBVIOUS
<1>1. /\ at \in 1..SavedDocuments /\ id \in DOMAIN source.docs /\ doc = source.docs[id]
      /\ IsDocument(doc) /\ IdsFit(doc.groups) /\ id = Ascending(DOMAIN source.docs)[at] /\ IndexBack(at - 1)
  BY CurrentFacts DEF IsCurrent
<1>2. IsDocument(document)
  BY BackFacts DEF UseInv, TypeInv
<1>3. IsGroups(document.groups)
  BY <1>2, DocumentParts
<1>4. document.groups = Kept(doc).groups
  <2>1. Firsts(SortedNames(DOMAIN doc.groups), Cardinality(DOMAIN doc.groups)) = DOMAIN doc.groups
    BY <1>1, GroupsCode, FirstsAll
  <2> QED
    BY <2>1 DEF GroupsBack, Kept
<1>5. PartOfGroups(document.groups, Kept(doc).groups)
  <2>1. \A g \in DOMAIN document.groups : Len(document.groups[g]) \in Nat
    BY <1>3 DEF IsGroups
  <2> QED
    BY <1>4, <2>1 DEF PartOfGroups
<1>6. IsDocument(part)
  BY <1>3, DocumentParts
<1>7. part.groups = document.groups /\ part.properties = more
  OBVIOUS
<1> QED
  BY <1>1, <1>5, <1>6, <1>7, RoomFor

\* The properties read are a part of the document's.
LEMMA PropertiesAreAPart ==
    ASSUME NEW doc, IsDocument(doc), NEW k \in 1..5,
           NEW n \in 0..Cardinality(DOMAIN doc.properties[PropertyKinds[k]]), PropertiesBack(doc, k, n)
    PROVE  PartOfProperties(document.properties, doc.properties)
<1>1. ASSUME NEW j \in 1..5, NEW type, type = PropertyKinds[j], NEW properties, properties = doc.properties[type]
      PROVE  /\ DOMAIN document.properties[type] \subseteq DOMAIN properties
             /\ \A name \in DOMAIN document.properties[type] :
                  document.properties[type][name] = properties[name]
  <2>1. type \in ToSet(PropertyKinds) /\ IsKind(type, properties)
    BY <1>1, KindFacts
  <2>2. Lists(SortedNames(DOMAIN properties), DOMAIN properties) /\ Cardinality(DOMAIN properties) \in Nat
    BY <2>1, KindCode
  <2>3. j = k => Firsts(SortedNames(DOMAIN properties), n) \subseteq DOMAIN properties
    <3> SUFFICES ASSUME j = k
                 PROVE  Firsts(SortedNames(DOMAIN properties), n) \subseteq DOMAIN properties
      OBVIOUS
    <3>1. \A i \in 1..n : i \in 1..Cardinality(DOMAIN properties)
      BY <1>1, <2>2
    <3> QED
      BY <2>2, <3>1 DEF Firsts, Lists
  <2>4. NamesBack(doc, k, n, j) \subseteq DOMAIN properties
    BY <1>1, <2>3 DEF NamesBack
  <2>5. document.properties[type] = [name \in NamesBack(doc, k, n, j) |-> properties[name]]
    BY <1>1 DEF PropertiesBack
  <2> QED
    BY <2>4, <2>5
<1>2. \A type \in ToSet(PropertyKinds) : \E j \in 1..5 : type = PropertyKinds[j]
  BY KindsAre DEF ToSet
<1> QED
  BY <1>1, <1>2 DEF PartOfProperties

\* The next property stays within the limits.
LEMMA PropertyRoom ==
    ASSUME BackInv, ~changed, WithinLimits(source), NEW at, NEW doc, NEW after, IsCurrent(at, doc, after),
           GroupsBack(doc, Cardinality(DOMAIN doc.groups)),
           NEW k \in 1..5, NEW type, type = PropertyKinds[k], NEW properties, properties = doc.properties[type],
           NEW n \in 1..Cardinality(DOMAIN properties), PropertiesBack(doc, k, n - 1),
           NEW s, s = SortedNames(DOMAIN properties)[n]
    PROVE  /\ type \in ToSet(PropertyKinds) /\ s \in DOMAIN properties /\ s \in Text
           /\ properties[s] \in PropertyValues(type) /\ s \notin DOMAIN document.properties[type]
           /\ IndexUse("charged", index) + PartUse("charged", document, kind)
                + NamesUse("charged", reverseIndices \union DOMAIN document.groups)
                + Len(s) + ValueUse(type, properties[s]) <= limits.decoded
<1> PICK m, more, old : /\ m = "charged" /\ old = document.properties
                        /\ more = [old EXCEPT ![type] = Emplace(@, s, properties[s])]
  OBVIOUS
<1>1. m \in Measures
  BY DEF Measures
<1>2. IsDocument(doc)
  BY CurrentFacts
<1>3. type \in ToSet(PropertyKinds) /\ IsKind(type, properties)
  BY <1>2, KindFacts
<1>4. Cardinality(DOMAIN properties) \in Nat /\ Lists(SortedNames(DOMAIN properties), DOMAIN properties)
  BY <1>3, KindCode
<1>5. s \in DOMAIN properties /\ s \notin Firsts(SortedNames(DOMAIN properties), n - 1)
  <2> PICK S, w : S = DOMAIN properties /\ w = SortedNames(S)
    OBVIOUS
  <2>1. w[n] \in S /\ w[n] \notin Firsts(w, n - 1)
    BY <1>4, FirstsMore
  <2> QED
    BY <2>1
<1>6. s \in Text /\ properties[s] \in PropertyValues(type)
  BY <1>3, <1>5 DEF IsKind
<1>7. n - 1 \in 0..Cardinality(DOMAIN properties)
  BY <1>4
<1>8. PartOfProperties(old, doc.properties)
  BY <1>2, <1>7, PropertiesAreAPart
<1>9. s \notin DOMAIN old[type]
  <2>1. old[type] = [name \in NamesBack(doc, k, n - 1, k) |-> properties[name]]
    BY DEF PropertiesBack
  <2>2. NamesBack(doc, k, n - 1, k) = Firsts(SortedNames(DOMAIN properties), n - 1)
    BY DEF NamesBack
  <2> QED
    BY <1>5, <2>1, <2>2
<1>10. UseInv
  BY BackFacts
<1>11. IsDocument(document) /\ kind \in 0..5
  BY <1>10, UseReader DEF UseInv, TypeInv
<1>12. IsGroups(document.groups) /\ IsProperties(old)
  BY <1>11, DocumentParts
<1>13. /\ IsProperties(more)
       /\ PropertiesUse(m, more) =
            PropertiesUse(m, old) + (Len(s) + 2 * Word(m) + ValueUse(type, properties[s]))
  BY <1>1, <1>3, <1>6, <1>9, <1>12, PropertiesUseMore
<1>14. PartOfProperties(more, doc.properties)
  <2>1. DOMAIN old = ToSet(PropertyKinds)
    BY <1>12 DEF IsProperties
  <2>2. more[type] = Emplace(old[type], s, properties[s]) /\ \A t \in ToSet(PropertyKinds) \ {type} : more[t] = old[t]
    BY <1>3, <2>1
  <2>3. /\ DOMAIN more[type] = DOMAIN old[type] \union {s}
        /\ more[type][s] = properties[s] /\ \A name \in DOMAIN old[type] : more[type][name] = old[type][name]
    BY <1>9, <2>2 DEF Emplace
  <2>4. DOMAIN old[type] \subseteq DOMAIN properties /\ \A name \in DOMAIN old[type] : old[type][name] = properties[name]
    BY <1>3, <1>8 DEF PartOfProperties
  <2>5. DOMAIN more[type] \subseteq DOMAIN properties /\ \A name \in DOMAIN more[type] : more[type][name] = properties[name]
    <3>1. DOMAIN more[type] \subseteq DOMAIN properties
      BY <1>5, <2>3, <2>4, Zenon
    <3>2. ASSUME NEW name \in DOMAIN more[type]
          PROVE  more[type][name] = properties[name]
      <4>1. name = s \/ name \in DOMAIN old[type]
        BY <2>3, <3>2, Zenon
      <4> QED
        BY <2>3, <2>4, <4>1, Zenon
    <3> QED
      BY <3>1, <3>2
  <2>6. ASSUME NEW t \in ToSet(PropertyKinds)
        PROVE  /\ DOMAIN more[t] \subseteq DOMAIN doc.properties[t]
               /\ \A name \in DOMAIN more[t] : more[t][name] = doc.properties[t][name]
    <3>1. CASE t = type
      BY <2>5, <3>1, Zenon
    <3>2. CASE t # type
      <4>1. more[t] = old[t]
        BY <2>2, <3>2, Zenon
      <4> QED
        <5>1. /\ DOMAIN old[t] \subseteq DOMAIN doc.properties[t]
              /\ \A name \in DOMAIN old[t] : old[t][name] = doc.properties[t][name]
          BY <1>8 DEF PartOfProperties
        <5> QED
          BY <4>1, <5>1, Zenon
    <3> QED
      BY <3>1, <3>2
  <2> QED
    BY <2>6, Zenon DEF PartOfProperties
<1>15. IndexUse(m, index) + GroupsUse(m, document.groups) + PropertiesUse(m, more)
         + NamesUse(m, reverseIndices \union DOMAIN document.groups) <= limits.decoded
  BY <1>13, <1>14, PropertiesRoom
<1>16. PartUse(m, document, kind) = GroupsUse(m, document.groups) + PropertiesUse(m, old) /\ Word(m) = 0
  <2>1. GroupsUse(m, document.groups) \in Nat /\ PropertiesUse(m, old) \in Nat /\ Word(m) = 0
    BY <1>1, <1>12, GroupsUseType, PropertiesUseType DEF Word
  <2>2. (2 + kind) * Word(m) = 0
    BY <1>11, <2>1
  <2> QED
    BY <2>1, <2>2 DEF PartUse
<1>17. /\ IndexUse(m, index) \in Nat /\ GroupsUse(m, document.groups) \in Nat
       /\ PropertiesUse(m, old) \in Nat
       /\ NamesUse(m, reverseIndices \union DOMAIN document.groups) \in Nat
       /\ Len(s) \in Nat /\ ValueUse(type, properties[s]) \in Nat
  BY <1>1, <1>3, <1>6, <1>10, UseTypes, TextLength, ValueUseType
<1>18. IndexUse(m, index) + PartUse(m, document, kind)
         + NamesUse(m, reverseIndices \union DOMAIN document.groups)
         + Len(s) + ValueUse(type, properties[s]) <= limits.decoded
  <2>0. PICK a, b, c, d, e, f, l :
        /\ a = IndexUse(m, index) /\ b = GroupsUse(m, document.groups)
        /\ c = PropertiesUse(m, old)
        /\ d = NamesUse(m, reverseIndices \union DOMAIN document.groups)
        /\ e = Len(s) /\ f = ValueUse(type, properties[s]) /\ l = limits.decoded
    OBVIOUS
  <2>1. a \in Nat /\ b \in Nat /\ c \in Nat /\ d \in Nat /\ e \in Nat /\ f \in Nat
    BY <1>17, <2>0
  <2>2. a + b + (c + (e + 2 * 0 + f)) + d <= l
    BY <1>13, <1>15, <1>16, <2>0
  <2>3. a + b + (c + (e + 2 * 0 + f)) + d = a + (b + c) + d + e + f
    BY <2>1
  <2> QED
    BY <1>16, <2>0, <2>2, <2>3
<1> QED
  BY <1>3, <1>5, <1>6, <1>9, <1>18

\* So does the next of the property maps.
LEMMA KindRoom ==
    ASSUME BackInv, ~changed, WithinLimits(source), NEW at, NEW doc, NEW after, IsCurrent(at, doc, after),
           GroupsBack(doc, Cardinality(DOMAIN doc.groups)),
           NEW k \in 1..5, NEW type, type = PropertyKinds[k], NEW properties, properties = doc.properties[type],
           PropertiesBack(doc, k, 0)
    PROVE  PropertyCount(index) + EntriesIn(document.properties) + Cardinality(DOMAIN properties)
             <= limits.properties
<1> PICK K, more, old, f, h :
      /\ K = ToSet(PropertyKinds) /\ old = document.properties /\ more = [old EXCEPT ![type] = properties]
      /\ f = [t \in K |-> Cardinality(DOMAIN old[t])] /\ h = [t \in K |-> Cardinality(DOMAIN more[t])]
  OBVIOUS
<1>1. IsDocument(doc)
  BY CurrentFacts
<1>2. type \in K /\ IsKind(type, properties)
  BY <1>1, KindFacts
<1>3. Cardinality(DOMAIN properties) \in Nat
  BY <1>2, KindCode
<1>4. PartOfProperties(old, doc.properties)
  BY <1>1, <1>3, PropertiesAreAPart
<1>5. DOMAIN old[type] = {}
  <2>1. old[type] = [name \in NamesBack(doc, k, 0, k) |-> properties[name]]
    BY DEF PropertiesBack
  <2>2. NamesBack(doc, k, 0, k) = {}
    BY DEF NamesBack, Firsts
  <2> QED
    BY <2>1, <2>2
<1>6. UseInv /\ IsDocument(document)
  BY BackFacts DEF UseInv, TypeInv
<1>7. IsProperties(old)
  BY <1>6, DocumentParts
<1>8. DOMAIN old = K /\ old = [t \in K |-> old[t]] /\ \A t \in K : IsKind(t, old[t])
  BY <1>7 DEF IsProperties
<1>9. more[type] = properties /\ \A t \in K \ {type} : more[t] = old[t]
  BY <1>2, <1>8
<1>10. IsProperties(more)
  <2>1. more = [t \in K |-> more[t]]
    BY <1>8
  <2>2. \A t \in K : IsKind(t, more[t])
    BY <1>2, <1>8, <1>9
  <2> QED
    BY <2>1, <2>2 DEF IsProperties
<1>11. PartOfProperties(more, doc.properties)
  BY <1>4, <1>9 DEF PartOfProperties
<1>12. PropertyCount(index) + EntriesIn(more) <= limits.properties
  BY <1>10, <1>11, PropertiesRoom
<1>13. /\ DOMAIN f = K /\ DOMAIN h = K /\ IsFiniteSet(K)
       /\ f[type] = 0 /\ h[type] = Cardinality(DOMAIN properties)
       /\ \A t \in K \ {type} : h[t] = f[t]
  <2>1. Cardinality({}) = 0
    BY FS_EmptySet
  <2>2. DOMAIN f = K /\ DOMAIN h = K /\ IsFiniteSet(K)
    BY KindsAre
  <2>3. f[type] = Cardinality(DOMAIN old[type]) /\ h[type] = Cardinality(DOMAIN more[type])
    BY <1>2
  <2>4. ASSUME NEW t \in K \ {type}
        PROVE  h[t] = f[t]
    BY <1>9
  <2> QED
    BY <1>5, <1>9, <2>1, <2>2, <2>3, <2>4
<1>14. \A t \in K : f[t] \in Nat
  BY <1>7, EntriesInType
<1>15. EntriesIn(old) = SumFunction(f) /\ EntriesIn(more) = SumFunction(h)
  BY DEF EntriesIn, SumOver
<1>16. /\ SumFunction(f) \in Nat /\ SumFunction(h) \in Nat
       /\ SumFunction(f) + h[type] = SumFunction(h) + f[type]
  BY <1>2, <1>3, <1>13, <1>14, SumOfChanged
<1>17. PropertyCount(index) \in Nat
  BY <1>6, CountsType DEF UseInv, TypeInv
<1>18. EntriesIn(more) = EntriesIn(old) + Cardinality(DOMAIN properties) /\ EntriesIn(old) \in Nat
  BY <1>3, <1>13, <1>15, <1>16
<1> QED
  BY <1>3, <1>12, <1>17, <1>18

-----------------------------------------------------------------------------
(* No check refuses an index that is within the limits                     *)

\* What the budgets have been used for.
LEMMA ChargedSoFar ==
    ASSUME UseInv
    PROVE  /\ pc = "header" => reader.charged = 0
           /\ pc \in {"group", "property"} =>
                reader.charged = IndexUse("charged", index) + PartUse("charged", document, kind)
                                   + NamesUse("charged", reverseIndices \union DOMAIN document.groups)
           /\ pc = "key" =>
                reader.charged = IndexUse("charged", index) + PartUse("charged", document, kind)
                                   + NamesUse("charged", reverseIndices \union DOMAIN document.groups)
                                   + GroupUse("charged", group, keySet)
                                   + NewNameUse("charged", group, reverseIndices)
           /\ reader.charged \in Nat
<1>1. "charged" \in Measures
  BY DEF Measures
<1>2. Used("charged", reader) = reader.charged
  BY DEF Used
<1>3. CountedAt("charged", pc, reader, index, reverseIndices, document, kind, group, keySet)
  BY <1>1 DEF UseInv, AllCounted, Counted
<1>4. reader.charged \in Nat
  BY <1>1, <1>2, UseReader
<1> QED
  BY <1>2, <1>3, <1>4 DEF CountedAt

\* The implicit group is text of the index.
LEMMA ImplicitRoom ==
    ASSUME BackInv, ~changed, WithinLimits(source)
    PROVE  Len(source.implicit) <= limits.string /\ Len(source.implicit) <= limits.decoded
<1> PICK m, S, f : /\ m = "charged" /\ S = DOMAIN source.docs
                   /\ f = [d \in S |-> DocumentUse(m, source.docs[d])]
  OBVIOUS
<1>1. m \in Measures /\ Word(m) = 0
  BY DEF Measures, Word
<1>2. IsIndex(source) /\ UseInv
  BY BackFacts
<1>3. GroupsNamed(source) \in SUBSET Text /\ IsFiniteSet(GroupsNamed(source))
  BY <1>2, NamedGroups
<1>4. IsFiniteSet(S) /\ (\A d \in S : IsDocument(source.docs[d])) /\ source.implicit \in Text
  BY <1>2 DEF IsIndex
<1>5. DOMAIN f = S /\ \A d \in S : f[d] \in Nat
  BY <1>1, <1>4, DocumentUseType
<1>6. SumFunction(f) \in Nat
  BY <1>4, <1>5, SumType
<1>7. IndexUse(m, source) = 2 * Word(m) + Len(source.implicit) + SumFunction(f)
  BY DEF IndexUse, SumOver
<1>8. RetainedText(source) = IndexUse(m, source) + NamesUse(m, GroupsNamed(source))
  BY <1>2, <1>3, RetainedUse
<1>9. NamesUse(m, GroupsNamed(source)) \in Nat /\ Len(source.implicit) \in Nat
  BY <1>1, <1>3, <1>4, NamesUseType, TextLength
<1>10. limits.decoded \in Nat
  <2>1. LimitsOK
    BY <1>2, UseReader
  <2> QED
    BY <2>1 DEF LimitsOK, LimitNames
<1>11. RetainedText(source) <= limits.decoded
  BY DEF WithinLimits
<1>12. Len(source.implicit) <= limits.decoded
  BY <1>1, <1>6, <1>7, <1>8, <1>9, <1>10, <1>11
<1>13. source.implicit \in StringsOf(source)
  BY StringsAre
<1> QED
  BY <1>12, <1>13, LimitsRead

\* Each step of decode passes its checks.
LEMMA FitReadIndex ==
    ASSUME BackInv, CountInv, Loadable, ReadIndex
    PROVE  pc' # "rejected"
<1> PICK implicit, maximum, count :
      /\ implicit = ReadText(reader) /\ maximum = limits.documents
      /\ count = ReadCount(implicit, maximum, DocumentMinimum)
  OBVIOUS
<1>1. ~changed /\ WithinLimits(source)
  BY DEF Loadable
<1>2. pc = "header"
  BY DEF ReadIndex
<1>3. /\ count.ok <=> /\ reader.ok /\ Len(source.implicit) <= limits.string
                      /\ Len(source.implicit) <= Left(limits.decoded, reader.charged)
                      /\ SavedDocuments \in 0..maximum
  BY <1>1, <1>2, IndexTaken
<1>4. UseInv /\ payload = Payload(source) /\ SavedDocuments \in Nat /\ source.implicit \in Text
  BY <1>1, BackFacts DEF IsIndex
<1>5. reader.ok /\ limits.decoded \in Nat /\ limits.documents \in Nat
  BY CountFacts
<1>6. reader.charged = 0 /\ Len(source.implicit) \in Nat
  BY <1>2, <1>4, ChargedSoFar, TextLength
<1>7. Len(source.implicit) <= limits.string /\ Len(source.implicit) <= Left(limits.decoded, reader.charged)
  <2>1. Len(source.implicit) <= limits.string /\ Len(source.implicit) <= limits.decoded
    BY <1>1, ImplicitRoom
  <2>2. Len(source.implicit) <= Left(limits.decoded, 0)
    BY <1>5, <1>6, <2>1, RoomIsLeft
  <2> QED
    BY <1>6, <2>1, <2>2
<1>8. HeaderBytes + Len(payload) <= limits.bytes /\ SavedDocuments <= limits.documents
  BY <1>1, <1>4, LimitsRead
<1>9. count.ok
  BY <1>3, <1>4, <1>5, <1>7, <1>8
<1> QED
  BY <1>8, <1>9 DEF ReadIndex

\* A document has at least one key in every group.
LEMMA GroupsHaveKeys ==
    ASSUME BackInv, ~changed, ~HasEmptyGroup(source), NEW d \in DOMAIN source.docs,
           NEW doc, doc = source.docs[d]
    PROVE  /\ \A g \in DOMAIN doc.groups : Len(doc.groups[g]) \in Nat \ {0}
           /\ Cardinality(DOMAIN doc.groups) <= KeysIn(doc.groups)
<1> PICK S, f : S = DOMAIN doc.groups /\ f = [g \in S |-> Len(doc.groups[g])]
  OBVIOUS
<1>1. IsDocument(doc)
  BY BackFacts DEF IsIndex
<1>2. IsGroups(doc.groups)
  BY <1>1, DocumentParts
<1>3. ASSUME NEW g \in S
      PROVE  Len(doc.groups[g]) \in Nat \ {0}
  <2>1. doc.groups[g] \in Seq(Text) /\ doc.groups[g] # <<>>
    BY <1>2 DEF IsGroups, HasEmptyGroup
  <2> QED
    BY <2>1
<1>4. DOMAIN f = S /\ IsFiniteSet(S) /\ \A g \in S : f[g] \in Nat \ {0}
  BY <1>2, <1>3 DEF IsGroups
<1>5. Cardinality(S) <= SumFunction(f)
  BY <1>4, SumOfSome
<1>6. KeysIn(doc.groups) = SumFunction(f)
  BY DEF KeysIn, SumOver
<1> QED
  BY <1>3, <1>5, <1>6

LEMMA FitBeginDocument ==
    ASSUME BackInv, CountInv, Loadable, BeginDocument
    PROVE  pc' # "rejected"
<1> PICK native, maximum, count :
      /\ native = ReadNative(reader, LongMax) /\ maximum = Left(limits.keys, keysTotal)
      /\ count = ReadCount(native, maximum, EntryMinimum)
  OBVIOUS
<1>1. ~changed /\ WithinLimits(source) /\ ~HasEmptyGroup(source)
  BY DEF Loadable
<1>2. pc = "document" /\ left.documents > 0
  BY DEF BeginDocument
<1>3. PICK n, d, doc, rest : NextDocument(n, d, doc, rest, native, maximum, count)
  BY <1>1, <1>2, DocumentTaken
<1>4. /\ n + 1 \in 1..SavedDocuments /\ n \in Nat /\ IndexBack(n)
      /\ d = Ascending(DOMAIN source.docs)[n + 1] /\ d \in DOMAIN source.docs /\ doc = source.docs[d]
      /\ IsDocument(doc) /\ IdsFit(doc.groups)
      /\ count.ok <=> reader.ok /\ Cardinality(DOMAIN doc.groups) \in 0..maximum
      /\ count.ok => native.value = d
  BY <1>3 DEF NextDocument
<1>5. IndexBack((n + 1) - 1) /\ (n + 1) - 1 = n
  BY <1>4
<1>6. PICK whole : whole = Kept(doc)
  OBVIOUS
<1>7. /\ IsDocument(whole) /\ KeysIn(whole.groups) = KeysIn(doc.groups) /\ whole.properties = doc.properties
  BY <1>4, <1>6, KeptIsDocument, KeptSize
<1>8. IsGroups(whole.groups) /\ IsGroups(doc.groups)
  BY <1>4, <1>7, DocumentParts
<1>9. PartOfGroups(whole.groups, Kept(doc).groups) /\ PartOfProperties(whole.properties, doc.properties)
  <2>1. \A g \in DOMAIN whole.groups : Len(whole.groups[g]) \in Nat
    BY <1>8 DEF IsGroups
  <2> QED
    BY <1>6, <1>7, <2>1 DEF PartOfGroups, PartOfProperties
<1>10. KeyCount(index) + KeysIn(doc.groups) <= limits.keys
  <2>1. KeyCount(index) + KeysIn(whole.groups) <= limits.keys
    BY <1>1, <1>4, <1>5, <1>7, <1>9, RoomFor
  <2> QED
    BY <1>7, <2>1
<1>11. /\ KeyCount(index) \in Nat /\ KeysIn(doc.groups) \in Nat /\ limits.keys \in Nat /\ reader.ok
       /\ Cardinality(DOMAIN doc.groups) \in Nat
  BY <1>4, <1>8, CountFacts, KeysInType, GroupsCode
<1>12. Cardinality(DOMAIN doc.groups) <= KeysIn(doc.groups)
  BY <1>1, <1>4, GroupsHaveKeys
<1>13. keysTotal = KeyCount(index)
  BY <1>2, <1>11, CountFacts DEF CountInv, ItemsCounted, TotalsCounted, InDocument
<1>14. Cardinality(DOMAIN doc.groups) \in 0..maximum
  <2>1. KeyCount(index) + Cardinality(DOMAIN doc.groups) <= limits.keys
    BY <1>10, <1>11, <1>12
  <2> QED
    BY <1>11, <1>13, <2>1, RoomIsLeft
<1>15. count.ok /\ native.value = d
  BY <1>4, <1>11, <1>14
<1>16. AscendingId(d)
  <2> PICK S, seq, j : S = DOMAIN source.docs /\ seq = Ascending(S) /\ j = KeptIndex(source)
    OBVIOUS
  <2>1. IsIndex(source) /\ SavedDocuments = Cardinality(S) /\ SavedDocuments \in Nat
    BY <1>1, BackFacts DEF SavedDocuments
  <2>2. IsFiniteSet(S) /\ S \in SUBSET Int
    BY <2>1, LongIsInt DEF IsIndex
  <2>3. \A i \in 1..Cardinality(S) : i < n + 1 => seq[i] < seq[n + 1]
    BY <1>4, <2>1, <2>2, AscendingProperties
  <2>4. DOMAIN index.docs = Firsts(seq, n)
    BY <1>1, <1>4, <1>5, IndexIsPart
  <2>5. S \subseteq Int /\ seq \in [1..Cardinality(S) -> S]
    BY <2>2, AscendingProperties
  <2>6. ASSUME NEW old \in DOMAIN index.docs
        PROVE  d > old
    <3>1. PICK i \in 1..n : old = seq[i]
      BY <2>4, <2>6 DEF Firsts
    <3>2. i \in 1..Cardinality(S) /\ i < n + 1
      BY <1>4, <2>1
    <3>3. seq[i] < seq[n + 1] /\ seq[i] \in Int /\ seq[n + 1] \in Int
      BY <1>4, <2>1, <2>3, <2>5, <3>2
    <3> QED
      BY <1>4, <3>1, <3>3
  <2> QED
    BY <2>6 DEF AscendingId
<1> QED
  BY <1>15, <1>16 DEF BeginDocument

\* The next group's name is text of the index, and so are its keys.
LEMMA GroupStringsFit ==
    ASSUME WithinLimits(source), NEW d \in DOMAIN source.docs, NEW doc, doc = source.docs[d],
           NEW g \in DOMAIN doc.groups
    PROVE  /\ Len(g) <= limits.string
           /\ \A s \in ToSet(doc.groups[g]) : Len(s) <= limits.string
<1>1. g \in DocumentStrings(doc) /\ \A s \in ToSet(doc.groups[g]) : s \in DocumentStrings(doc)
  BY IsStringOf
<1> QED
  BY <1>1, StringsFit

LEMMA FitBeginGroup ==
    ASSUME BackInv, CountInv, Loadable, BeginGroup
    PROVE  pc' # "rejected"
<1> PICK name, charged, maximum, count :
      /\ name = ReadText(reader) /\ charged = IF name.ok THEN ChargeReverseIndex(name) ELSE name
      /\ maximum = Left(limits.keys, keysTotal) /\ count = ReadCount(charged, maximum, EntryMinimum)
  OBVIOUS
<1>1. ~changed /\ WithinLimits(source) /\ ~HasEmptyGroup(source)
  BY DEF Loadable
<1>2. pc = "group" /\ left.groups > 0
  BY DEF BeginGroup
<1>3. PICK at, doc, after, n, g, tail : NextGroup(at, doc, after, n, g, tail, name, maximum, count)
  BY <1>1, <1>2, GroupTaken
<1>4. /\ IsCurrent(at, doc, after) /\ n \in Nat /\ n + 1 \in 1..Cardinality(DOMAIN doc.groups)
      /\ GroupPart(doc, n, PiecesFrom(KindCodes(doc), 0) \o after)
      /\ g = SortedNames(DOMAIN doc.groups)[n + 1]
      /\ count.ok <=> /\ reader.ok /\ Len(g) <= limits.string
                      /\ Len(g) <= Left(limits.decoded, reader.charged)
                      /\ g \notin reverseIndices => Len(g) <= Left(limits.decoded, reader.charged + Len(g))
                      /\ Len(doc.groups[g]) \in 0..maximum
      /\ count.ok => count.value = Len(doc.groups[g])
  BY <1>3 DEF NextGroup
<1>5. GroupsBack(doc, (n + 1) - 1) /\ PropertiesBack(doc, 0, 0)
  BY <1>4 DEF GroupPart
<1>6. id \in DOMAIN source.docs /\ doc = source.docs[id] /\ IsDocument(doc) /\ IdsFit(doc.groups)
  BY <1>1, <1>4, CurrentFacts
<1>7. g \in DOMAIN doc.groups /\ g \in Text /\ doc.groups[g] \in Seq(Text)
  BY <1>4, <1>6, GroupFacts
<1>8. /\ Len(doc.groups[g]) \in Nat \ {0} /\ Len(g) <= limits.string
      /\ Len(g) \in Nat /\ 0 \in 0..Len(doc.groups[g]) /\ Len(doc.groups[g]) \in 0..Len(doc.groups[g])
  <2>1. Len(doc.groups[g]) \in Nat \ {0}
    BY <1>1, <1>6, <1>7, GroupsHaveKeys
  <2>2. Len(g) <= limits.string
    BY <1>1, <1>6, <1>7, GroupStringsFit
  <2>3. Len(g) \in Nat
    BY <1>7, TextLength
  <2> QED
    BY <2>1, <2>2, <2>3
<1>9. UseInv
  BY DEF CountInv
<1>10. /\ reader.charged = IndexUse("charged", index) + PartUse("charged", document, kind)
                             + NamesUse("charged", reverseIndices \union DOMAIN document.groups)
       /\ reader.charged \in Nat
  BY <1>2, <1>9, ChargedSoFar
<1>11. reader.charged + GroupUse("charged", g, <<>>) + NewNameUse("charged", g, reverseIndices)
         <= limits.decoded
  <2>1. <<>> = [j \in 1..0 |-> SortedKeys(doc.groups[g])[j]]
    <3>1. 1..0 = {}
      OBVIOUS
    <3> QED
      BY <3>1
  <2>2. IndexUse("charged", index) + PartUse("charged", document, kind)
          + NamesUse("charged", reverseIndices \union DOMAIN document.groups)
          + GroupUse("charged", g, <<>>) + NewNameUse("charged", g, reverseIndices) <= limits.decoded
    BY <1>1, <1>4, <1>5, <1>8, <2>1, GroupRoom
  <2> QED
    BY <1>10, <2>2
<1>12. KeyCount(index) + KeysIn(document.groups) + Len(doc.groups[g]) <= limits.keys
  <2> PICK keys : keys = [j \in 1..Len(doc.groups[g]) |-> SortedKeys(doc.groups[g])[j]]
    OBVIOUS
  <2> QED
    BY <1>1, <1>4, <1>5, <1>8, GroupRoom
<1>13. GroupUse("charged", g, <<>>) = Len(g)
  <2>1. KeysUse("charged", g, <<>>) = 0 /\ Word("charged") = 0
    BY KeysUseEmpty DEF Word
  <2> QED
    BY <1>8, <2>1 DEF GroupUse
<1>14. NewNameUse("charged", g, reverseIndices) = IF g \in reverseIndices THEN 0 ELSE Len(g)
  BY DEF NewNameUse
<1>15. /\ reader.ok /\ limits.decoded \in Nat /\ limits.keys \in Nat
       /\ KeyCount(index) \in Nat /\ KeysIn(document.groups) \in Nat
  BY CountFacts
<1>16. Len(g) <= Left(limits.decoded, reader.charged)
  <2>1. reader.charged + Len(g) <= limits.decoded
    BY <1>8, <1>10, <1>11, <1>13, <1>14, <1>15
  <2> QED
    BY <1>8, <1>10, <1>15, <2>1, RoomIsLeft
<1>17. g \notin reverseIndices => Len(g) <= Left(limits.decoded, reader.charged + Len(g))
  <2> SUFFICES ASSUME g \notin reverseIndices
               PROVE  Len(g) <= Left(limits.decoded, reader.charged + Len(g))
    OBVIOUS
  <2>1. reader.charged + Len(g) + Len(g) <= limits.decoded
    BY <1>11, <1>13, <1>14
  <2>2. reader.charged + Len(g) \in Nat
    BY <1>8, <1>10
  <2> QED
    BY <1>8, <1>15, <2>1, <2>2, RoomIsLeft
<1>18. keysTotal = KeyCount(index) + KeysIn(document.groups)
  BY <1>2, <1>15, CountFacts DEF CountInv, ItemsCounted, TotalsCounted, InDocument
<1>19. Len(doc.groups[g]) \in 0..maximum
  <2>1. keysTotal + Len(doc.groups[g]) <= limits.keys /\ keysTotal \in Nat
    BY <1>8, <1>12, <1>15, <1>18
  <2> QED
    BY <1>8, <1>15, <2>1, RoomIsLeft
<1>20. count.ok /\ count.value # 0
  BY <1>4, <1>8, <1>15, <1>16, <1>17, <1>19
<1> QED
  BY <1>20 DEF BeginGroup

LEMMA FitReadKey ==
    ASSUME BackInv, CountInv, Loadable, ReadKey
    PROVE  pc' # "rejected"
<1> PICK string, key : string = ReadText(reader) /\ key = ChargeKey(ReadNative(string, LongMax))
  OBVIOUS
<1>1. ~changed /\ WithinLimits(source)
  BY DEF Loadable
<1>2. pc = "key" /\ left.keys > 0
  BY DEF ReadKey
<1>3. PICK at, doc, after, n, k, g, s, tail : NextKey(at, doc, after, n, k, g, s, tail, string, key)
  BY <1>1, <1>2, KeyTaken
<1>4. PICK strings, w : strings = doc.groups[g] /\ w = SortedKeys(strings)
  OBVIOUS
<1>5. /\ IsCurrent(at, doc, after) /\ n \in 1..Cardinality(DOMAIN doc.groups)
      /\ g = SortedNames(DOMAIN doc.groups)[n]
      /\ k \in Nat /\ k + 1 \in 1..Len(strings) /\ s = w[k + 1]
      /\ KeyPart(doc, n, k, PiecesFrom(KindCodes(doc), 0) \o after)
      /\ key.ok <=> /\ reader.ok /\ Len(s) <= limits.string
                    /\ Len(s) <= Left(limits.decoded, reader.charged)
                    /\ Len(g) <= Left(limits.decoded, reader.charged + Len(s))
      /\ key.ok => string.value = s /\ key.value = KeyId(g, s)
  BY <1>3, <1>4 DEF NextKey
<1>6. /\ group = g /\ keySet = [j \in 1..k |-> w[j]]
      /\ GroupsBack(doc, n - 1) /\ PropertiesBack(doc, 0, 0)
  BY <1>4, <1>5 DEF KeyPart
<1>7. id \in DOMAIN source.docs /\ doc = source.docs[id] /\ IsDocument(doc) /\ IdsFit(doc.groups)
  BY <1>1, <1>5, CurrentFacts
<1>8. g \in DOMAIN doc.groups /\ g \in Text /\ strings \in Seq(Text)
  BY <1>4, <1>5, <1>7, GroupFacts
<1>9. /\ Len(strings) \in Nat /\ w \in Seq(Text) /\ Len(w) = Len(strings)
      /\ \E j \in 1..Len(strings) : s = strings[j]
  BY <1>4, <1>5, <1>8, SortedKeysType
<1>10. \A j \in 1..(k + 1) : w[j] \in Text
  <2>1. \A j \in 1..(k + 1) : j \in 1..Len(w)
    BY <1>5, <1>9
  <2> QED
    BY <1>9, <2>1
<1>11. s \in Text /\ Len(s) <= limits.string /\ Len(s) \in Nat /\ Len(g) \in Nat
  <2>1. s \in ToSet(strings)
    <3>1. PICK j \in 1..Len(strings) : s = strings[j]
      BY <1>9
    <3>2. j \in DOMAIN strings
      BY <1>8
    <3> QED
      BY <3>1, <3>2 DEF ToSet
  <2>2. s \in Text
    BY <1>5, <1>10
  <2>3. \A x \in ToSet(doc.groups[g]) : Len(x) <= limits.string
    BY <1>1, <1>7, <1>8, GroupStringsFit
  <2> QED
    BY <1>4, <1>8, <2>1, <2>2, <2>3, TextLength
<1>12. PICK more : more = [j \in 1..(k + 1) |-> w[j]]
  OBVIOUS
<1>13. more = Append(keySet, s)
  BY <1>5, <1>6, <1>10, <1>12, FirstsAppended
<1>14. UseInv /\ keySet \in Seq(Text)
  BY CountFacts DEF CountInv
<1>15. GroupUse("charged", g, more) = GroupUse("charged", g, keySet) + Len(s) + Len(g)
  <2>1. "charged" \in Measures /\ Word("charged") = 0 /\ Extra("charged", g) = Len(g)
    BY DEF Measures, Word, Extra
  <2>2. KeysUse("charged", g, more) = KeysUse("charged", g, keySet) + Len(s) + Len(g)
    BY <1>8, <1>11, <1>13, <1>14, <2>1, KeysUseMore
  <2>3. KeysUse("charged", g, keySet) \in Nat
    BY <1>8, <1>14, <2>1, KeysUseType
  <2> QED
    BY <1>11, <2>1, <2>2, <2>3 DEF GroupUse
<1>16. k + 1 \in 0..Len(doc.groups[g])
  BY <1>4, <1>5, <1>9
<1>17. IndexUse("charged", index) + PartUse("charged", document, kind)
         + NamesUse("charged", reverseIndices \union DOMAIN document.groups)
         + GroupUse("charged", g, more) + NewNameUse("charged", g, reverseIndices) <= limits.decoded
  <2>1. more = [j \in 1..(k + 1) |-> SortedKeys(doc.groups[g])[j]]
    BY <1>4, <1>12
  <2> QED
    BY <1>1, <1>5, <1>6, <1>16, <2>1, GroupRoom
<1>18. /\ reader.charged = IndexUse("charged", index) + PartUse("charged", document, kind)
                             + NamesUse("charged", reverseIndices \union DOMAIN document.groups)
                             + GroupUse("charged", g, keySet) + NewNameUse("charged", g, reverseIndices)
       /\ reader.charged \in Nat
  BY <1>2, <1>6, <1>14, ChargedSoFar
<1>19. reader.ok /\ limits.decoded \in Nat
  BY CountFacts
<1>20. reader.charged + Len(s) + Len(g) <= limits.decoded
  <2>0. PICK a, b, c, d, e, x, y, l :
        /\ a = IndexUse("charged", index) /\ b = PartUse("charged", document, kind)
        /\ c = NamesUse("charged", reverseIndices \union DOMAIN document.groups)
        /\ d = GroupUse("charged", g, keySet) /\ e = NewNameUse("charged", g, reverseIndices)
        /\ x = Len(s) /\ y = Len(g) /\ l = limits.decoded
    OBVIOUS
  <2>1. a \in Nat /\ b \in Nat /\ c \in Nat /\ d \in Nat /\ e \in Nat /\ x \in Nat /\ y \in Nat
    <3>1. "charged" \in Measures
      BY DEF Measures
    <3> QED
      BY <1>6, <1>11, <1>14, <2>0, <3>1, UseTypes
  <2>2. a + b + c + (d + x + y) + e <= l
    BY <1>15, <1>17, <2>0
  <2>3. a + b + c + (d + x + y) + e = (a + b + c + d + e) + x + y
    BY <2>1
  <2>4. reader.charged = a + b + c + d + e
    BY <1>18, <2>0
  <2> QED
    BY <2>0, <2>2, <2>3, <2>4
<1>21. /\ Len(s) <= Left(limits.decoded, reader.charged)
       /\ Len(g) <= Left(limits.decoded, reader.charged + Len(s))
  <2>1. reader.charged + Len(s) \in Nat /\ reader.charged + Len(s) <= limits.decoded
    BY <1>11, <1>18, <1>19, <1>20
  <2>2. Len(s) <= Left(limits.decoded, reader.charged)
    BY <1>11, <1>18, <1>19, <2>1, RoomIsLeft
  <2>3. Len(g) <= Left(limits.decoded, reader.charged + Len(s))
    BY <1>11, <1>19, <1>20, <2>1, RoomIsLeft
  <2> QED
    BY <2>2, <2>3
<1>22. key.ok /\ KeyId(group, string.value) = key.value
  BY <1>5, <1>6, <1>11, <1>19, <1>21
<1> QED
  BY <1>2, <1>22 DEF ReadKey

LEMMA FitEndGroup ==
    ASSUME BackInv, CountInv, Loadable, EndGroup
    PROVE  pc' # "rejected"
<1>1. ~changed
  BY DEF Loadable
<1>2. pc = "key"
  BY DEF EndGroup
<1>3. PICK at, doc, after :
        /\ IsCurrent(at, doc, after)
        /\ \E n \in 1..Cardinality(DOMAIN doc.groups) :
             \E k \in 0..Len(doc.groups[SortedNames(DOMAIN doc.groups)[n]]) :
                KeyPart(doc, n, k, PiecesFrom(KindCodes(doc), 0) \o after)
  BY <1>1, <1>2, BackFacts, KeyWasBack DEF Back
<1>4. PICK n \in 1..Cardinality(DOMAIN doc.groups) :
        \E k \in 0..Len(doc.groups[SortedNames(DOMAIN doc.groups)[n]]) :
           KeyPart(doc, n, k, PiecesFrom(KindCodes(doc), 0) \o after)
  BY <1>3
<1>5. PICK g : g = SortedNames(DOMAIN doc.groups)[n]
  OBVIOUS
<1>6. group = g /\ GroupsBack(doc, n - 1)
  BY <1>4, <1>5 DEF KeyPart
<1>7. IsDocument(doc) /\ IdsFit(doc.groups)
  BY <1>1, <1>3, CurrentFacts
<1>8. doc.groups[g] \in Seq(Text)
  BY <1>5, <1>7, GroupFacts
<1>9. g \notin DOMAIN document.groups
  <2> PICK keys : keys = [j \in 1..0 |-> SortedKeys(doc.groups[g])[j]]
    OBVIOUS
  <2>1. 0 \in 0..Len(doc.groups[g])
    BY <1>8
  <2> QED
    BY <1>5, <1>6, <1>7, <2>1, GroupsAreAPart
<1> QED
  BY <1>6, <1>9 DEF EndGroup

LEMMA FitBeginProperties ==
    ASSUME BackInv, CountInv, Loadable, BeginProperties
    PROVE  pc' # "rejected"
<1> PICK maximum, count : /\ maximum = Left(limits.properties, propertiesTotal)
                          /\ count = ReadCount(reader, maximum, EntryMinimum)
  OBVIOUS
<1>1. ~changed /\ WithinLimits(source)
  BY DEF Loadable
<1>2. \/ pc = "group" /\ left.groups = 0
      \/ pc = "property" /\ left.properties = 0 /\ kind < Len(PropertyKinds)
  BY DEF BeginProperties
<1>3. PICK at, doc, after, k : NextKind(at, doc, after, k)
  BY <1>1, <1>2, KindIsNext
<1>4. PICK type, properties : type = PropertyKinds[k] /\ properties = doc.properties[type]
  OBVIOUS
<1>5. /\ IsCurrent(at, doc, after) /\ k \in 1..5
      /\ GroupsBack(doc, Cardinality(DOMAIN doc.groups)) /\ PropertiesBack(doc, k, 0)
  BY <1>3 DEF NextKind
<1>6. /\ Cardinality(DOMAIN properties) \in Nat
      /\ count.ok <=> reader.ok /\ Cardinality(DOMAIN properties) \in 0..maximum
  BY <1>1, <1>3, <1>4, KindTaken
<1>7. PropertyCount(index) + EntriesIn(document.properties) + Cardinality(DOMAIN properties)
        <= limits.properties
  BY <1>1, <1>4, <1>5, KindRoom
<1>8. /\ reader.ok /\ limits.properties \in Nat
      /\ PropertyCount(index) \in Nat /\ EntriesIn(document.properties) \in Nat
  BY CountFacts
<1>9. propertiesTotal = PropertyCount(index) + EntriesIn(document.properties)
  <2>1. /\ propertiesTotal = PropertyCount(index)
              + (IF pc \in {"group", "key", "property"} THEN EntriesIn(document.properties) ELSE 0)
              + (IF pc = "property" THEN left.properties ELSE 0)
    BY <1>2 DEF CountInv, ItemsCounted, TotalsCounted, InDocument
  <2> QED
    BY <1>2, <1>8, <2>1
<1>10. Cardinality(DOMAIN properties) \in 0..maximum
  <2>1. propertiesTotal \in Nat /\ propertiesTotal + Cardinality(DOMAIN properties) <= limits.properties
    BY <1>7, <1>8, <1>9
  <2> QED
    BY <1>6, <1>8, <2>1, RoomIsLeft
<1>11. count.ok
  BY <1>6, <1>8, <1>10
<1> QED
  BY <1>11 DEF BeginProperties

\* The name of a property, and the value that is text, are text of the index.
LEMMA PropertyStringsFit ==
    ASSUME WithinLimits(source), NEW d \in DOMAIN source.docs, NEW doc, doc = source.docs[d],
           NEW type \in ToSet(PropertyKinds), NEW s \in DOMAIN doc.properties[type]
    PROVE  /\ Len(s) <= limits.string
           /\ type = "string" => Len(doc.properties[type][s]) <= limits.string
<1>1. s \in DocumentStrings(doc)
  BY IsStringOf
<1>2. type = "string" => doc.properties[type][s] \in DocumentStrings(doc)
  BY IsStringOf
<1> QED
  BY <1>1, <1>2, StringsFit

LEMMA FitReadProperty ==
    ASSUME BackInv, CountInv, Loadable, ReadProperty
    PROVE  pc' # "rejected"
<1> PICK type, name, value :
      type = PropertyKinds[kind] /\ name = ReadText(reader) /\ value = ReadValue(name, type)
  OBVIOUS
<1>1. ~changed /\ WithinLimits(source)
  BY DEF Loadable
<1>2. pc = "property" /\ left.properties > 0
  BY DEF ReadProperty
<1>3. PICK at, doc, after, k, n, s, tail : NextProperty(at, doc, after, k, n, s, tail, name, value)
  BY <1>1, <1>2, PropertyTaken
<1>4. PICK properties : properties = doc.properties[PropertyKinds[k]]
  OBVIOUS
<1>5. /\ IsCurrent(at, doc, after) /\ k \in 1..5 /\ n \in Nat
      /\ n + 1 \in 1..Cardinality(DOMAIN properties)
      /\ PropertyPart(doc, k, n, after) /\ s = SortedNames(DOMAIN properties)[n + 1]
      /\ value.ok <=> /\ reader.ok /\ Len(s) <= limits.string
                      /\ Len(s) <= Left(limits.decoded, reader.charged)
                      /\ PropertyKinds[k] = "string" =>
                           /\ Len(properties[s]) <= limits.string
                           /\ Len(properties[s]) <= Left(limits.decoded, reader.charged + Len(s))
      /\ value.ok => name.value = s
  BY <1>3, <1>4 DEF NextProperty
<1>6. /\ kind = k /\ type = PropertyKinds[k] /\ GroupsBack(doc, Cardinality(DOMAIN doc.groups))
      /\ PropertiesBack(doc, k, (n + 1) - 1)
  BY <1>5 DEF PropertyPart
<1>7. /\ type \in ToSet(PropertyKinds) /\ s \in DOMAIN properties /\ s \in Text
      /\ properties[s] \in PropertyValues(type) /\ s \notin DOMAIN document.properties[type]
      /\ IndexUse("charged", index) + PartUse("charged", document, kind)
           + NamesUse("charged", reverseIndices \union DOMAIN document.groups)
           + Len(s) + ValueUse(type, properties[s]) <= limits.decoded
  <2>1. properties = doc.properties[type]
    BY <1>4, <1>6
  <2>2. PICK p : p = n + 1
    OBVIOUS
  <2>3. /\ p \in 1..Cardinality(DOMAIN properties) /\ PropertiesBack(doc, k, p - 1)
        /\ s = SortedNames(DOMAIN properties)[p]
    BY <1>5, <1>6, <2>2
  <2>4. IsCurrent(at, doc, after) /\ GroupsBack(doc, Cardinality(DOMAIN doc.groups)) /\ k \in 1..5
    BY <1>5, <1>6
  <2> QED
    BY <1>1, <1>6, <2>1, <2>3, <2>4, PropertyRoom, ZenonT(60)
<1>8. id \in DOMAIN source.docs /\ doc = source.docs[id]
  BY <1>1, <1>5, CurrentFacts
<1>9. Len(s) <= limits.string /\ (type = "string" => Len(properties[s]) <= limits.string)
  <2>1. properties = doc.properties[type]
    BY <1>4, <1>6
  <2> QED
    BY <1>1, <1>7, <1>8, <2>1, PropertyStringsFit
<1>10. UseInv
  BY DEF CountInv
<1>11. /\ reader.charged = IndexUse("charged", index) + PartUse("charged", document, kind)
                             + NamesUse("charged", reverseIndices \union DOMAIN document.groups)
       /\ reader.charged \in Nat
  BY <1>2, <1>10, ChargedSoFar
<1>12. /\ reader.ok /\ limits.decoded \in Nat /\ Len(s) \in Nat /\ ValueUse(type, properties[s]) \in Nat
  BY <1>7, CountFacts, TextLength, ValueUseType
<1>13. reader.charged + Len(s) + ValueUse(type, properties[s]) <= limits.decoded
  BY <1>7, <1>11
<1>14. reader.charged + Len(s) <= limits.decoded /\ reader.charged + Len(s) \in Nat
  BY <1>11, <1>12, <1>13
<1>15. Len(s) <= Left(limits.decoded, reader.charged)
  BY <1>11, <1>12, <1>14, RoomIsLeft
<1>16. type = "string" => Len(properties[s]) <= Left(limits.decoded, reader.charged + Len(s))
  <2> SUFFICES ASSUME type = "string"
               PROVE  Len(properties[s]) <= Left(limits.decoded, reader.charged + Len(s))
    OBVIOUS
  <2>1. ValueUse(type, properties[s]) = Len(properties[s])
    BY DEF ValueUse
  <2> QED
    BY <1>12, <1>13, <1>14, <2>1, RoomIsLeft
<1>17. value.ok /\ name.value \notin DOMAIN document.properties[type]
  BY <1>5, <1>6, <1>7, <1>9, <1>12, <1>15, <1>16
<1> QED
  BY <1>2, <1>17 DEF ReadProperty

LEMMA FitFinish ==
    ASSUME BackInv, CountInv, Loadable, Finish
    PROVE  pc' # "rejected"
<1>1. ~changed /\ pc = "document" /\ left.documents = 0
  BY DEF Loadable, Finish
<1>2. Back /\ SavedDocuments \in Nat /\ IsAt(reader) /\ IsIndex(source)
      /\ \A d \in DOMAIN source.docs : IdsFit(source.docs[d].groups)
  BY <1>1, BackFacts
<1>3. PICK n \in 0..SavedDocuments :
        left.documents = SavedDocuments - n /\ Rest(reader.position, PiecesFrom(DocumentCodes(source), n))
  BY <1>1, <1>2 DEF Back, BackDocument
<1>4. n = SavedDocuments
  BY <1>1, <1>2, <1>3
<1>5. PiecesFrom(DocumentCodes(source), n) = <<>>
  <2>1. DocumentCodes(source) \in Seq(Text) /\ Len(DocumentCodes(source)) = SavedDocuments
    BY <1>2, PayloadCode DEF SavedDocuments
  <2> QED
    BY <1>4, <2>1, TailProperties
<1>6. Remaining(reader) = 0
  <2>1. Rest(reader.position, <<>>)
    BY <1>3, <1>5
  <2>2. reader.position \in Nat /\ reader.position + Len(<<>>) = Len(payload)
    BY <2>1 DEF Rest
  <2>3. Len(<<>>) = 0
    OBVIOUS
  <2> QED
    BY <2>2, <2>3 DEF Remaining
<1> QED
  BY <1>1, <1>6 DEF Finish

-----------------------------------------------------------------------------
(* Together: an unchanged payload is accepted if and only if its index is  *)
(* within the limits.                                                      *)

FitInv == BackInv /\ CountInv /\ (pc = "rejected" => ~Loadable)

\* The invariant holds at first, and every step keeps it.
LEMMA FitInit == Init => FitInv
BY BackInit, CountInit DEF FitInv, Init

LEMMA FitStep == FitInv /\ [Next]_vars => FitInv'
<1> SUFFICES ASSUME FitInv, [Next]_vars
             PROVE  FitInv'
  OBVIOUS
<1>1. BackInv /\ CountInv
  BY DEF FitInv
<1>2. BackInv' /\ CountInv'
  BY <1>1, BackStep, CountStep
<1>3. ASSUME Loadable, Next
      PROVE  pc' # "rejected"
  <2>1. CASE Change
    BY <2>1 DEF Change
  <2>2. CASE ReadIndex
    BY <1>1, <1>3, <2>2, FitReadIndex
  <2>3. CASE BeginDocument
    BY <1>1, <1>3, <2>3, FitBeginDocument
  <2>4. CASE BeginGroup
    BY <1>1, <1>3, <2>4, FitBeginGroup
  <2>5. CASE ReadKey
    BY <1>1, <1>3, <2>5, FitReadKey
  <2>6. CASE EndGroup
    BY <1>1, <1>3, <2>6, FitEndGroup
  <2>7. CASE BeginProperties
    BY <1>1, <1>3, <2>7, FitBeginProperties
  <2>8. CASE ReadProperty
    BY <1>1, <1>3, <2>8, FitReadProperty
  <2>9. CASE AddDocument
    BY <2>9 DEF AddDocument
  <2>10. CASE Finish
    BY <1>1, <1>3, <2>10, FitFinish
  <2> QED
    BY <1>3, <2>1, <2>2, <2>3, <2>4, <2>5, <2>6, <2>7, <2>8, <2>9, <2>10 DEF Next
<1>4. UNCHANGED <<source, limits>> /\ (changed => changed')
  <2>1. CASE UNCHANGED vars
    BY <2>1 DEF vars, inputVars
  <2>2. CASE Change
    BY <2>2 DEF Change
  <2>3. CASE Next /\ ~Change
    BY <2>3 DEF Next, inputVars, Reject, ReadIndex, BeginDocument, BeginGroup, ReadKey, EndGroup,
                BeginProperties, ReadProperty, AddDocument, Finish
  <2> QED
    BY <2>1, <2>2, <2>3
<1>5. Loadable' => Loadable
  BY <1>4 DEF Loadable, WithinLimits, HasEmptyGroup
<1>6. pc' = "rejected" => ~Loadable'
  <2> SUFFICES ASSUME pc' = "rejected", Loadable'
               PROVE  FALSE
    OBVIOUS
  <2>1. Loadable
    BY <1>5
  <2>2. CASE Next
    BY <1>3, <2>1, <2>2
  <2>3. CASE UNCHANGED vars
    BY <2>1, <2>3 DEF vars, FitInv
  <2> QED
    BY <2>2, <2>3
<1> QED
  BY <1>2, <1>6 DEF FitInv

\* A saved index is loaded exactly when it is within the limits: decode counts
\* and charges neither more nor less than the index has.
THEOREM LimitsAreExact == Spec => []LoadsExactlyWithinLimits
<1>1. FitInv => LoadsExactlyWithinLimits
  <2> SUFFICES ASSUME FitInv, ~changed, ~HasEmptyGroup(source)
               PROVE  /\ pc = "decoded" => WithinLimits(source)
                      /\ pc = "rejected" => ~WithinLimits(source)
    BY DEF LoadsExactlyWithinLimits
  <2>1. ASSUME pc = "decoded"
        PROVE  WithinLimits(source)
    <3>1. /\ IndexBack(SavedDocuments) /\ IsIndex(source)
          /\ \A d \in DOMAIN source.docs : IdsFit(source.docs[d].groups)
          /\ Lists(Ascending(DOMAIN source.docs), DOMAIN source.docs)
      BY <2>1, BackFacts DEF FitInv, Back
    <3>2. index = KeptIndex(source)
      <4>1. Firsts(Ascending(DOMAIN source.docs), SavedDocuments) = DOMAIN source.docs
        BY <3>1, FirstsAll DEF SavedDocuments
      <4> QED
        BY <3>1, <4>1 DEF IndexBack, KeptIndex
    <3>3. WithinLimits(index)
      BY <2>1, AcceptedIsWithin DEF FitInv
    <3> QED
      BY <3>1, <3>2, <3>3, KeptIsWithin
  <2>2. pc = "rejected" => ~WithinLimits(source)
    BY DEF FitInv, Loadable
  <2> QED
    BY <2>1, <2>2
<1> QED
  BY <1>1, FitInit, FitStep, PTL DEF Spec
=============================================================================
