----------------------------- MODULE IndexProofs -----------------------------
(***************************************************************************)
(* Proofs about Indexer and what uses an index, for every set of documents,*)
(* keys, groups and hashes.                                                *)
(*                                                                         *)
(* Indexer: IndInv is an inductive invariant, the safety properties of the *)
(* runs follow from it, and every behaviour is, seen through the mapping   *)
(* of Indexer's last section, one of IndexSpec.                            *)
(* Search, for every request: what the postings answer, counted and        *)
(* intersected over the groups, is what the documents themselves say.      *)
(* IndexCopy, for every original: the copy is an index like any other,     *)
(* answers as the original does, and shares nothing with it.               *)
(***************************************************************************)
EXTENDS Search, IndexCopy, OrdersProofs, SequenceTheorems

-----------------------------------------------------------------------------
(* Indexer: the steps of erasePostings                                     *)

\* erasePostings keeps the types of the index.
LEMMA EraseType ==
    ASSUME TypeOK, NEW G \in SUBSET Groups, NEW d \in Docs, ErasePostings(G, d)
    PROVE  /\ reverseIndices' \subseteq Groups
           /\ keyPtrCache' \in [Groups -> [HashIds -> Keys \union {NoKey}]]
           /\ posted' \subseteq Keys
           /\ postings' \in [Keys -> SUBSET Docs]
  BY KeysAssumption DEF TypeOK, ErasePostings, CachedKey

\* erasePostings takes d, and no other document, out of the posting lists of
\* d's keys, and leaves every other list alone.
LEMMA ErasePoints ==
    ASSUME TypeOK, CacheMatchesPostings,
           NEW G \in SUBSET Groups, NEW d \in Docs, ErasePostings(G, d)
    PROVE  /\ \A c \in Keys : postings'[c] \subseteq postings[c]
           /\ \A c \in Keys : postings[c] \ {d} \subseteq postings'[c]
           /\ \A k \in docKeys[d] : GroupOf[k] \in G /\ CachedKey(k) \in posted
                                       => d \notin postings'[CachedKey(k)]
  BY KeysAssumption DEF TypeOK, ErasePostings, CachedKey

\* The key cache and the posting lists still agree after it.
LEMMA EraseMatches ==
    ASSUME TypeOK, CacheMatchesPostings,
           NEW G \in SUBSET Groups, NEW d \in Docs, ErasePostings(G, d)
    PROVE  CacheMatchesPostings'
<1> DEFINE touched == {CachedKey(k) : k \in {q \in docKeys[d] : GroupOf[q] \in G}}
                        \intersect posted
           emptied == {c \in touched : postings[c] \subseteq {d}}
           kept == posted \ emptied
           gone == {g \in G : IsEmptyIndex(g, kept)}
<1>1. /\ postings' = [c \in Keys |-> IF c \in touched THEN postings[c] \ {d}
                                     ELSE postings[c]]
      /\ posted' = kept
      /\ keyPtrCache' =
            [g \in Groups |-> [h \in HashIds |->
                IF g \in gone \/ UncachedKey(g, h, emptied)
                THEN NoKey ELSE keyPtrCache[g][h]]]
      /\ reverseIndices' = reverseIndices \ gone
  BY DEF ErasePostings
<1>2. \A c \in Keys : c \in posted' <=> postings'[c] # {}
  BY <1>1 DEF TypeOK, CacheMatchesPostings
<1>3. \A c \in posted' : c \in posted /\ c \notin emptied /\ GroupOf[c] \notin gone
  BY <1>1 DEF IsEmptyIndex
<1>4. \A c \in posted' : CachedKey(c)' = c /\ GroupOf[c] \in reverseIndices'
  <2> SUFFICES ASSUME NEW c \in posted'
               PROVE  CachedKey(c)' = c /\ GroupOf[c] \in reverseIndices'
    OBVIOUS
  <2>1. c \in Keys /\ CachedKey(c) = c /\ GroupOf[c] \in reverseIndices
    BY <1>3 DEF TypeOK, CacheMatchesPostings
  <2>2. GroupOf[c] \in Groups /\ HashOf[c] \in HashIds
    BY <2>1, KeysAssumption
  <2>3. ~UncachedKey(GroupOf[c], HashOf[c], emptied)
    \* the only posted key of that group and hash is c itself
    <3> SUFFICES ASSUME NEW e \in emptied, GroupOf[e] = GroupOf[c], HashOf[e] = HashOf[c]
                 PROVE  FALSE
      BY DEF UncachedKey
    <3>1. e \in Keys /\ CachedKey(e) = e
      BY DEF TypeOK, CacheMatchesPostings
    <3> QED
      BY <1>3, <2>1, <3>1 DEF CachedKey
  <2> QED
    BY <1>1, <1>3, <2>1, <2>2, <2>3 DEF CachedKey
<1>5. ASSUME NEW g \in Groups, NEW h \in HashIds, keyPtrCache'[g][h] # NoKey
      PROVE  /\ keyPtrCache'[g][h] \in posted'
             /\ GroupOf[keyPtrCache'[g][h]] = g
             /\ HashOf[keyPtrCache'[g][h]] = h
  <2>1. keyPtrCache'[g][h] = keyPtrCache[g][h] /\ ~UncachedKey(g, h, emptied)
    BY <1>1, <1>5
  <2>2. /\ keyPtrCache[g][h] \in posted
        /\ GroupOf[keyPtrCache[g][h]] = g
        /\ HashOf[keyPtrCache[g][h]] = h
    BY <1>5, <2>1 DEF CacheMatchesPostings
  <2> QED
    BY <1>1, <2>1, <2>2 DEF UncachedKey
<1> QED
  BY <1>2, <1>4, <1>5, EraseType DEF CacheMatchesPostings, TypeOK

\* A posting of another document survives erasePostings.
LEMMA EraseKeepsOthers ==
    ASSUME TypeOK, CacheMatchesPostings,
           NEW G \in SUBSET Groups, NEW d \in Docs, ErasePostings(G, d),
           NEW e \in Docs, e # d, NEW k \in Keys, IsPosted(e, k)
    PROVE  IsPosted(e, k)'
<1>1. GroupOf[k] \in Groups /\ HashOf[k] \in HashIds
  BY KeysAssumption
<1>2. PICK c \in Keys :
        c = CachedKey(k) /\ GroupOf[c] = GroupOf[k] /\ HashOf[c] = HashOf[k] /\ e \in postings[c]
  BY <1>1 DEF IsPosted, CachedKey, CacheMatchesPostings, TypeOK
<1>3. e \in postings'[c]
  BY <1>2, ErasePoints
<1>4. CachedKey(c)' = c
  BY <1>3, EraseMatches DEF CacheMatchesPostings
<1>5. CachedKey(k)' = c
  BY <1>2, <1>4 DEF CachedKey
<1> QED
  BY <1>3, <1>5, KeysAssumption DEF IsPosted

\* The erased document is in no posting list any more, when all of its postings
\* are under keys of its own in groups that were erased.
LEMMA EraseRemoves ==
    ASSUME TypeOK, CacheMatchesPostings,
           NEW G \in SUBSET Groups, NEW d \in Docs, ErasePostings(G, d),
           \A c \in Keys : d \in postings[c] =>
               \E q \in docKeys[d] :
                   GroupOf[q] = GroupOf[c] /\ HashOf[q] = HashOf[c] /\ GroupOf[q] \in G
    PROVE  \A c \in Keys : d \notin postings'[c]
<1> SUFFICES ASSUME NEW c \in Keys, d \in postings'[c]
             PROVE  FALSE
  OBVIOUS
<1>1. d \in postings[c]
  BY ErasePoints
<1>2. PICK q \in docKeys[d] :
        GroupOf[q] = GroupOf[c] /\ HashOf[q] = HashOf[c] /\ GroupOf[q] \in G
  BY <1>1
<1>3. c \in posted /\ CachedKey(c) = c
  BY <1>1 DEF CacheMatchesPostings
<1>4. CachedKey(q) = c
  BY <1>2, <1>3 DEF CachedKey
<1> QED
  BY <1>2, <1>3, <1>4, ErasePoints

-----------------------------------------------------------------------------
(* IndInv holds initially and is kept by every action. *)

LEMMA InitIndInv == Init => IndInv
  BY KeysAssumption, DocsAssumption
  DEF Init, IndInv, TypeOK, CacheMatchesPostings, KeysAreGrouped, CachedUnderItsId,
      CallIsConsistent, NothingStale, NothingMissing, Retained, CachedKey, Posting

\* The owner's edits touch only documents that are in no posting list.
LEMMA EditKeepsIndInv == IndInv /\ EditDocument => IndInv'
<1> SUFFICES ASSUME IndInv, EditDocument
             PROVE  IndInv'
  OBVIOUS
<1> DEFINE Edited(d) ==
        /\ Editable(d)
        /\ docKeys' \in [Docs -> SUBSET Keys]
        /\ docGroups' \in [Docs -> SUBSET Groups]
        /\ \A e \in Docs \ {d} : docKeys'[e] = docKeys[e] /\ docGroups'[e] = docGroups[e]
        /\ \A k \in docKeys'[d] : GroupOf[k] \in docGroups'[d]
        /\ UNCHANGED <<indexVars, pc, callVars>>
<1>1. PICK d \in Docs : Edited(d)
  <2> USE KeysAssumption DEF IndInv, TypeOK, KeysAreGrouped
  <2>1. PICK d \in Docs :
          \/ \E k \in Keys : AddKey(d, k) \/ AddKeyThrows(d, k)
          \/ \E g \in Groups, k \in Keys : RemoveKey(d, g, k) \/ RemoveKeyThrows(d, g, k)
          \/ \E g \in Groups : RemoveGroup(d, g)
    BY DEF EditDocument
  <2>2. ASSUME NEW k \in Keys, AddKey(d, k) PROVE Edited(d)
    BY <2>2 DEF AddKey
  <2>3. ASSUME NEW k \in Keys, AddKeyThrows(d, k) PROVE Edited(d)
    BY <2>3 DEF AddKeyThrows
  <2>4. ASSUME NEW g \in Groups, NEW k \in Keys, RemoveKey(d, g, k) PROVE Edited(d)
    BY <2>4 DEF RemoveKey, GroupKeys
  <2>5. ASSUME NEW g \in Groups, NEW k \in Keys, RemoveKeyThrows(d, g, k) PROVE Edited(d)
    BY <2>5 DEF RemoveKeyThrows, GroupKeys
  <2>6. ASSUME NEW g \in Groups, RemoveGroup(d, g) PROVE Edited(d)
    BY <2>6 DEF RemoveGroup, GroupKeys
  <2> QED
    BY <2>1, <2>2, <2>3, <2>4, <2>5, <2>6
<1>2. UNCHANGED <<docPtrCache, reverseIndices, keyPtrCache, posted, postings, pc, doc,
                  previous, oldGroups, groups, keys>>
  BY <1>1 DEF indexVars, callVars
<1>3. pc = "idle" /\ ~Retained(d)
  BY <1>1 DEF Editable
<1>4. TypeOK'
  BY <1>1, <1>2 DEF IndInv, TypeOK
<1>5. CacheMatchesPostings' /\ CachedUnderItsId'
  BY <1>2 DEF IndInv, CacheMatchesPostings, CachedKey, CachedUnderItsId
<1>6. KeysAreGrouped'
  BY <1>1 DEF IndInv, KeysAreGrouped
<1>7. CallIsConsistent'
  BY <1>2, <1>3 DEF IndInv, CallIsConsistent, Posting
<1>8. NothingStale'
  BY <1>1, <1>2, <1>3 DEF IndInv, TypeOK, NothingStale, Posting, Retained
<1>9. NothingMissing'
  BY <1>1, <1>2, <1>3 DEF IndInv, TypeOK, NothingMissing, Posting, Retained, IsPosted, CachedKey
<1> QED
  BY <1>4, <1>5, <1>6, <1>7, <1>8, <1>9 DEF IndInv

\* A step that changes neither the documents nor the index keeps the parts of
\* IndInv that are about them.
LEMMA IndexUnchangedKeeps ==
    ASSUME IndInv, UNCHANGED <<docVars, indexVars>>
    PROVE  /\ CacheMatchesPostings' /\ KeysAreGrouped' /\ CachedUnderItsId'
           /\ \A d \in Docs : Retained(d)' = Retained(d)
           /\ \A d \in Docs, k \in Keys : IsPosted(d, k)' = IsPosted(d, k)
  BY DEF IndInv, CacheMatchesPostings, KeysAreGrouped, CachedUnderItsId, Retained, IsPosted,
         CachedKey, docVars, indexVars

\* Invoking and resuming, and every way a call ends without a change, leave
\* nothing in flight.
LEMMA QuietStepKeepsIndInv ==
    ASSUME IndInv, UNCHANGED <<docVars, indexVars>>,
           pc \notin {"post", "rollback", "replace"},
           pc' \in {"idle", "index", "remove", "clear", "returned", "threw"},
           doc' \in Docs \union {NoDoc}, previous' \in Docs \union {NoDoc},
           oldGroups' \subseteq Groups, groups' = {}, keys' = {}
    PROVE  IndInv'
<1>1. /\ CacheMatchesPostings' /\ KeysAreGrouped' /\ CachedUnderItsId'
      /\ \A d \in Docs : Retained(d)' = Retained(d)
      /\ \A d \in Docs, k \in Keys : IsPosted(d, k)' = IsPosted(d, k)
  BY IndexUnchangedKeeps
<1>2. TypeOK'
  BY DEF IndInv, TypeOK, docVars, indexVars
<1>3. CallIsConsistent'
  BY DEF CallIsConsistent, Posting
<1>4. NothingStale'
  BY <1>1 DEF IndInv, TypeOK, NothingStale, Posting, docVars, indexVars
<1>5. NothingMissing'
  BY <1>1 DEF IndInv, TypeOK, NothingMissing, docVars, indexVars
<1> QED
  BY <1>1, <1>2, <1>3, <1>4, <1>5 DEF IndInv

LEMMA QuietKeepsIndInv ==
    IndInv /\ (\/ InvokeAny \/ Resume \/ IndexUnchanged \/ IndexThrows
               \/ RemoveUnknown \/ RemoveThrows \/ ClearThrows) => IndInv'
<1> SUFFICES ASSUME IndInv,
                    \/ InvokeAny \/ Resume \/ IndexUnchanged \/ IndexThrows
                    \/ RemoveUnknown \/ RemoveThrows \/ ClearThrows
             PROVE  IndInv'
  OBVIOUS
<1>1. CASE InvokeAny
  <2>1. /\ UNCHANGED <<docVars, indexVars, previous, oldGroups, groups, keys>>
        /\ pc = "idle"
        /\ pc' \in {"index", "remove", "clear"}
        /\ doc' \in Docs \union {NoDoc}
    BY <1>1 DEF InvokeAny, Invoke
  <2> QED
    BY <2>1, QuietStepKeepsIndInv DEF IndInv, TypeOK, CallIsConsistent, Posting
<1>2. CASE Resume
  BY <1>2, QuietStepKeepsIndInv
  DEF Resume, callVars, IndInv, TypeOK, CallIsConsistent, Posting
<1>3. CASE IndexUnchanged \/ IndexThrows \/ RemoveUnknown \/ RemoveThrows \/ ClearThrows
  BY <1>3, QuietStepKeepsIndInv
  DEF IndexUnchanged, IndexThrows, RemoveUnknown, RemoveThrows, ClearThrows, End
<1> QED
  BY <1>1, <1>2, <1>3

\* A step that erases a document no longer retained and ends the call.
LEMMA EraseKeepsIndInv ==
    ASSUME IndInv,
           NEW G \in SUBSET Groups, NEW d \in Docs, ErasePostings(G, d),
           NEW how \in {"returned", "threw"}, End(how), UNCHANGED docVars,
           docPtrCache' \in [Ids -> Docs \union {NoDoc}], CachedUnderItsId',
           ~Retained(d)', \A e \in Docs \ {d} : Retained(e)' = Retained(e),
           \A c \in Keys : \A e \in postings[c] : e # d => Retained(e),
           \A c \in Keys : d \in postings[c] =>
               \E q \in docKeys[d] :
                   GroupOf[q] = GroupOf[c] /\ HashOf[q] = HashOf[c] /\ GroupOf[q] \in G
    PROVE  IndInv'
<1> USE DEF IndInv
<1>1. TypeOK'
  BY EraseType DEF TypeOK, End, docVars
<1>2. CacheMatchesPostings'
  BY EraseMatches
<1>3. \A c \in Keys : d \notin postings'[c]
  BY EraseRemoves
<1>4. KeysAreGrouped' /\ CallIsConsistent'
  BY DEF KeysAreGrouped, CallIsConsistent, Posting, End, docVars
<1>5. NothingStale'
  <2> SUFFICES ASSUME NEW c \in Keys, NEW e \in postings'[c]
               PROVE  /\ \E q \in docKeys[e] : GroupOf[q] = GroupOf[c] /\ HashOf[q] = HashOf[c]
                      /\ Retained(e)'
    BY DEF NothingStale, docVars
  <2>1. e \in postings[c] /\ e # d /\ e \in Docs
    BY <1>1, <1>3, ErasePoints DEF TypeOK
  <2> QED
    BY <2>1 DEF NothingStale
<1>6. NothingMissing'
  <2> SUFFICES ASSUME NEW e \in Docs, Retained(e)', NEW k \in docKeys[e]
               PROVE  IsPosted(e, k)'
    BY DEF NothingMissing, docVars, End
  <2>1. e # d /\ Retained(e) /\ k \in Keys
    BY DEF TypeOK
  <2> QED
    BY <2>1, EraseKeepsOthers DEF NothingMissing
<1> QED
  BY <1>1, <1>2, <1>4, <1>5, <1>6

LEMMA RollbackKeepsIndInv == IndInv /\ Rollback => IndInv'
<1> SUFFICES ASSUME IndInv, Rollback
             PROVE  IndInv'
  OBVIOUS
<1>1. /\ doc \in Docs /\ ~Retained(doc) /\ pc = "rollback"
      /\ ErasePostings(docGroups[doc], doc) /\ End("threw") /\ UNCHANGED <<docVars, docPtrCache>>
      /\ docGroups[doc] \in SUBSET Groups
  BY DEF Rollback, IndInv, CallIsConsistent, Posting, TypeOK
<1>2. docPtrCache' \in [Ids -> Docs \union {NoDoc}] /\ CachedUnderItsId'
  BY <1>1 DEF IndInv, TypeOK, CachedUnderItsId
<1>3. \A e \in Docs : Retained(e)' = Retained(e)
  BY <1>1 DEF Retained
<1>4. \A c \in Keys : \A e \in postings[c] : e # doc => Retained(e)
  BY <1>1 DEF IndInv, NothingStale
<1>5. \A c \in Keys : doc \in postings[c] =>
        \E q \in docKeys[doc] :
            GroupOf[q] = GroupOf[c] /\ HashOf[q] = HashOf[c] /\ GroupOf[q] \in docGroups[doc]
  BY <1>1 DEF IndInv, NothingStale, KeysAreGrouped
<1> QED
  BY <1>1, <1>2, <1>3, <1>4, <1>5, EraseKeepsIndInv

LEMMA ErasePreviousKeepsIndInv == IndInv /\ ErasePrevious => IndInv'
<1> SUFFICES ASSUME IndInv, ErasePrevious
             PROVE  IndInv'
  OBVIOUS
<1>1. PICK d \in Docs :
        /\ d = previous /\ doc \in Docs /\ doc # d /\ pc = "replace"
        /\ Retained(doc) /\ IdOf[d] = IdOf[doc]
        /\ \A k \in docKeys[d] : GroupOf[k] \in oldGroups
        /\ ErasePostings(oldGroups, d) /\ End("returned") /\ UNCHANGED <<docVars, docPtrCache>>
        /\ oldGroups \in SUBSET Groups
  BY DocsAssumption DEF ErasePrevious, IndInv, CallIsConsistent, TypeOK
<1>2. docPtrCache' \in [Ids -> Docs \union {NoDoc}] /\ CachedUnderItsId'
  BY <1>1 DEF IndInv, TypeOK, CachedUnderItsId
<1>3. ~Retained(d)' /\ \A e \in Docs : Retained(e)' = Retained(e)
  BY <1>1 DEF Retained
<1>4. \A c \in Keys : \A e \in postings[c] : e # d => Retained(e)
  BY <1>1 DEF IndInv, NothingStale, Posting
<1>5. \A c \in Keys : d \in postings[c] =>
        \E q \in docKeys[d] :
            GroupOf[q] = GroupOf[c] /\ HashOf[q] = HashOf[c] /\ GroupOf[q] \in oldGroups
  BY <1>1 DEF IndInv, NothingStale
<1> QED
  BY <1>1, <1>2, <1>3, <1>4, <1>5, EraseKeepsIndInv

LEMMA RemoveDocumentKeepsIndInv == IndInv /\ RemoveDocument => IndInv'
<1> SUFFICES ASSUME IndInv, RemoveDocument
             PROVE  IndInv'
  OBVIOUS
<1>1. PICK d \in Docs, G \in SUBSET Groups :
        /\ d = docPtrCache[IdOf[doc]] /\ doc \in Docs
        /\ G = docGroups[d] \intersect reverseIndices
        /\ ErasePostings(G, d)
        /\ docPtrCache' = [docPtrCache EXCEPT ![IdOf[doc]] = NoDoc]
        /\ End("returned") /\ UNCHANGED docVars /\ pc = "remove"
  BY DocsAssumption DEF RemoveDocument, IndInv, TypeOK
<1>2. IdOf[d] = IdOf[doc] /\ IdOf[doc] \in Ids
  BY <1>1, DocsAssumption DEF IndInv, CachedUnderItsId, TypeOK
<1>3. docPtrCache' \in [Ids -> Docs \union {NoDoc}] /\ CachedUnderItsId'
  BY <1>1, <1>2 DEF IndInv, TypeOK, CachedUnderItsId
<1>4. ~Retained(d)' /\ \A e \in Docs \ {d} : Retained(e)' = Retained(e)
  BY <1>1, <1>2, DocsAssumption DEF IndInv, TypeOK, Retained
<1>5. \A c \in Keys : \A e \in postings[c] : e # d => Retained(e)
  BY <1>1 DEF IndInv, NothingStale, Posting
<1>6. \A c \in Keys : d \in postings[c] =>
        \E q \in docKeys[d] : GroupOf[q] = GroupOf[c] /\ HashOf[q] = HashOf[c] /\ GroupOf[q] \in G
  BY <1>1 DEF IndInv, NothingStale, KeysAreGrouped, CacheMatchesPostings
<1> QED
  BY <1>1, <1>2, <1>3, <1>4, <1>5, <1>6, EraseKeepsIndInv

LEMMA PrepareKeepsIndInv == IndInv /\ PrepareIndex => IndInv'
<1> SUFFICES ASSUME IndInv, PrepareIndex
             PROVE  IndInv'
  OBVIOUS
<1>1. /\ pc = "index" /\ pc' = "post" /\ doc' = doc /\ doc \in Docs /\ ~Retained(doc)
      /\ previous' = docPtrCache[IdOf[doc]] /\ groups' = docGroups[doc]
      /\ oldGroups' = IF previous' = NoDoc THEN {} ELSE docGroups[previous'] \intersect reverseIndices
      /\ groups = {} /\ keys = {} /\ keys' = keys /\ UNCHANGED <<docVars, indexVars>>
  BY DEF PrepareIndex, IndInv, TypeOK, CallIsConsistent, Posting
<1>2. /\ CacheMatchesPostings' /\ KeysAreGrouped' /\ CachedUnderItsId'
      /\ \A d \in Docs : Retained(d)' = Retained(d)
      /\ \A d \in Docs, k \in Keys : IsPosted(d, k)' = IsPosted(d, k)
  BY <1>1, IndexUnchangedKeeps
<1>3. TypeOK'
  BY <1>1, DocsAssumption DEF IndInv, TypeOK, docVars, indexVars
<1>4. previous' # NoDoc => \A k \in docKeys'[previous'] : GroupOf[k] \in oldGroups'
  <2> SUFFICES ASSUME previous' # NoDoc, NEW k \in docKeys[previous']
               PROVE  GroupOf[k] \in oldGroups'
    BY <1>1 DEF docVars
  <2>1. PICK d \in Docs : d = previous' /\ Retained(d)
    BY <1>1, DocsAssumption DEF IndInv, TypeOK, CachedUnderItsId, Retained
  <2>2. k \in Keys /\ IsPosted(d, k) /\ GroupOf[k] \in docGroups[d]
    BY <2>1 DEF IndInv, TypeOK, NothingMissing, KeysAreGrouped
  <2>3. CachedKey(k) \in posted /\ GroupOf[CachedKey(k)] = GroupOf[k]
    BY <2>2, KeysAssumption DEF IndInv, CacheMatchesPostings, CachedKey, IsPosted
  <2> QED
    BY <1>1, <2>1, <2>2, <2>3 DEF IndInv, TypeOK, CacheMatchesPostings
<1>5. CallIsConsistent'
  BY <1>1, <1>2, <1>4 DEF CallIsConsistent, Posting, docVars, indexVars
<1>6. NothingStale'
  BY <1>1, <1>2 DEF IndInv, TypeOK, NothingStale, Posting, docVars, indexVars
<1>7. NothingMissing'
  BY <1>1, <1>2 DEF IndInv, TypeOK, NothingMissing, KeysAreGrouped, docVars, indexVars
<1> QED
  BY <1>2, <1>3, <1>5, <1>6, <1>7 DEF IndInv

LEMMA PublishKeepsIndInv == IndInv /\ (\E g \in Groups : PublishGroup(g)) => IndInv'
<1> SUFFICES ASSUME IndInv, NEW g \in Groups, PublishGroup(g)
             PROVE  IndInv'
  OBVIOUS
<1>1. /\ pc = "post" /\ pc' = pc /\ doc' = doc /\ previous' = previous /\ oldGroups' = oldGroups
      /\ keys = {} /\ groups' = groups \ {g} /\ keys' = GroupKeys(doc, g)
      /\ reverseIndices' = reverseIndices \union {g}
      /\ UNCHANGED <<docKeys, docGroups, docPtrCache, keyPtrCache, posted, postings>>
  BY DEF PublishGroup, docVars
<1>2. doc \in Docs /\ keys' = {k \in docKeys[doc] : GroupOf[k] = g}
  BY <1>1 DEF IndInv, CallIsConsistent, Posting, GroupKeys
<1>3. TypeOK'
  BY <1>1, <1>2 DEF IndInv, TypeOK
<1>4. CacheMatchesPostings' /\ KeysAreGrouped' /\ CachedUnderItsId'
  BY <1>1 DEF IndInv, CacheMatchesPostings, CachedKey, KeysAreGrouped, CachedUnderItsId
<1>5. CallIsConsistent'
  BY <1>1, <1>2 DEF IndInv, CallIsConsistent, Posting, Retained
<1>6. NothingStale'
  BY <1>1 DEF IndInv, NothingStale, Posting, Retained
<1>7. NothingMissing'
  BY <1>1, <1>2 DEF IndInv, NothingMissing, Retained, IsPosted, CachedKey
<1> QED
  BY <1>3, <1>4, <1>5, <1>6, <1>7 DEF IndInv

\* putDocument keeps every posting there is and adds one.
LEMMA PutPoints ==
    ASSUME TypeOK, CacheMatchesPostings, NEW k \in Keys, PutDocument(k), doc \in Docs
    PROVE  \E c \in Keys :
             /\ GroupOf[c] = GroupOf[k] /\ HashOf[c] = HashOf[k]
             /\ CachedKey(k) # NoKey => c = CachedKey(k)
             /\ posted' = posted \union {c}
             /\ postings' = [postings EXCEPT ![c] = @ \union {doc}]
             /\ keyPtrCache' \in [Groups -> [HashIds -> Keys \union {NoKey}]]
             /\ \A g \in Groups, h \in HashIds :
                   keyPtrCache'[g][h] = IF g = GroupOf[k] /\ h = HashOf[k] THEN c
                                        ELSE keyPtrCache[g][h]
<1>1. GroupOf[k] \in Groups /\ HashOf[k] \in HashIds
  BY KeysAssumption
<1>2. PICK c : c = CanonicalKey(k)
  OBVIOUS
<1>3. /\ c \in Keys /\ GroupOf[c] = GroupOf[k] /\ HashOf[c] = HashOf[k]
      /\ CachedKey(k) # NoKey => c = CachedKey(k)
  BY <1>1, <1>2 DEF CanonicalKey, CachedKey, CacheMatchesPostings, TypeOK
<1>4. /\ posted' = posted \union {c}
      /\ postings' = [postings EXCEPT ![c] = @ \union {doc}]
      /\ keyPtrCache' = [keyPtrCache EXCEPT ![GroupOf[k]][HashOf[k]] = c]
  BY <1>2 DEF PutDocument
<1>5. /\ keyPtrCache' \in [Groups -> [HashIds -> Keys \union {NoKey}]]
      /\ \A g \in Groups, h \in HashIds :
            keyPtrCache'[g][h] = IF g = GroupOf[k] /\ h = HashOf[k] THEN c
                                 ELSE keyPtrCache[g][h]
  BY <1>1, <1>3, <1>4 DEF TypeOK
<1> QED
  BY <1>3, <1>4, <1>5

LEMMA PutKeepsIndInv == IndInv /\ (\E k \in Keys : PutDocument(k)) => IndInv'
<1> SUFFICES ASSUME IndInv, NEW k \in Keys, PutDocument(k)
             PROVE  IndInv'
  OBVIOUS
<1> USE DEF IndInv
<1>1. /\ pc = "post" /\ pc' = pc /\ k \in keys /\ keys' = keys \ {k}
      /\ UNCHANGED <<docKeys, docGroups, docPtrCache, reverseIndices, doc, previous, oldGroups, groups>>
  BY DEF PutDocument, docVars
<1>2. doc \in Docs /\ k \in docKeys[doc] /\ GroupOf[k] \in reverseIndices
  BY <1>1 DEF CallIsConsistent, Posting
<1>3. PICK c \in Keys :
        /\ GroupOf[c] = GroupOf[k] /\ HashOf[c] = HashOf[k]
        /\ CachedKey(k) # NoKey => c = CachedKey(k)
        /\ posted' = posted \union {c}
        /\ postings' = [postings EXCEPT ![c] = @ \union {doc}]
        /\ keyPtrCache' \in [Groups -> [HashIds -> Keys \union {NoKey}]]
        /\ \A g \in Groups, h \in HashIds :
              keyPtrCache'[g][h] = IF g = GroupOf[k] /\ h = HashOf[k] THEN c
                                   ELSE keyPtrCache[g][h]
  BY <1>2, PutPoints
<1>4. TypeOK'
  BY <1>1, <1>2, <1>3 DEF TypeOK
<1>5. \A x \in Keys : CachedKey(x)' =
         IF GroupOf[x] = GroupOf[k] /\ HashOf[x] = HashOf[k] THEN c ELSE CachedKey(x)
  BY <1>3, KeysAssumption DEF CachedKey
<1>6. \A x \in Keys : postings'[x] = IF x = c THEN postings[x] \union {doc} ELSE postings[x]
  BY <1>3 DEF TypeOK
<1>7. CacheMatchesPostings'
  <2>1. ASSUME NEW g \in Groups, NEW h \in HashIds, keyPtrCache'[g][h] # NoKey
        PROVE  /\ keyPtrCache'[g][h] \in posted'
               /\ GroupOf[keyPtrCache'[g][h]] = g
               /\ HashOf[keyPtrCache'[g][h]] = h
    BY <1>3, <2>1 DEF CacheMatchesPostings
  <2>2. ASSUME NEW x \in posted'
        PROVE  CachedKey(x)' = x /\ GroupOf[x] \in reverseIndices'
    <3>1. CASE x = c
      BY <1>1, <1>2, <1>3, <1>5, <3>1
    <3>2. CASE x # c
      <4>1. x \in posted /\ x \in Keys /\ CachedKey(x) = x /\ GroupOf[x] \in reverseIndices
        BY <1>3, <3>2 DEF CacheMatchesPostings, TypeOK
      <4>2. ~(GroupOf[x] = GroupOf[k] /\ HashOf[x] = HashOf[k])
        \* or x would be the key cached for k, which is c
        BY <1>3, <3>2, <4>1, KeysAssumption DEF CachedKey
      <4> QED
        BY <1>1, <1>5, <4>1, <4>2
    <3> QED
      BY <3>1, <3>2
  <2>3. \A x \in Keys : x \in posted' <=> postings'[x] # {}
    <3>1. (\A x \in Keys : x \in posted <=> postings[x] # {}) /\ posted' = posted \union {c}
      BY <1>3 DEF CacheMatchesPostings
    <3> QED
      BY <1>6, <3>1
  <2> QED
    BY <1>4, <2>1, <2>2, <2>3 DEF CacheMatchesPostings
<1>8. \A d \in Docs, x \in Keys : IsPosted(d, x) => IsPosted(d, x)'
  <2> SUFFICES ASSUME NEW d \in Docs, NEW x \in Keys, IsPosted(d, x)
               PROVE  IsPosted(d, x)'
    OBVIOUS
  <2>1. CachedKey(x) \in Keys /\ CachedKey(x) # NoKey /\ d \in postings[CachedKey(x)]
    BY KeysAssumption DEF IsPosted, TypeOK, CachedKey
  <2>2. CachedKey(x)' = CachedKey(x)
    BY <1>3, <1>5, <2>1 DEF CachedKey
  <2> QED
    BY <1>6, <2>1, <2>2 DEF IsPosted
<1>9. IsPosted(doc, k)'
  <2>1. CachedKey(k)' = c /\ c # NoKey /\ doc' = doc
    BY <1>1, <1>5, KeysAssumption
  <2>2. doc \in postings'[c]
    BY <1>6
  <2> QED
    BY <2>1, <2>2 DEF IsPosted
<1>10. KeysAreGrouped' /\ CachedUnderItsId' /\ CallIsConsistent'
  BY <1>1 DEF KeysAreGrouped, CachedUnderItsId, CallIsConsistent, Posting, Retained
<1>11. NothingStale'
  BY <1>1, <1>2, <1>3, <1>6 DEF NothingStale, Posting, Retained
<1>12. NothingMissing'
  BY <1>1, <1>2, <1>8, <1>9 DEF NothingMissing, Retained, TypeOK
<1> QED
  BY <1>4, <1>7, <1>10, <1>11, <1>12

\* Whatever allocation of putDocument throws, its catch block restores the
\* reverse index.
LEMMA PutThrowsChangesNothing ==
    ASSUME TypeOK, CacheMatchesPostings,
           NEW k \in Keys, NEW step \in PutStages, PutDocumentThrows(k, step)
    PROVE  UNCHANGED <<docVars, indexVars>>
<1>1. GroupOf[k] \in Groups /\ HashOf[k] \in HashIds
  BY KeysAssumption
<1>2. posted' = posted
  BY DEF PutDocumentThrows, IsNewPosting
<1>3. keyPtrCache' = keyPtrCache
  BY <1>1 DEF PutDocumentThrows, TypeOK, CachedKey
<1> QED
  BY <1>2, <1>3 DEF PutDocumentThrows, indexVars

LEMMA ThrowKeepsIndInv ==
    IndInv /\ (\/ \E g \in Groups : PublishGroupThrows(g)
               \/ \E k \in Keys, step \in PutStages : PutDocumentThrows(k, step)
               \/ CacheDocumentThrows) => IndInv'
<1> SUFFICES ASSUME IndInv,
                    \/ \E g \in Groups : PublishGroupThrows(g)
                    \/ \E k \in Keys, step \in PutStages : PutDocumentThrows(k, step)
                    \/ CacheDocumentThrows
             PROVE  IndInv'
  OBVIOUS
<1>1. pc = "post" /\ pc' = "rollback" /\ UNCHANGED callVars
  BY DEF PublishGroupThrows, PutDocumentThrows, CacheDocumentThrows
<1>2. UNCHANGED <<docVars, indexVars>>
  BY PutThrowsChangesNothing DEF IndInv, PublishGroupThrows, CacheDocumentThrows
<1>3. /\ CacheMatchesPostings' /\ KeysAreGrouped' /\ CachedUnderItsId'
      /\ \A d \in Docs : Retained(d)' = Retained(d)
      /\ \A d \in Docs, k \in Keys : IsPosted(d, k)' = IsPosted(d, k)
  BY <1>2, IndexUnchangedKeeps
<1>4. TypeOK'
  BY <1>1, <1>2 DEF IndInv, TypeOK, docVars, indexVars, callVars
<1>5. CallIsConsistent'
  BY <1>1, <1>2, <1>3 DEF IndInv, CallIsConsistent, Posting, docVars, indexVars, callVars
<1>6. NothingStale'
  BY <1>1, <1>2, <1>3 DEF IndInv, TypeOK, NothingStale, Posting, docVars, indexVars, callVars
<1>7. NothingMissing'
  BY <1>1, <1>2, <1>3 DEF IndInv, TypeOK, NothingMissing, docVars, indexVars, callVars
<1> QED
  BY <1>3, <1>4, <1>5, <1>6, <1>7 DEF IndInv

LEMMA CacheKeepsIndInv == IndInv /\ CacheDocument => IndInv'
<1> SUFFICES ASSUME IndInv, CacheDocument
             PROVE  IndInv'
  OBVIOUS
<1> USE DEF IndInv
<1>1. PICK d \in Docs :
        /\ d = doc /\ ~Retained(d) /\ previous = docPtrCache[IdOf[d]]
        /\ previous # NoDoc => \A k \in docKeys[previous] : GroupOf[k] \in oldGroups
  BY DEF CacheDocument, CallIsConsistent, Posting
<1>2. /\ pc = "post" /\ groups = {} /\ keys = {}
      /\ docPtrCache' = [docPtrCache EXCEPT ![IdOf[d]] = d]
      /\ UNCHANGED <<docKeys, docGroups, reverseIndices, keyPtrCache, posted, postings>>
  BY <1>1 DEF CacheDocument, docVars
<1>3. IdOf[d] \in Ids /\ d # NoDoc /\ NoDoc \notin Docs
  BY DocsAssumption
<1>4. \A e \in Docs : Retained(e)' <=> e = d \/ (Retained(e) /\ e # previous)
  BY <1>1, <1>2, <1>3, DocsAssumption DEF TypeOK, Retained, CachedUnderItsId
<1>5. /\ \/ previous = NoDoc /\ pc' = "returned" /\ oldGroups' = {}
         \/ /\ previous # NoDoc /\ pc' = "replace" /\ doc' = d
            /\ previous' = previous /\ oldGroups' = oldGroups
      /\ doc' \in Docs \union {NoDoc} /\ previous' \in Docs \union {NoDoc}
      /\ groups' = {} /\ keys' = {}
  BY <1>1, <1>2 DEF CacheDocument, End, callVars, TypeOK
<1>6. TypeOK'
  BY <1>2, <1>3, <1>5 DEF TypeOK
<1>7. CacheMatchesPostings' /\ KeysAreGrouped'
  BY <1>2 DEF CacheMatchesPostings, CachedKey, KeysAreGrouped
<1>8. CachedUnderItsId'
  BY <1>2, <1>3 DEF CachedUnderItsId, TypeOK
<1>9. CallIsConsistent'
  <2>1. CASE previous = NoDoc
    BY <1>5, <2>1 DEF CallIsConsistent, Posting
  <2>2. CASE previous # NoDoc
    <3>1. previous \in Docs /\ IdOf[previous] = IdOf[d] /\ previous # d
      BY <1>1, <1>3, <2>2 DEF TypeOK, CachedUnderItsId, Retained
    <3> QED
      BY <1>1, <1>2, <1>4, <1>5, <2>2, <3>1 DEF CallIsConsistent, Posting
  <2> QED
    BY <2>1, <2>2
<1>10. NothingStale'
  BY <1>1, <1>2, <1>3, <1>4, <1>5 DEF NothingStale, TypeOK, Posting
<1>11. NothingMissing'
  BY <1>1, <1>2, <1>4, <1>5 DEF NothingMissing, TypeOK, IsPosted, CachedKey
<1> QED
  BY <1>6, <1>7, <1>8, <1>9, <1>10, <1>11

LEMMA ClearKeepsIndInv == IndInv /\ Clear => IndInv'
  BY DocsAssumption, KeysAssumption
  DEF Clear, End, docVars, IndInv, TypeOK, CacheMatchesPostings, KeysAreGrouped,
      CachedUnderItsId, CallIsConsistent, NothingStale, NothingMissing, Posting, Retained

LEMMA StutterKeepsIndInv == IndInv /\ UNCHANGED vars => IndInv'
  BY DEF vars, docVars, indexVars, callVars, IndInv, TypeOK, CacheMatchesPostings,
         KeysAreGrouped, CachedUnderItsId, CallIsConsistent, NothingStale, NothingMissing,
         Posting, Retained, IsPosted, CachedKey

LEMMA NextKeepsIndInv == IndInv /\ [Next]_vars => IndInv'
  BY EditKeepsIndInv, QuietKeepsIndInv, PrepareKeepsIndInv, PublishKeepsIndInv,
     PutKeepsIndInv, ThrowKeepsIndInv, CacheKeepsIndInv, RollbackKeepsIndInv,
     ErasePreviousKeepsIndInv, RemoveDocumentKeepsIndInv, ClearKeepsIndInv,
     StutterKeepsIndInv
  DEF Next, IndexStep, RemoveStep, ClearStep

\* IndInv is inductive.
THEOREM IndInvInvariant == Spec => []IndInv
  BY InitIndInv, NextKeepsIndInv, PTL DEF Spec

-----------------------------------------------------------------------------
(* What follows from IndInv *)

\* The types of the variables, in every reachable state.
THEOREM TypeCorrect == Spec => []TypeOK
  BY IndInvInvariant, PTL DEF IndInv

\* The key cache and the posting lists agree in every reachable state.
THEOREM CacheIsSound == Spec => []CacheMatchesPostings
  BY IndInvInvariant, PTL DEF IndInv

LEMMA PostedIsFound ==
    ASSUME IndInv, NEW d \in Docs, NEW k \in Keys, IsPosted(d, k)
    PROVE  d \in Lookup(GroupOf[k], HashOf[k])
<1>1. GroupOf[k] \in Groups /\ HashOf[k] \in HashIds
  BY KeysAssumption
<1>2. CachedKey(k) \in posted /\ d \in postings[CachedKey(k)] /\ GroupOf[CachedKey(k)] = GroupOf[k]
  BY <1>1 DEF IndInv, CacheMatchesPostings, IsPosted, CachedKey
<1>3. GroupOf[k] \in reverseIndices
  BY <1>2 DEF IndInv, CacheMatchesPostings, TypeOK
<1> QED
  BY <1>2, <1>3 DEF Lookup, CachedKey

\* A retained document is found by each of its keys in every reachable state,
\* in the middle of a replacement or a rollback too.
THEOREM RetainedIsAlwaysFindable == Spec => []RetainedIsFindable
<1>1. IndInv => RetainedIsFindable
  BY PostedIsFound DEF IndInv, NothingMissing, RetainedIsFindable, TypeOK
<1> QED
  BY <1>1, IndInvInvariant, PTL

LEMMA IndInvMakesAnswersExact == IndInv => AnswersAreExact
<1> SUFFICES ASSUME IndInv, AtRest, NEW g \in Groups, NEW h \in HashIds
             PROVE  Lookup(g, h) =
                      {d \in Docs : Retained(d) /\ \E k \in GroupKeys(d, g) : HashOf[k] = h}
  BY DEF AnswersAreExact
<1>1. ASSUME NEW d \in Lookup(g, h)
      PROVE  d \in Docs /\ Retained(d) /\ \E k \in GroupKeys(d, g) : HashOf[k] = h
  <2>1. PICK c \in Keys : c = keyPtrCache[g][h] /\ c \in posted /\ d \in postings[c]
    BY <1>1 DEF Lookup, IndInv, TypeOK
  <2>2. GroupOf[c] = g /\ HashOf[c] = h
    BY <2>1, KeysAssumption DEF IndInv, CacheMatchesPostings
  <2> QED
    BY <2>1, <2>2 DEF IndInv, TypeOK, NothingStale, AtRest, Posting, GroupKeys
<1>2. ASSUME NEW d \in Docs, Retained(d), NEW k \in GroupKeys(d, g), HashOf[k] = h
      PROVE  d \in Lookup(g, h)
  <2>1. k \in Keys /\ k \in docKeys[d] /\ GroupOf[k] = g
    BY DEF GroupKeys, IndInv, TypeOK
  <2>2. IsPosted(d, k)
    BY <1>2, <2>1 DEF IndInv, NothingMissing
  <2> QED
    BY <1>2, <2>1, <2>2, PostedIsFound
<1> QED
  BY <1>1, <1>2

\* Between calls every lookup returns exactly the retained documents with a key
\* of that group and hash.
THEOREM AnswersAreAlwaysExact == Spec => []AnswersAreExact
  BY IndInvMakesAnswersExact, IndInvInvariant, PTL
-----------------------------------------------------------------------------
(* Reverse indexes and the documents that name their groups *)

\* Who a published reverse index belongs to in the middle of a call.
HasOwner(g) ==
    \/ \E d \in Docs : Retained(d) /\ g \in docGroups[d]
    \/ Posting /\ g \in docGroups[doc]
    \/ pc = "replace" /\ g \in oldGroups

OwnerInv ==
    /\ \A g \in reverseIndices : HasOwner(g)
    /\ Posting => groups \subseteq docGroups[doc]
    /\ Posting /\ previous # NoDoc =>
        \A g \in docGroups[previous] \intersect reverseIndices :
            g \in oldGroups \union docGroups[doc]

LEMMA InitOwnerInv == Init => OwnerInv
  BY DEF Init, OwnerInv, Posting

\* What erasePostings leaves published has a posted key.
LEMMA EraseLeavesPosted ==
    ASSUME IndInv, NEW G \in SUBSET Groups, NEW d \in Docs, ErasePostings(G, d)
    PROVE  /\ reverseIndices' \subseteq reverseIndices
           /\ \A g \in reverseIndices' \intersect G : \E c \in posted' : GroupOf[c] = g
  BY DEF ErasePostings, IsEmptyIndex

\* A step that erases a document and ends the call: a group it erased from and
\* left published is named by a document that still has a posting in it.
LEMMA EraseKeepsOwnerInv ==
    ASSUME IndInv, IndInv', NEW G \in SUBSET Groups, NEW d \in Docs, ErasePostings(G, d),
           NEW how \in {"returned", "threw"}, End(how), UNCHANGED docVars,
           \A g \in reverseIndices \ G : \E e \in Docs : Retained(e)' /\ g \in docGroups[e]
    PROVE  OwnerInv'
<1>1. pc' \in {"returned", "threw"} /\ ~Posting'
  BY DEF End, Posting
<1>2. ASSUME NEW g \in reverseIndices'
      PROVE  \E e \in Docs : Retained(e)' /\ g \in docGroups'[e]
  <2>1. CASE g \notin G
    BY <2>1, EraseLeavesPosted DEF docVars
  <2>2. CASE g \in G
    <3>1. PICK c \in Keys : c \in posted' /\ GroupOf[c] = g
      BY <2>2, EraseLeavesPosted DEF IndInv, TypeOK
    <3>2. PICK e \in Docs : e \in postings'[c]
      BY <3>1 DEF IndInv, CacheMatchesPostings, TypeOK
    <3>3. Retained(e)' /\ \E q \in docKeys'[e] : GroupOf[q] = g
      BY <1>1, <3>1, <3>2 DEF IndInv, NothingStale
    <3> QED
      BY <3>3 DEF IndInv, KeysAreGrouped
  <2> QED
    BY <2>1, <2>2
<1> QED
  BY <1>1, <1>2 DEF OwnerInv, HasOwner

LEMMA RollbackKeepsOwnerInv == IndInv /\ IndInv' /\ OwnerInv /\ Rollback => OwnerInv'
<1> SUFFICES ASSUME IndInv, IndInv', OwnerInv, Rollback
             PROVE  OwnerInv'
  OBVIOUS
<1>1. /\ doc \in Docs /\ pc = "rollback"
      /\ ErasePostings(docGroups[doc], doc) /\ End("threw") /\ UNCHANGED <<docVars, docPtrCache>>
      /\ docGroups[doc] \in SUBSET Groups
  BY DEF Rollback, IndInv, CallIsConsistent, Posting, TypeOK
<1>2. \A g \in reverseIndices \ docGroups[doc] :
        \E e \in Docs : Retained(e)' /\ g \in docGroups[e]
  BY <1>1 DEF OwnerInv, HasOwner, Retained
<1> QED
  BY <1>1, <1>2, EraseKeepsOwnerInv

LEMMA ErasePreviousKeepsOwnerInv ==
    IndInv /\ IndInv' /\ OwnerInv /\ ErasePrevious => OwnerInv'
<1> SUFFICES ASSUME IndInv, IndInv', OwnerInv, ErasePrevious
             PROVE  OwnerInv'
  OBVIOUS
<1>1. /\ previous \in Docs /\ pc = "replace"
      /\ ErasePostings(oldGroups, previous) /\ End("returned") /\ UNCHANGED <<docVars, docPtrCache>>
      /\ oldGroups \in SUBSET Groups
  BY DEF ErasePrevious, IndInv, CallIsConsistent, TypeOK
<1>2. \A g \in reverseIndices \ oldGroups :
        \E e \in Docs : Retained(e)' /\ g \in docGroups[e]
  BY <1>1 DEF OwnerInv, HasOwner, Retained, Posting
<1> QED
  BY <1>1, <1>2, EraseKeepsOwnerInv

LEMMA RemoveDocumentKeepsOwnerInv ==
    IndInv /\ IndInv' /\ OwnerInv /\ RemoveDocument => OwnerInv'
<1> SUFFICES ASSUME IndInv, IndInv', OwnerInv, RemoveDocument
             PROVE  OwnerInv'
  OBVIOUS
<1>1. PICK d \in Docs, G \in SUBSET Groups :
        /\ d = docPtrCache[IdOf[doc]] /\ doc \in Docs
        /\ G = docGroups[d] \intersect reverseIndices
        /\ ErasePostings(G, d)
        /\ docPtrCache' = [docPtrCache EXCEPT ![IdOf[doc]] = NoDoc]
        /\ End("returned") /\ UNCHANGED docVars /\ pc = "remove"
  BY DocsAssumption DEF RemoveDocument, IndInv, TypeOK
<1>2. IdOf[d] = IdOf[doc] /\ IdOf[doc] \in Ids
  BY <1>1, DocsAssumption DEF IndInv, CachedUnderItsId, TypeOK
<1>3. \A e \in Docs \ {d} : Retained(e)' = Retained(e)
  BY <1>1, <1>2, DocsAssumption DEF IndInv, TypeOK, Retained
<1>4. \A g \in reverseIndices \ G : \E e \in Docs : Retained(e)' /\ g \in docGroups[e]
  BY <1>1, <1>3 DEF OwnerInv, HasOwner, Posting
<1> QED
  BY <1>1, <1>4, EraseKeepsOwnerInv

\* Edits touch documents that are not retained, between calls.
LEMMA EditKeepsOwnerInv == IndInv /\ OwnerInv /\ EditDocument => OwnerInv'
<1> SUFFICES ASSUME IndInv, OwnerInv, EditDocument
             PROVE  OwnerInv'
  OBVIOUS
<1>1. PICK d \in Docs :
        /\ Editable(d)
        /\ \A e \in Docs \ {d} : docGroups'[e] = docGroups[e]
        /\ UNCHANGED <<indexVars, pc, callVars>>
  <2> USE DEF IndInv, TypeOK
  <2>1. PICK d \in Docs :
          \/ \E k \in Keys : AddKey(d, k) \/ AddKeyThrows(d, k)
          \/ \E g \in Groups, k \in Keys : RemoveKey(d, g, k) \/ RemoveKeyThrows(d, g, k)
          \/ \E g \in Groups : RemoveGroup(d, g)
    BY DEF EditDocument
  <2>2. Editable(d) /\ UNCHANGED <<indexVars, pc, callVars>>
    BY <2>1 DEF AddKey, AddKeyThrows, RemoveKey, RemoveKeyThrows, RemoveGroup
  <2>3. \A e \in Docs \ {d} : docGroups'[e] = docGroups[e]
    BY <2>1 DEF AddKey, AddKeyThrows, RemoveKey, RemoveKeyThrows, RemoveGroup
  <2> QED
    BY <2>2, <2>3
<1>2. /\ pc = "idle" /\ pc' = "idle" /\ ~Retained(d) /\ reverseIndices' = reverseIndices
      /\ \A e \in Docs : Retained(e)' = Retained(e)
  BY <1>1 DEF Editable, indexVars, Retained
<1> QED
  BY <1>1, <1>2 DEF OwnerInv, HasOwner, Posting

\* Steps outside of indexDocument that leave the index and the documents alone.
LEMMA QuietKeepsOwnerInv ==
    IndInv /\ OwnerInv /\ (\/ InvokeAny \/ Resume \/ IndexUnchanged \/ IndexThrows
                           \/ RemoveUnknown \/ RemoveThrows \/ ClearThrows) => OwnerInv'
<1> SUFFICES ASSUME IndInv, OwnerInv,
                    \/ InvokeAny \/ Resume \/ IndexUnchanged \/ IndexThrows
                    \/ RemoveUnknown \/ RemoveThrows \/ ClearThrows
             PROVE  OwnerInv'
  OBVIOUS
<1>1. /\ pc \notin {"post", "rollback", "replace"} /\ pc' \notin {"post", "rollback", "replace"}
      /\ UNCHANGED <<docVars, indexVars>>
  BY DEF InvokeAny, Invoke, Resume, IndexUnchanged, IndexThrows, RemoveUnknown, RemoveThrows,
         ClearThrows, End
<1>2. reverseIndices' = reverseIndices /\ docGroups' = docGroups
      /\ \A e \in Docs : Retained(e)' = Retained(e)
  BY <1>1 DEF docVars, indexVars, Retained
<1> QED
  BY <1>1, <1>2 DEF OwnerInv, HasOwner, Posting

\* The groups of the replaced document that have a reverse index are noted
\* before any is published, so that only those of the new document join them.
LEMMA PostKeepsOwnerInv ==
    IndInv /\ IndInv' /\ OwnerInv
        /\ (\/ PrepareIndex
            \/ \E g \in Groups : PublishGroup(g) \/ PublishGroupThrows(g)
            \/ \E k \in Keys : PutDocument(k)
            \/ \E k \in Keys, step \in PutStages : PutDocumentThrows(k, step)
            \/ CacheDocumentThrows) => OwnerInv'
<1> SUFFICES ASSUME IndInv, IndInv', OwnerInv,
                    \/ PrepareIndex
                    \/ \E g \in Groups : PublishGroup(g) \/ PublishGroupThrows(g)
                    \/ \E k \in Keys : PutDocument(k)
                    \/ \E k \in Keys, step \in PutStages : PutDocumentThrows(k, step)
                    \/ CacheDocumentThrows
             PROVE  OwnerInv'
  OBVIOUS
<1>1. CASE PrepareIndex
  <2>1. /\ pc = "index" /\ pc' = "post" /\ doc' = doc /\ groups' = docGroups[doc]
        /\ oldGroups' = IF previous' = NoDoc THEN {} ELSE docGroups[previous'] \intersect reverseIndices
        /\ docGroups' = docGroups /\ reverseIndices' = reverseIndices
        /\ \A e \in Docs : Retained(e)' = Retained(e)
    BY <1>1 DEF PrepareIndex, docVars, indexVars, Retained
  <2> QED
    BY <2>1 DEF OwnerInv, HasOwner, Posting
<1>2. ASSUME NEW g \in Groups, PublishGroup(g)
      PROVE  OwnerInv'
  <2>1. /\ pc = "post" /\ pc' = "post" /\ g \in groups /\ groups' = groups \ {g}
        /\ reverseIndices' = reverseIndices \union {g}
        /\ UNCHANGED <<docGroups, doc, previous, oldGroups>>
        /\ \A e \in Docs : Retained(e)' = Retained(e)
    BY <1>2 DEF PublishGroup, docVars, Retained
  <2> QED
    BY <2>1 DEF OwnerInv, HasOwner, Posting
<1>3. CASE \/ \E g \in Groups : PublishGroupThrows(g)
           \/ \E k \in Keys : PutDocument(k)
           \/ \E k \in Keys, step \in PutStages : PutDocumentThrows(k, step)
           \/ CacheDocumentThrows
  <2>1. /\ pc = "post" /\ pc' \in {"post", "rollback"}
        /\ UNCHANGED <<docGroups, docPtrCache, reverseIndices, doc, previous, oldGroups, groups>>
    BY <1>3 DEF PublishGroupThrows, PutDocument, PutDocumentThrows, CacheDocumentThrows,
                docVars, indexVars, callVars
  <2>2. \A e \in Docs : Retained(e)' = Retained(e)
    BY <2>1 DEF Retained
  <2> QED
    BY <2>1, <2>2 DEF OwnerInv, HasOwner, Posting
<1> QED
  BY <1>1, <1>2, <1>3

\* The new document takes the place of the previous one as the owner of what
\* both name; what only the previous one named is about to be erased.
LEMMA CacheKeepsOwnerInv == IndInv /\ OwnerInv /\ CacheDocument => OwnerInv'
<1> SUFFICES ASSUME IndInv, OwnerInv, CacheDocument
             PROVE  OwnerInv'
  OBVIOUS
<1>1. PICK d \in Docs :
        /\ pc = "post" /\ d = doc /\ previous = docPtrCache[IdOf[d]]
        /\ docPtrCache' = [docPtrCache EXCEPT ![IdOf[d]] = d]
        /\ UNCHANGED <<docKeys, docGroups, reverseIndices>>
        /\ \/ previous = NoDoc /\ pc' = "returned"
           \/ previous # NoDoc /\ pc' = "replace" /\ oldGroups' = oldGroups
  BY DEF CacheDocument, IndInv, CallIsConsistent, Posting, docVars, End, callVars
<1>2. IdOf[d] \in Ids /\ NoDoc \notin Docs
  BY <1>1, DocsAssumption
<1>3. Retained(d)' /\ \A e \in Docs : Retained(e) /\ e # previous => Retained(e)'
  BY <1>1, <1>2, DocsAssumption DEF IndInv, TypeOK, Retained
<1>4. ASSUME NEW g \in reverseIndices
      PROVE  HasOwner(g)'
  <2>1. CASE g \in docGroups[d]
    BY <1>1, <1>3, <2>1 DEF HasOwner
  <2>2. CASE g \notin docGroups[d]
    <3>1. PICK e \in Docs : Retained(e) /\ g \in docGroups[e]
      BY <1>1, <2>2 DEF OwnerInv, HasOwner
    <3>2. CASE e # previous
      BY <1>1, <1>3, <3>1, <3>2 DEF HasOwner
    <3>3. CASE e = previous
      <4>1. previous # NoDoc /\ g \in oldGroups
        BY <1>1, <1>2, <2>2, <3>1, <3>3 DEF OwnerInv, Posting
      <4> QED
        BY <1>1, <4>1 DEF HasOwner
    <3> QED
      BY <3>2, <3>3
  <2> QED
    BY <2>1, <2>2
<1> QED
  BY <1>1, <1>4 DEF OwnerInv, Posting

LEMMA ClearKeepsOwnerInv == Clear => OwnerInv'
  BY DEF Clear, End, OwnerInv, Posting

LEMMA StutterKeepsOwnerInv == OwnerInv /\ UNCHANGED vars => OwnerInv'
  BY DEF vars, docVars, indexVars, callVars, OwnerInv, HasOwner, Posting, Retained

\* Between calls every published reverse index belongs to a retained document
\* that names its group, whatever calls threw, replaced and removed before.
THEOREM IndexAlwaysHasOwner == Spec => []IndexHasOwner
<1>1. Init => OwnerInv
  BY InitOwnerInv
<1>2. IndInv /\ IndInv' /\ OwnerInv /\ [Next]_vars => OwnerInv'
  BY EditKeepsOwnerInv, QuietKeepsOwnerInv, PostKeepsOwnerInv, CacheKeepsOwnerInv,
     RollbackKeepsOwnerInv, ErasePreviousKeepsOwnerInv, RemoveDocumentKeepsOwnerInv,
     ClearKeepsOwnerInv, StutterKeepsOwnerInv
  DEF Next, IndexStep, RemoveStep, ClearStep
<1>3. OwnerInv => IndexHasOwner
  BY DEF OwnerInv, HasOwner, IndexHasOwner, AtRest, Posting
<1> QED
  BY <1>1, <1>2, <1>3, IndInvInvariant, PTL DEF Spec

-----------------------------------------------------------------------------
(* Refinement: a call takes effect at one step, the one that returns, or not  *)
(* at all.                                                                   *)

AnswersOf(cache) ==
    [t \in Groups \X HashIds |-> {d \in Docs : cache[IdOf[d]] = d /\ t \in TermsOf[d]}]

\* In every state of IndInv the answers are those the retained documents give.
LEMMA AnswersFromCache == IndInv => AbstractAnswers = AnswersOf(Before)
<1> SUFFICES ASSUME IndInv, AtRest, NEW t \in Groups \X HashIds
             PROVE  Lookup(t[1], t[2]) = {d \in Docs : Before[IdOf[d]] = d /\ t \in TermsOf[d]}
  BY DEF AbstractAnswers, AnswersOf
<1>1. PICK g \in Groups, h \in HashIds : t = <<g, h>>
  OBVIOUS
<1>2. Before = docPtrCache
  BY DEF Before, AtRest
<1>3. \A d \in Docs : t \in TermsOf[d] <=> \E k \in GroupKeys(d, g) : HashOf[k] = h
  BY <1>1 DEF TermsOf, GroupKeys
<1>4. Lookup(g, h) = {d \in Docs : Retained(d) /\ \E k \in GroupKeys(d, g) : HashOf[k] = h}
  BY IndInvMakesAnswersExact DEF AnswersAreExact
<1> QED
  BY <1>1, <1>2, <1>3, <1>4 DEF Retained

\* The initial index is the empty one.
LEMMA InitRefines == Init => Abstract!Init
<1> SUFFICES ASSUME Init
             PROVE  Abstract!Init
  OBVIOUS
<1>1. AtRest /\ pc = "idle" /\ reverseIndices = {}
  BY DEF Init, AtRest
<1>2. TermsOf = [d \in Docs |-> {}]
  BY DEF Init, TermsOf
<1>3. AbstractAnswers = [t \in Groups \X HashIds |-> {}]
  BY <1>1 DEF AbstractAnswers, Lookup
<1>4. Before = [i \in Ids |-> NoDoc]
  BY DEF Init, Before
<1> QED
  BY <1>1, <1>2, <1>3, <1>4
  DEF Abstract!Init, Abstract!NoCall, AbstractPhase, AbstractCall

LEMMA AnswersFromCacheNext == IndInv' => AbstractAnswers' = AnswersOf(Before)'
<1>1. IndInv' => (AbstractAnswers = AnswersOf(Before))'
  BY AnswersFromCache, PTL
<1> QED
  BY <1>1

\* Steps inside a call are invisible.
LEMMA InnerStepStutters ==
    ASSUME IndInv, IndInv', UNCHANGED docVars, ~AtRest, ~AtRest',
           Before' = Before, AbstractCall' = AbstractCall
    PROVE  UNCHANGED Abstract!vars
<1>1. TermsOf' = TermsOf
  BY DEF docVars, TermsOf
<1>2. AbstractAnswers' = AbstractAnswers
  BY <1>1, AnswersFromCache, AnswersFromCacheNext DEF AnswersOf
<1>3. AbstractPhase' = AbstractPhase
  BY DEF AbstractPhase
<1> QED
  BY <1>1, <1>2, <1>3 DEF Abstract!vars

\* A call that returns has the outcome the abstract call has.
LEMMA ReturnRefines ==
    ASSUME IndInv, IndInv', UNCHANGED docVars, ~AtRest, End("returned"),
           AbstractCall # <<"index", NoDoc>>, docPtrCache' = Abstract!Outcome
    PROVE  Abstract!Return
<1>1. pc' = "returned" /\ AtRest'
  BY DEF End, AtRest
<1>2. Before' = docPtrCache' /\ TermsOf' = TermsOf
  BY <1>1 DEF Before, TermsOf, docVars
<1>3. AbstractAnswers' = Abstract!Exact(Abstract!Outcome, TermsOf)
  BY <1>2, AnswersFromCacheNext DEF AnswersOf, Abstract!Exact, Abstract!Matches
<1> QED
  BY <1>1, <1>2, <1>3
  DEF Abstract!Return, AbstractPhase, AbstractCall, Abstract!NoCall

\* A call that throws has changed nothing a client can see.
LEMMA ThrowRefines ==
    ASSUME IndInv, IndInv', UNCHANGED <<docVars, docPtrCache>>, ~AtRest, pc # "replace",
           End("threw")
    PROVE  Abstract!Throw
<1>1. pc' = "threw" /\ AtRest'
  BY DEF End, AtRest
<1>2. Before' = Before /\ TermsOf' = TermsOf
  BY <1>1 DEF Before, TermsOf, docVars
<1>3. AbstractAnswers' = AbstractAnswers
  BY <1>2, AnswersFromCache, AnswersFromCacheNext DEF AnswersOf
<1> QED
  BY <1>1, <1>2, <1>3
  DEF Abstract!Throw, AbstractPhase, AbstractCall, Abstract!NoCall

-----------------------------------------------------------------------------
LEMMA EditRefines == IndInv /\ IndInv' /\ EditDocument => Abstract!Next
<1> SUFFICES ASSUME IndInv, IndInv', EditDocument
             PROVE  Abstract!Next
  OBVIOUS
<1>1. PICK d \in Docs :
        /\ Editable(d)
        /\ \A e \in Docs \ {d} : docKeys'[e] = docKeys[e]
        /\ UNCHANGED <<indexVars, pc, callVars>>
  <2>1. PICK d \in Docs :
          \/ \E k \in Keys : AddKey(d, k) \/ AddKeyThrows(d, k)
          \/ \E g \in Groups, k \in Keys : RemoveKey(d, g, k) \/ RemoveKeyThrows(d, g, k)
          \/ \E g \in Groups : RemoveGroup(d, g)
    BY DEF EditDocument
  <2> QED
    BY <2>1 DEF AddKey, AddKeyThrows, RemoveKey, RemoveKeyThrows, RemoveGroup, IndInv, TypeOK
<1>2. pc = "idle" /\ pc' = "idle" /\ AtRest /\ AtRest' /\ docPtrCache' = docPtrCache
      /\ docPtrCache[IdOf[d]] # d
  BY <1>1 DEF Editable, Retained, AtRest, indexVars
<1>3. Before = docPtrCache /\ Before' = docPtrCache
  BY <1>2 DEF Before
<1>4. AbstractAnswers' = AbstractAnswers
  BY <1>1, <1>2 DEF AbstractAnswers, Lookup, indexVars
<1>5. TermsOf' = [TermsOf EXCEPT ![d] = TermsOf'[d]]
  BY <1>1 DEF TermsOf
<1>6. TermsOf'[d] \in SUBSET (Groups \X HashIds)
  <2>1. docKeys'[d] \subseteq Keys
    BY DEF IndInv, TypeOK
  <2> QED
    BY <2>1, KeysAssumption DEF TermsOf
<1>7. Abstract!Edit(d)
  BY <1>2, <1>3, <1>4, <1>5, <1>6
  DEF Abstract!Edit, AbstractPhase, AbstractCall
<1> QED
  BY <1>7 DEF Abstract!Next

LEMMA InvokeRefines == IndInv /\ IndInv' /\ InvokeAny => Abstract!Next
<1> SUFFICES ASSUME IndInv, IndInv', InvokeAny
             PROVE  Abstract!Next
  OBVIOUS
<1>1. PICK op \in {"index", "remove", "clear"}, d \in Docs \union {NoDoc} :
        Invoke(op, d) /\ (op = "clear" => d = NoDoc)
  BY DEF InvokeAny
<1>2. pc = "idle" /\ pc' = op /\ doc' = d /\ UNCHANGED <<docVars, docPtrCache>>
      /\ AtRest /\ ~AtRest'
  BY <1>1 DEF Invoke, indexVars, AtRest
<1>3. Before' = Before /\ TermsOf' = TermsOf
  BY <1>2 DEF Before, TermsOf, docVars
<1>4. AbstractAnswers' = AbstractAnswers
  BY <1>3, AnswersFromCache, AnswersFromCacheNext DEF AnswersOf
<1>5. Abstract!Invoke(op, d)
  BY <1>2, <1>3, <1>4 DEF Abstract!Invoke, AbstractPhase, AbstractCall
<1> QED
  BY <1>1, <1>5 DEF Abstract!Next

LEMMA ResumeRefines == IndInv /\ IndInv' /\ Resume => Abstract!Next
<1> SUFFICES ASSUME IndInv, IndInv', Resume
             PROVE  Abstract!Next
  OBVIOUS
<1>1. pc \in {"returned", "threw"} /\ pc' = "idle" /\ AtRest /\ AtRest'
      /\ UNCHANGED <<docVars, indexVars>>
  BY DEF Resume, AtRest
<1>2. Before' = Before /\ TermsOf' = TermsOf
  BY <1>1 DEF Before, TermsOf, docVars, indexVars
<1>3. AbstractAnswers' = AbstractAnswers
  BY <1>1 DEF AbstractAnswers, Lookup, indexVars
<1>4. Abstract!Resume
  BY <1>1, <1>2, <1>3 DEF Abstract!Resume, AbstractPhase, AbstractCall
<1> QED
  BY <1>4 DEF Abstract!Next

LEMMA IndexInnerRefines ==
    ASSUME IndInv, IndInv',
           \/ PrepareIndex
           \/ \E g \in Groups : PublishGroup(g) \/ PublishGroupThrows(g)
           \/ \E k \in Keys : PutDocument(k)
           \/ \E k \in Keys, step \in PutStages : PutDocumentThrows(k, step)
           \/ CacheDocumentThrows
    PROVE  UNCHANGED Abstract!vars
<1>1. /\ pc \in {"index", "post"} /\ pc' \in {"post", "rollback"}
      /\ doc' = doc /\ UNCHANGED <<docVars, docPtrCache>>
  BY DEF PrepareIndex, PublishGroup, PublishGroupThrows, PutDocument, PutDocumentThrows,
         CacheDocumentThrows, indexVars, callVars
<1>2. ~AtRest /\ ~AtRest' /\ Before' = Before /\ AbstractCall' = AbstractCall
  BY <1>1 DEF AtRest, Before, AbstractCall
<1> QED
  BY <1>1, <1>2, InnerStepStutters

LEMMA CacheRefines ==
    ASSUME IndInv, IndInv', CacheDocument
    PROVE  Abstract!Return \/ UNCHANGED Abstract!vars
<1>1. /\ pc = "post" /\ doc \in Docs /\ doc # NoDoc /\ previous = docPtrCache[IdOf[doc]]
      /\ docPtrCache' = [docPtrCache EXCEPT ![IdOf[doc]] = doc] /\ UNCHANGED docVars
      /\ docPtrCache \in [Ids -> Docs \union {NoDoc}] /\ IdOf[doc] \in Ids
  BY DocsAssumption DEF CacheDocument, IndInv, CallIsConsistent, Posting, TypeOK
<1>2. ~AtRest /\ Before = docPtrCache /\ AbstractCall = <<"index", doc>>
  BY <1>1 DEF AtRest, Before, AbstractCall
<1>3. CASE previous = NoDoc
  <2>1. End("returned") /\ docPtrCache' = Abstract!Outcome
    BY <1>1, <1>2, <1>3 DEF CacheDocument, Abstract!Outcome
  <2> QED
    BY <1>1, <1>2, <2>1, ReturnRefines
<1>4. CASE previous # NoDoc
  <2>1. pc' = "replace" /\ doc' = doc /\ previous' = previous
    BY <1>4 DEF CacheDocument, callVars
  <2>2. ~AtRest' /\ AbstractCall' = AbstractCall
    BY <1>2, <2>1 DEF AtRest, AbstractCall
  <2>3. Before' = Before
    BY <1>1, <1>2, <2>1 DEF Before
  <2> QED
    BY <1>1, <1>2, <2>2, <2>3, InnerStepStutters
<1> QED
  BY <1>3, <1>4

LEMMA IndexEndRefines ==
    ASSUME IndInv, IndInv', IndexUnchanged \/ IndexThrows \/ Rollback \/ ErasePrevious
    PROVE  Abstract!Return \/ Abstract!Throw
<1>1. CASE IndexUnchanged
  <2>1. pc = "index" /\ doc \in Docs /\ doc # NoDoc /\ Retained(doc) /\ End("returned")
        /\ UNCHANGED <<docVars, docPtrCache>>
    BY <1>1 DEF IndexUnchanged, indexVars, IndInv, TypeOK
  <2>2. ~AtRest /\ Before = docPtrCache /\ AbstractCall = <<"index", doc>>
    BY <2>1 DEF AtRest, Before, AbstractCall
  <2>3. docPtrCache' = Abstract!Outcome
    BY <2>1, <2>2 DEF Abstract!Outcome, Retained, IndInv, TypeOK
  <2> QED
    BY <2>1, <2>2, <2>3, ReturnRefines
<1>2. CASE IndexThrows \/ Rollback
  <2>1. pc # "replace" /\ ~AtRest /\ End("threw") /\ UNCHANGED <<docVars, docPtrCache>>
    BY <1>2 DEF IndexThrows, Rollback, indexVars, AtRest
  <2> QED
    BY <2>1, ThrowRefines
<1>3. CASE ErasePrevious
  <2>1. pc = "replace" /\ doc \in Docs /\ doc # NoDoc /\ Retained(doc) /\ End("returned")
        /\ UNCHANGED <<docVars, docPtrCache>>
    BY <1>3, DocsAssumption DEF ErasePrevious, IndInv, CallIsConsistent
  <2>2. ~AtRest /\ Before = [docPtrCache EXCEPT ![IdOf[doc]] = previous]
        /\ AbstractCall = <<"index", doc>>
    BY <2>1 DEF AtRest, Before, AbstractCall
  <2>3. docPtrCache' = Abstract!Outcome
    BY <2>1, <2>2 DEF Abstract!Outcome, Retained, IndInv, TypeOK
  <2> QED
    BY <2>1, <2>2, <2>3, ReturnRefines
<1> QED
  BY <1>1, <1>2, <1>3

LEMMA RemoveRefines ==
    ASSUME IndInv, IndInv', RemoveStep
    PROVE  Abstract!Return \/ Abstract!Throw
<1>1. pc = "remove" /\ UNCHANGED docVars /\ doc \in Docs \union {NoDoc}
  BY DEF RemoveStep, RemoveDocument, RemoveUnknown, RemoveThrows, IndInv, TypeOK
<1>2. ~AtRest /\ Before = docPtrCache /\ AbstractCall = <<"remove", doc>>
  BY <1>1 DEF AtRest, Before, AbstractCall
<1>3. CASE RemoveDocument
  <2>1. End("returned") /\ docPtrCache' = Abstract!Outcome
    BY <1>2, <1>3 DEF RemoveDocument, Abstract!Outcome
  <2> QED
    BY <1>1, <1>2, <2>1, ReturnRefines
<1>4. CASE RemoveUnknown
  <2>1. End("returned") /\ docPtrCache' = docPtrCache
    BY <1>4 DEF RemoveUnknown, indexVars
  <2>2. docPtrCache = Abstract!Outcome
    BY <1>1, <1>2, <1>4, DocsAssumption DEF RemoveUnknown, Abstract!Outcome, IndInv, TypeOK
  <2> QED
    BY <1>1, <1>2, <2>1, <2>2, ReturnRefines
<1>5. CASE RemoveThrows
  BY <1>1, <1>2, <1>5, ThrowRefines DEF RemoveThrows, indexVars
<1> QED
  BY <1>3, <1>4, <1>5 DEF RemoveStep

LEMMA ClearRefines ==
    ASSUME IndInv, IndInv', ClearStep
    PROVE  Abstract!Return \/ Abstract!Throw
<1>1. pc = "clear" /\ UNCHANGED docVars
  BY DEF ClearStep, Clear, ClearThrows
<1>2. ~AtRest /\ Before = docPtrCache /\ AbstractCall = <<"clear", doc>>
  BY <1>1 DEF AtRest, Before, AbstractCall
<1>3. CASE Clear
  <2>1. End("returned") /\ docPtrCache' = Abstract!Outcome
    BY <1>2, <1>3 DEF Clear, Abstract!Outcome
  <2> QED
    BY <1>1, <1>2, <2>1, ReturnRefines
<1>4. CASE ClearThrows
  BY <1>1, <1>2, <1>4, ThrowRefines DEF ClearThrows, indexVars
<1> QED
  BY <1>3, <1>4 DEF ClearStep

LEMMA StutterRefines == UNCHANGED vars => UNCHANGED Abstract!vars
<1> SUFFICES ASSUME UNCHANGED vars
             PROVE  UNCHANGED Abstract!vars
  OBVIOUS
<1>1. UNCHANGED <<docKeys, docPtrCache, reverseIndices, keyPtrCache, posted, postings, pc, doc,
                  previous>>
  BY DEF vars, docVars, indexVars, callVars
<1>2. TermsOf' = TermsOf /\ Before' = Before /\ AtRest' = AtRest
  BY <1>1 DEF TermsOf, Before, AtRest
<1>3. AbstractAnswers' = AbstractAnswers
  BY <1>1, <1>2 DEF AbstractAnswers, Lookup
<1>4. AbstractPhase' = AbstractPhase /\ AbstractCall' = AbstractCall
  BY <1>1, <1>2 DEF AbstractPhase, AbstractCall
<1> QED
  BY <1>2, <1>3, <1>4 DEF Abstract!vars

\* Indexer implements IndexSpec: whatever allocation throws, a call is one
\* atomic change of what clients see, or none.
THEOREM Refinement == Spec => ImplementsIndexSpec
<1>1. Init => Abstract!Init
  BY InitRefines
<1>2. IndInv /\ IndInv' /\ [Next]_vars => [Abstract!Next]_(Abstract!vars)
  <2> SUFFICES ASSUME IndInv, IndInv', [Next]_vars
               PROVE  Abstract!Next \/ UNCHANGED Abstract!vars
    OBVIOUS
  <2>1. CASE IndexStep
    BY <2>1, IndexInnerRefines, CacheRefines, IndexEndRefines DEF IndexStep, Abstract!Next
  <2>2. CASE RemoveStep \/ ClearStep
    BY <2>2, RemoveRefines, ClearRefines DEF Abstract!Next
  <2> QED
    BY <2>1, <2>2, EditRefines, InvokeRefines, ResumeRefines, StutterRefines DEF Next
<1> QED
  BY <1>1, <1>2, IndInvInvariant, PTL DEF Spec, ImplementsIndexSpec, Abstract!Spec

-----------------------------------------------------------------------------
(* Search                                                                  *)

\* Requests a query can make: finitely many groups, with bounded lists.
IsRequest(request, n) ==
    /\ request \in [Groups -> Seq(Words)]
    /\ IsFiniteSet(RequestGroups(request))
    /\ \A g \in Groups : Len(request[g]) <= n

\* A lookup of a keyword finds the retained documents that have it.
LEMMA LookupFindsKeyword ==
    ASSUME AnswersAreExact, AtRest, NEW g \in Groups, NEW word \in Words, NEW d \in Docs
    PROVE  d \in Lookup(g, WordHash[g, word]) <=> Retained(d) /\ HasKeyword(d, g, word)
<1>1. WordHash[g, word] \in HashIds
  BY SearchAssumption
<1> QED
  BY <1>1 DEF AnswersAreExact, HasKeyword

\* FindDocuments finds those that have one of the group's keywords.
LEMMA FindFindsKeywords ==
    ASSUME AnswersAreExact, AtRest, NEW n, NEW request, IsRequest(request, n),
           NEW g \in Groups, NEW d \in Docs
    PROVE  d \in FindDocuments(request, g) <=>
             /\ Retained(d)
             /\ \E i \in DOMAIN request[g] : HasKeyword(d, g, request[g][i])
<1>1. \A i \in DOMAIN request[g] : request[g][i] \in Words
  BY DEF IsRequest
<1>2. \A i \in DOMAIN request[g] :
        d \in Lookup(g, WordHash[g, request[g][i]]) <=>
          Retained(d) /\ HasKeyword(d, g, request[g][i])
  BY <1>1, LookupFindsKeyword
<1> QED
  BY <1>2 DEF FindDocuments

\* Counting appearances decides membership in one and in all of the groups.
LEMMA AppearancesCount ==
    ASSUME NEW n, NEW request, IsRequest(request, n), NEW d \in Docs
    PROVE  /\ Appearances(request, d) > 0 <=>
                \E g \in RequestGroups(request) : d \in FindDocuments(request, g)
           /\ FoundInAll(request, d) <=>
                \A g \in RequestGroups(request) : d \in FindDocuments(request, g)
<1> DEFINE asked == RequestGroups(request)
           found == {g \in asked : d \in FindDocuments(request, g)}
<1>1. IsFiniteSet(asked) /\ found \in SUBSET asked
  BY DEF IsRequest
<1>2. IsFiniteSet(found) /\ (Cardinality(found) = Cardinality(asked) => found = asked)
  BY <1>1, FS_Subset
<1>3. Cardinality(found) \in Nat /\ (Cardinality(found) = 0 <=> found = {})
  BY <1>2, FS_CardinalityType, FS_EmptySet
<1>4. Appearances(request, d) = Cardinality(found)
  BY DEF Appearances
<1>5. Appearances(request, d) > 0 <=> found # {}
  BY <1>3, <1>4
<1>6. FoundInAll(request, d) <=> found = asked
  BY <1>2, <1>4 DEF FoundInAll
<1> QED
  BY <1>5, <1>6

\* A document has a positive score exactly if it has one of the keywords.
LEMMA ScoreCounts ==
    ASSUME NEW n \in Nat, NEW request, IsRequest(request, n), NEW d \in Docs
    PROVE  KeywordScore(request, d) > 0 <=>
             \E g \in RequestGroups(request) : \E i \in DOMAIN request[g] :
               HasKeyword(d, g, request[g][i])
<1> DEFINE asked == RequestGroups(request)
           hits == UNION {{<<g, i>> : i \in {j \in DOMAIN request[g] :
                                               HasKeyword(d, g, request[g][j])}} : g \in asked}
<1>1. IsFiniteSet(asked \X (1..n))
  <2>1. IsFiniteSet(asked)
    BY DEF IsRequest
  <2>2. IsFiniteSet(1..n)
    BY FS_Interval
  <2> QED
    BY <2>1, <2>2, FS_Product
<1>2. \A g \in asked : DOMAIN request[g] \subseteq 1..n
  BY DEF IsRequest, RequestGroups
<1>3. hits \in SUBSET (asked \X (1..n))
  BY <1>2
<1>4. IsFiniteSet(hits)
  BY <1>1, <1>3, FS_Subset
<1>5. Cardinality(hits) \in Nat /\ (Cardinality(hits) = 0 <=> hits = {})
  BY <1>4, FS_CardinalityType, FS_EmptySet
<1>6. KeywordScore(request, d) = Cardinality(hits)
  BY DEF KeywordScore
<1>7. hits # {} <=> \E g \in asked : \E i \in DOMAIN request[g] : HasKeyword(d, g, request[g][i])
  <2> DEFINE Positions(g) == {j \in DOMAIN request[g] : HasKeyword(d, g, request[g][j])}
  <2>1. \A t : t \in hits <=> \E g \in asked : t \in {<<g, i>> : i \in Positions(g)}
    BY Zenon
  <2>2. \A g \in asked : {<<g, i>> : i \in Positions(g)} # {} <=> Positions(g) # {}
    BY Zenon
  <2> HIDE DEF hits
  <2> QED
    BY <2>1, <2>2
<1> QED
  BY <1>5, <1>6, <1>7

\* Exact answers to lookups make the results of any request exact.
LEMMA ResultsFromAnswers ==
    ASSUME AnswersAreExact, AtRest, NEW n \in Nat, NEW request, IsRequest(request, n)
    PROVE  ResultsAreWanted(request)
<1> DEFINE asked == RequestGroups(request)
           Has(d, g) == \E i \in DOMAIN request[g] : HasKeyword(d, g, request[g][i])
<1> SUFFICES ASSUME NEW d \in Docs
             PROVE  d \in Results(request) <=>
                      Retained(d) /\ asked # {} /\ \A g \in asked : Has(d, g)
  BY DEF ResultsAreWanted, Results, Intersected
<1>1. \A g \in asked : d \in FindDocuments(request, g) <=> Retained(d) /\ Has(d, g)
  BY FindFindsKeywords DEF RequestGroups
<1>2. KeywordScore(request, d) > 0 <=> \E g \in asked : Has(d, g)
  BY ScoreCounts
<1>3. Appearances(request, d) > 0 <=> \E g \in asked : Retained(d) /\ Has(d, g)
  BY <1>1, AppearancesCount
<1>4. FoundInAll(request, d) <=> \A g \in asked : Retained(d) /\ Has(d, g)
  BY <1>1, AppearancesCount
<1>5. IsFiniteSet(asked) /\ Cardinality(asked) \in Nat /\ (Cardinality(asked) = 0 <=> asked = {})
      /\ (Cardinality(asked) = 1 <=> \E g : asked = {g})
  BY FS_CardinalityType, FS_EmptySet, FS_Singleton DEF IsRequest
<1>6. CASE Cardinality(asked) > 1
  BY <1>2, <1>3, <1>4, <1>5, <1>6 DEF Results, Intersected
<1>7. CASE ~(Cardinality(asked) > 1)
  <2>1. asked = {} \/ \E g : asked = {g}
    <3> HIDE DEF asked
    <3>1. Cardinality(asked) = 0 \/ Cardinality(asked) = 1
      BY <1>5, <1>7
    <3> QED
      BY <1>5, <3>1, Zenon
  <2> QED
    BY <1>2, <1>3, <1>7, <2>1 DEF Results, Intersected
<1> QED
  BY <1>6, <1>7

\* Between calls a search for any request finds exactly the retained documents
\* that have one of its keywords in each of its groups (Indexer::search).
THEOREM ResultsAreExact ==
    ASSUME NEW CONSTANT n \in Nat, NEW CONSTANT request, request \in [Groups -> Seq(Words)],
           IsFiniteSet({g \in Groups : request[g] # <<>>}),
           \A g \in Groups : Len(request[g]) <= n
    PROVE  Spec => [](AtRest => ResultsAreWanted(request))
<1>1. IsRequest(request, n)
  BY DEF IsRequest, RequestGroups
<1>2. AnswersAreExact /\ AtRest => ResultsAreWanted(request)
  BY <1>1, ResultsFromAnswers
<1> QED
  BY <1>2, AnswersAreAlwaysExact, PTL

-----------------------------------------------------------------------------
(* The request of a query *)

Untaken == [group |-> ImplicitGroup, keywords |-> [g \in Groups |-> <<>>]]

\* The requests after each of the first n tokens.
IsTaken(taken, query, n) ==
    taken = [i \in 0..n |-> IF i = 0 THEN Untaken ELSE TakeToken(taken[i - 1], query[i])]

LEMMA RequestUnfolds ==
    ASSUME NEW query \in Query
    PROVE  \E taken : IsTaken(taken, query, Len(query)) /\ Request(query) = taken[Len(query)].keywords
<1> DEFINE T == {n \in Nat : \E taken : IsTaken(taken, query, n)}
<1>1. Len(query) \in Nat
  BY DEF Query
<1>2. 0 \in T
  <2>1. IsTaken([i \in 0..0 |-> Untaken], query, 0)
    BY DEF IsTaken
  <2> QED
    BY <2>1
<1>3. ASSUME NEW n \in Nat, n \in T
      PROVE  n + 1 \in T
  <2>1. PICK old : IsTaken(old, query, n)
    BY <1>3
  <2> DEFINE new == [i \in 0..(n + 1) |-> IF i = n + 1 THEN TakeToken(old[n], query[n + 1]) ELSE old[i]]
  <2>2. \A i \in 0..(n + 1) :
          new[i] = IF i = 0 THEN Untaken ELSE TakeToken(new[i - 1], query[i])
    <3>1. \A i \in 0..n : old[i] = IF i = 0 THEN Untaken ELSE TakeToken(old[i - 1], query[i])
      BY <2>1 DEF IsTaken
    <3>2. \A i \in 0..n : new[i] = old[i]
      OBVIOUS
    <3>3. new[n + 1] = TakeToken(old[n], query[n + 1])
      OBVIOUS
    <3>4. \A i \in 0..(n + 1) : i = 0 \/ i = n + 1 \/ (i \in 0..n /\ i - 1 \in 0..n)
      OBVIOUS
    <3>5. n + 1 # 0 /\ (n + 1) - 1 = n /\ n \in 0..n /\ 0 \in 0..n
      OBVIOUS
    <3> HIDE DEF new
    <3>6. ASSUME NEW i \in 0..(n + 1)
          PROVE  new[i] = IF i = 0 THEN Untaken ELSE TakeToken(new[i - 1], query[i])
      <4>1. CASE i = 0
        BY <3>1, <3>2, <3>5, <4>1
      <4>2. CASE i = n + 1
        BY <3>2, <3>3, <3>5, <4>2
      <4>3. CASE i # 0 /\ i \in 0..n /\ i - 1 \in 0..n
        BY <3>1, <3>2, <4>3
      <4> QED
        BY <3>4, <4>1, <4>2, <4>3
    <3> QED
      BY <3>6
  <2>3. IsTaken(new, query, n + 1)
    <3> DEFINE full == [i \in 0..(n + 1) |-> IF i = 0 THEN Untaken ELSE TakeToken(new[i - 1], query[i])]
    <3>1. new = [i \in 0..(n + 1) |-> new[i]]
      OBVIOUS
    <3> HIDE DEF new
    <3>2. full = [i \in 0..(n + 1) |-> new[i]]
      BY <2>2
    <3> QED
      BY <3>1, <3>2 DEF IsTaken
  <2> QED
    BY <2>3
<1>4. \E taken : IsTaken(taken, query, Len(query))
  <2> HIDE DEF T
  <2>1. Len(query) \in T
    BY <1>1, <1>2, <1>3, Induction
  <2> QED
    BY <2>1 DEF T
<1> DEFINE all == CHOOSE taken : IsTaken(taken, query, Len(query))
<1>5. IsTaken(all, query, Len(query))
  BY <1>4
<1>6. Request(query) = all[Len(query)].keywords
  BY DEF Request, IsTaken, Untaken
<1> HIDE DEF all
<1> QED
  BY <1>5, <1>6

\* The group of a keyword follows from the token before it.
LEMMA GroupAtStep ==
    ASSUME NEW query \in Query
    PROVE  /\ GroupAt(query, 1) = ImplicitGroup
           /\ \A n \in 1..Len(query) :
                GroupAt(query, n + 1) = IF query[n] \in Groups THEN query[n] ELSE GroupAt(query, n)
<1> DEFINE Named(i) == {j \in 1..(i - 1) : query[j] \in Groups}
<1>1. Len(query) \in Nat
  BY DEF Query
<1>2. Named(1) = {}
  OBVIOUS
<1>3. ASSUME NEW n \in 1..Len(query)
      PROVE  GroupAt(query, n + 1) = IF query[n] \in Groups THEN query[n] ELSE GroupAt(query, n)
  <2>1. n \in Nat /\ \A j : j \in 1..((n + 1) - 1) <=> j \in 1..(n - 1) \/ j = n
    BY <1>1
  <2>2. CASE query[n] \in Groups
    <3>1. n \in Named(n + 1) /\ \A j \in Named(n + 1) : j \in Nat /\ n >= j
      BY <2>1, <2>2
    <3> HIDE DEF Named
    <3>2. \A m \in Named(n + 1) : (\A j \in Named(n + 1) : m >= j) => m = n
      BY <2>1, <3>1
    <3>3. Max(Named(n + 1)) = n
      BY <3>1, <3>2 DEF Max
    <3>4. Named(n + 1) # {}
      BY <3>1
    <3> QED
      BY <2>2, <3>3, <3>4 DEF GroupAt, Named
  <2>3. CASE query[n] \notin Groups
    <3>1. Named(n + 1) = Named(n)
      BY <2>1, <2>3
    <3> QED
      BY <2>3, <3>1 DEF GroupAt
  <2> QED
    BY <2>2, <2>3
<1>4. GroupAt(query, 1) = ImplicitGroup
  BY <1>2 DEF GroupAt
<1> QED
  BY <1>3, <1>4

\* Where the keyword at position i stands among those of its group.
Place(taken, query, i) == Len(taken[i].keywords[GroupAt(query, i)])

\* After n tokens the keywords are those of the first n positions, each in the
\* group it belongs to, in the order of the query.
RequestInv(taken, query, n) ==
    LET keywords == taken[n].keywords
        positions == {i \in 1..n : query[i] \in Words}
    IN /\ taken[n] = [group |-> GroupAt(query, n + 1), keywords |-> keywords]
       /\ GroupAt(query, n + 1) \in Groups
       /\ keywords \in [Groups -> Seq(Words)]
       /\ \A g \in Groups : Len(keywords[g]) <= n
       /\ \A i \in positions :
            /\ GroupAt(query, i) \in Groups
            /\ Place(taken, query, i) \in 1..Len(keywords[GroupAt(query, i)])
            /\ keywords[GroupAt(query, i)][Place(taken, query, i)] = query[i]
       /\ \A g \in Groups : \A k \in 1..Len(keywords[g]) :
            \E i \in positions : GroupAt(query, i) = g /\ Place(taken, query, i) = k
       /\ \A i, j \in positions :
            i < j /\ GroupAt(query, i) = GroupAt(query, j) =>
                Place(taken, query, i) < Place(taken, query, j)

LEMMA RequestInvHolds ==
    ASSUME NEW query \in Query, NEW taken, IsTaken(taken, query, Len(query))
    PROVE  \A n \in 0..Len(query) : RequestInv(taken, query, n)
<1> DEFINE N == Len(query)
           T == {n \in Nat : n <= N => RequestInv(taken, query, n)}
<1>1. N \in Nat /\ \A n \in 1..N : query[n] \in Groups \union Words
  BY DEF Query
<1>2. /\ taken[0] = Untaken
      /\ \A n \in 1..N : taken[n] = TakeToken(taken[n - 1], query[n])
  BY <1>1 DEF IsTaken
<1>3. 0 \in T
  <2>1. taken[0] = [group |-> ImplicitGroup, keywords |-> [g \in Groups |-> <<>>]]
    BY <1>2 DEF Untaken
  <2>2. GroupAt(query, 0 + 1) = ImplicitGroup
    BY GroupAtStep
  <2>3. ImplicitGroup \in Groups
    BY SearchAssumption
  <2>4. {i \in 1..0 : query[i] \in Words} = {}
    OBVIOUS
  <2>5. taken[0].keywords = [g \in Groups |-> <<>>]
    BY <2>1
  <2>6. \A g \in Groups : taken[0].keywords[g] \in Seq(Words) /\ Len(taken[0].keywords[g]) = 0
    BY <2>5
  <2>7. taken[0].keywords \in [Groups -> Seq(Words)] /\ \A k : k \notin 1..0
    BY <2>5
  <2>8. \A g \in Groups : Len(taken[0].keywords[g]) <= 0 /\ 1..Len(taken[0].keywords[g]) = {}
    BY <2>6
  <2>9. taken[0] = [group |-> GroupAt(query, 0 + 1), keywords |-> taken[0].keywords]
    BY <2>1, <2>2
  <2> QED
    BY <2>2, <2>3, <2>4, <2>7, <2>8, <2>9 DEF RequestInv
<1>4. ASSUME NEW n \in Nat, n \in T, n + 1 <= N
      PROVE  RequestInv(taken, query, n + 1)
  <2> DEFINE m == n + 1
             old == taken[n].keywords
             new == taken[m].keywords
             Positions(k) == {i \in 1..k : query[i] \in Words}
             P(i) == Place(taken, query, i)
             G(i) == GroupAt(query, i)
  <2>1. m \in 1..N /\ m - 1 = n /\ n \in 0..N
    BY <1>1, <1>4
  <2>2. RequestInv(taken, query, n)
    BY <1>1, <1>4
  <2>3. /\ taken[n] = [group |-> G(m), keywords |-> old] /\ G(m) \in Groups
        /\ old \in [Groups -> Seq(Words)]
        /\ \A g \in Groups : Len(old[g]) <= n
        /\ \A i \in Positions(n) :
             /\ G(i) \in Groups
             /\ P(i) \in 1..Len(old[G(i)])
             /\ old[G(i)][P(i)] = query[i]
        /\ \A g \in Groups : \A k \in 1..Len(old[g]) :
             \E i \in Positions(n) : G(i) = g /\ P(i) = k
        /\ \A i, j \in Positions(n) : i < j /\ G(i) = G(j) => P(i) < P(j)
    BY <2>2 DEF RequestInv
  <2>4. taken[m] = TakeToken(taken[n], query[m])
    BY <1>2, <2>1
  <2>5. G(m + 1) = IF query[m] \in Groups THEN query[m] ELSE G(m)
    BY <2>1, GroupAtStep
  <2>6. \A i : i \in 1..m <=> i \in 1..n \/ i = m
    BY <2>1
  <2>7. \A g \in Groups : Len(old[g]) \in Nat
    BY <2>3
  <2>8. CASE query[m] \in Groups
    <3>1. taken[m] = [taken[n] EXCEPT !.group = query[m]]
      BY <2>4, <2>8 DEF TakeToken
    <3>2. taken[m] = [group |-> query[m], keywords |-> old]
      BY <2>3, <3>1
    <3>3. new = old
      BY <3>2
    <3>4. query[m] \notin Words
      BY <2>8, SearchAssumption
    <3>5. Positions(m) = Positions(n)
      BY <2>6, <3>4
    <3>6. \A g \in Groups : Len(new[g]) <= m
      BY <2>3, <2>7, <3>3
    <3> HIDE DEF m, old, new
    <3> QED
      BY <2>3, <2>5, <2>8, <3>2, <3>3, <3>5, <3>6 DEF RequestInv, m, old, new
  <2>9. CASE query[m] \notin Groups
    <3>1. query[m] \in Words /\ G(m + 1) = G(m)
      BY <1>1, <2>1, <2>5, <2>9
    <3>2. taken[m] = [taken[n] EXCEPT !.keywords[G(m)] = Append(@, query[m])]
      <4>1. taken[m] = [taken[n] EXCEPT !.keywords[taken[n].group] = Append(@, query[m])]
        BY <2>4, <2>9 DEF TakeToken, AddKeyword
      <4>2. taken[n].group = G(m)
        <5> HIDE DEF G, m, old
        <5> QED
          BY <2>3
      <4> QED
        BY <4>1, <4>2
    <3> HIDE DEF G, P, m, old, new
    <3>3. taken[m] = [group |-> G(m), keywords |-> [old EXCEPT ![G(m)] = Append(old[G(m)], query[m])]]
      <4> DEFINE more == [old EXCEPT ![G(m)] = Append(old[G(m)], query[m])]
      <4>1. taken[n] = [group |-> G(m), keywords |-> old]
        BY <2>3
      <4>2. taken[n].keywords = old
        BY <4>1
      <4>3. [taken[n] EXCEPT !.keywords = more] = [group |-> G(m), keywords |-> more]
        <5> HIDE DEF more
        <5> QED
          BY <4>1
      <4> QED
        BY <3>2, <4>2, <4>3
    <3>4. new = [old EXCEPT ![G(m)] = Append(old[G(m)], query[m])]
      BY <3>3 DEF new
    <3> DEFINE L == Len(old[G(m)])
    <3>5. /\ old[G(m)] \in Seq(Words) /\ L \in Nat
          /\ new[G(m)] = Append(old[G(m)], query[m])
          /\ \A g \in Groups : g # G(m) => new[g] = old[g]
      BY <2>3, <3>4
    <3>6. /\ new[G(m)] \in Seq(Words) /\ Len(new[G(m)]) = L + 1 /\ new[G(m)][L + 1] = query[m]
          /\ \A k \in 1..L : new[G(m)][k] = old[G(m)][k]
      <4> DEFINE s == old[G(m)]
      <4>1. s \in Seq(Words) /\ query[m] \in Words /\ L = Len(s) /\ new[G(m)] = Append(s, query[m])
        BY <3>1, <3>5
      <4> HIDE DEF s, L
      <4>2. /\ Append(s, query[m]) \in Seq(Words)
            /\ Len(Append(s, query[m])) = Len(s) + 1
            /\ \A k \in 1..Len(s) : Append(s, query[m])[k] = s[k]
            /\ Append(s, query[m])[Len(s) + 1] = query[m]
        BY <4>1, AppendProperties
      <4> QED
        BY <4>1, <4>2 DEF s
    <3>7. P(m) = L + 1
      BY <3>6 DEF Place, P, G, new
    <3>8. Positions(m) = Positions(n) \union {m} /\ \A i \in Positions(n) : i < m
      BY <2>6, <3>1 DEF m
    <3>9. taken[m] = [group |-> G(m + 1), keywords |-> new] /\ G(m + 1) \in Groups
      BY <2>3, <3>1, <3>3, <3>4
    <3>10. new \in [Groups -> Seq(Words)]
      BY <2>3, <3>4, <3>5, <3>6
    <3>11. \A g \in Groups : Len(new[g]) <= m
      <4>1. Len(new[G(m)]) = L + 1 /\ L <= n /\ L \in Nat
        BY <2>3, <3>5, <3>6
      <4>2. \A g \in Groups : g # G(m) => Len(new[g]) <= n /\ Len(new[g]) \in Nat
        BY <2>3, <2>7, <3>5
      <4> HIDE DEF L
      <4> QED
        BY <4>1, <4>2 DEF m
    <3> HIDE DEF m, old, new, Positions, P, G, L
    <3>12. \A i \in Positions(m) :
             /\ G(i) \in Groups
             /\ P(i) \in 1..Len(new[G(i)])
             /\ new[G(i)][P(i)] = query[i]
      <4> SUFFICES ASSUME NEW i \in Positions(m)
                   PROVE  /\ G(i) \in Groups /\ P(i) \in 1..Len(new[G(i)])
                          /\ new[G(i)][P(i)] = query[i]
        OBVIOUS
      <4>1. CASE i = m
        BY <2>3, <3>5, <3>6, <3>7, <4>1
      <4>2. CASE i \in Positions(n) /\ G(i) = G(m)
        <5>1. P(i) \in 1..L /\ old[G(m)][P(i)] = query[i]
          BY <2>3, <4>2 DEF L
        <5> QED
          BY <2>3, <3>5, <3>6, <4>2, <5>1
      <4>3. CASE i \in Positions(n) /\ G(i) # G(m)
        BY <2>3, <3>5, <4>3
      <4> QED
        BY <3>8, <4>1, <4>2, <4>3
    <3>13. ASSUME NEW g \in Groups, NEW k \in 1..Len(new[g])
           PROVE  \E i \in Positions(m) : G(i) = g /\ P(i) = k
      <4>1. CASE g # G(m)
        BY <2>3, <3>5, <3>8, <4>1
      <4>2. CASE g = G(m) /\ k = L + 1
        BY <3>7, <3>8, <4>2
      <4>3. CASE g = G(m) /\ k # L + 1
        <5>1. k \in 1..L
          BY <3>5, <3>6, <4>3
        <5> QED
          BY <2>3, <3>8, <4>3, <5>1 DEF L
      <4> QED
        BY <4>1, <4>2, <4>3
    <3>14. ASSUME NEW i \in Positions(m), NEW j \in Positions(m), i < j, G(i) = G(j)
           PROVE  P(i) < P(j)
      <4>1. i \in Positions(n)
        <5>1. m \in Int /\ \A l \in Positions(m) : l \in Int /\ l <= m
          BY <2>1 DEF Positions
        <5> QED
          BY <3>8, <3>14, <5>1
      <4>2. CASE j \in Positions(n)
        BY <2>3, <3>14, <4>1, <4>2
      <4>3. CASE j = m
        <5>1. P(i) \in 1..L
          BY <2>3, <3>14, <4>1, <4>3 DEF L
        <5> QED
          BY <3>5, <3>7, <4>3, <5>1
      <4> QED
        BY <3>8, <4>2, <4>3
    <3> QED
      BY <3>9, <3>10, <3>11, <3>12, <3>13, <3>14 DEF RequestInv, Positions, P, G, m, new
  <2> QED
    BY <2>8, <2>9
<1>5. \A n \in Nat : n \in T => n + 1 \in T
  BY <1>4
<1> HIDE DEF T
<1>6. Nat \subseteq T
  BY <1>3, <1>5, Induction
<1> QED
  BY <1>1, <1>6 DEF T

\* What a search needs of the request of its query: each keyword is in its group,
\* at a place of its own, and nothing else is in any.
LEMMA RequestOfQuery ==
    ASSUME NEW query \in Query
    PROVE  /\ IsRequest(Request(query), Len(query)) /\ Len(query) \in Nat
           /\ \A g \in Groups : g \in RequestGroups(Request(query)) <=>
                \E i \in KeywordPositions(query) : GroupAt(query, i) = g
           /\ \A i \in KeywordPositions(query) : GroupAt(query, i) \in Groups
           /\ \E place :
                /\ \A i \in KeywordPositions(query) :
                     /\ place[i] \in DOMAIN Request(query)[GroupAt(query, i)]
                     /\ Request(query)[GroupAt(query, i)][place[i]] = query[i]
                /\ \A g \in Groups : \A k \in DOMAIN Request(query)[g] :
                     \E i \in KeywordPositions(query) : GroupAt(query, i) = g /\ place[i] = k
                /\ \A i, j \in KeywordPositions(query) :
                     GroupAt(query, i) = GroupAt(query, j) /\ place[i] = place[j] => i = j
<1> DEFINE N == Len(query)
           request == Request(query)
           positions == KeywordPositions(query)
           G(i) == GroupAt(query, i)
<1>1. PICK taken : IsTaken(taken, query, N) /\ request = taken[N].keywords
  BY RequestUnfolds
<1> DEFINE place == [i \in positions |-> Place(taken, query, i)]
<1>2. N \in Nat /\ DOMAIN query = 1..N
  BY DEF Query
<1>3. RequestInv(taken, query, N)
  BY <1>1, <1>2, RequestInvHolds
<1>4. positions = {i \in 1..N : query[i] \in Words}
  BY <1>2 DEF KeywordPositions
<1> HIDE DEF request
<1>5. /\ request \in [Groups -> Seq(Words)]
      /\ \A g \in Groups : Len(request[g]) <= N
      /\ \A i \in positions : /\ G(i) \in Groups
                              /\ place[i] \in 1..Len(request[G(i)])
                              /\ request[G(i)][place[i]] = query[i]
      /\ \A g \in Groups : \A k \in 1..Len(request[g]) :
           \E i \in positions : G(i) = g /\ place[i] = k
      /\ \A i, j \in positions : i < j /\ G(i) = G(j) => place[i] < place[j]
  BY <1>1, <1>3, <1>4 DEF RequestInv
<1> HIDE DEF positions, place, G
<1>6. \A g \in Groups : request[g] \in Seq(Words) /\ DOMAIN request[g] = 1..Len(request[g])
                        /\ Len(request[g]) \in Nat /\ (request[g] # <<>> <=> Len(request[g]) # 0)
  BY <1>5
<1>7. \A g \in Groups : g \in RequestGroups(request) <=> \E i \in positions : G(i) = g
  <2> SUFFICES ASSUME NEW g \in Groups
               PROVE  request[g] # <<>> <=> \E i \in positions : G(i) = g
    BY DEF RequestGroups
  <2>1. CASE request[g] # <<>>
    <3>1. 1 \in 1..Len(request[g])
      BY <1>6, <2>1
    <3> QED
      BY <1>5, <2>1, <3>1
  <2>2. CASE request[g] = <<>>
    <3>1. 1..Len(request[g]) = {}
      BY <1>6, <2>2
    <3> QED
      BY <1>5, <2>2, <3>1
  <2> QED
    BY <2>1, <2>2
<1>8. IsFiniteSet(RequestGroups(request))
  <2> DEFINE asked == RequestGroups(request)
             named == [i \in positions |-> G(i)]
  <2>1. IsFiniteSet(positions)
    <3>1. IsFiniteSet(1..N)
      BY <1>2, FS_Interval
    <3>2. positions \in SUBSET (1..N)
      BY <1>4
    <3> QED
      BY <3>1, <3>2, FS_Subset
  <2>2. named \in [positions -> asked]
    BY <1>5, <1>7
  <2>3. \A g \in asked : \E i \in positions : named[i] = g
    BY <1>7 DEF RequestGroups
  <2> HIDE DEF named, asked
  <2>4. named \in Surjection(positions, asked)
    BY <2>2, <2>3, Fun_IsSurj
  <2>5. IsFiniteSet(asked)
    BY <2>1, <2>4, FS_Surjection
  <2> QED
    BY <2>5 DEF asked
<1>9. \A i, j \in positions : G(i) = G(j) /\ place[i] = place[j] => i = j
  <2> SUFFICES ASSUME NEW i \in positions, NEW j \in positions, i < j, G(i) = G(j)
               PROVE  place[i] # place[j]
    <3>1. \A i \in positions : i \in Int
      BY <1>2, <1>4
    <3> QED
      BY <3>1
  <2>1. place[i] < place[j] /\ place[i] \in Int /\ place[j] \in Int
    BY <1>5, <1>6
  <2> QED
    BY <2>1
<1>10. IsRequest(request, N)
  BY <1>5, <1>8 DEF IsRequest
<1> QED
  <2>1. \A i \in positions : /\ G(i) \in Groups
                             /\ place[i] \in DOMAIN request[G(i)]
                             /\ request[G(i)][place[i]] = query[i]
    BY <1>5, <1>6
  <2>2. \A g \in Groups : \A k \in DOMAIN request[g] : \E i \in positions : G(i) = g /\ place[i] = k
    BY <1>5, <1>6
  <2> QED
    BY <1>2, <1>7, <1>9, <1>10, <2>1, <2>2, Zenon DEF positions, G, request

\* The keyword score of a document is the number of the query's keywords it has.
LEMMA ScoreIsHits ==
    ASSUME NEW query \in Query, NEW d \in Docs
    PROVE  /\ KeywordScore(Request(query), d) = Cardinality(Hits(query, d))
           /\ KeywordScore(Request(query), d) \in Nat
<1> DEFINE request == Request(query)
           positions == KeywordPositions(query)
           G(i) == GroupAt(query, i)
           asked == RequestGroups(request)
           hits == Hits(query, d)
           Of(g) == {j \in DOMAIN request[g] : HasKeyword(d, g, request[g][j])}
           pairs == UNION {{<<g, i>> : i \in Of(g)} : g \in asked}
<1>1. /\ IsRequest(request, Len(query))
      /\ \A g \in Groups : g \in asked <=> \E i \in positions : G(i) = g
      /\ \A i \in positions : G(i) \in Groups
  BY RequestOfQuery
<1>2. PICK place :
        /\ \A i \in positions : /\ place[i] \in DOMAIN request[G(i)]
                                /\ request[G(i)][place[i]] = query[i]
        /\ \A g \in Groups : \A k \in DOMAIN request[g] :
             \E i \in positions : G(i) = g /\ place[i] = k
        /\ \A i, j \in positions : G(i) = G(j) /\ place[i] = place[j] => i = j
  BY RequestOfQuery
<1>3. KeywordScore(request, d) = Cardinality(pairs)
  BY DEF KeywordScore
<1>4. \A t : t \in pairs <=> \E g \in asked : \E i \in Of(g) : t = <<g, i>>
  <2>1. \A t : t \in pairs <=> \E g \in asked : t \in {<<g, i>> : i \in Of(g)}
    BY Zenon
  <2> HIDE DEF pairs, Of, asked
  <2> QED
    BY <2>1
<1>5. \A i : i \in hits <=> i \in positions /\ HasKeyword(d, G(i), query[i])
  BY DEF Hits
<1>6. IsFiniteSet(hits)
  <2>1. Len(query) \in Nat /\ DOMAIN query = 1..Len(query)
    BY DEF Query
  <2>2. IsFiniteSet(1..Len(query))
    BY <2>1, FS_Interval
  <2>3. hits \in SUBSET (1..Len(query))
    BY <1>5, <2>1 DEF KeywordPositions
  <2> QED
    BY <2>2, <2>3, FS_Subset
<1>7. asked \subseteq Groups
  BY DEF RequestGroups
<1> HIDE DEF request, positions, asked, pairs, G, hits
<1> DEFINE pair == [i \in hits |-> <<G(i), place[i]>>]
<1>8. pair \in [hits -> pairs]
  <2> SUFFICES ASSUME NEW i \in hits
               PROVE  <<G(i), place[i]>> \in pairs
    OBVIOUS
  <2>1. i \in positions /\ HasKeyword(d, G(i), query[i])
    BY <1>5
  <2>2. G(i) \in asked /\ place[i] \in Of(G(i))
    BY <1>1, <1>2, <2>1
  <2> HIDE DEF Of
  <2> QED
    BY <1>4, <2>2
<1>9. \A i, j \in hits : pair[i] = pair[j] => i = j
  BY <1>2, <1>5
<1>10. \A t \in pairs : \E i \in hits : pair[i] = t
  <2> SUFFICES ASSUME NEW t \in pairs
               PROVE  \E i \in hits : <<G(i), place[i]>> = t
    OBVIOUS
  <2>1. PICK g \in asked : \E k \in Of(g) : t = <<g, k>>
    <3> HIDE DEF Of
    <3> QED
      BY <1>4
  <2>2. PICK k \in Of(g) : t = <<g, k>>
    BY <2>1
  <2>3. k \in DOMAIN request[g] /\ HasKeyword(d, g, request[g][k])
    BY <2>2
  <2>4. g \in Groups
    BY <1>7
  <2>5. PICK i \in positions : G(i) = g /\ place[i] = k
    BY <1>2, <2>3, <2>4
  <2>6. i \in hits
    BY <1>2, <1>5, <2>3, <2>5
  <2> QED
    BY <2>2, <2>5, <2>6
<1>11. Cardinality(pairs) = Cardinality(hits)
  <2> HIDE DEF pair
  <2>1. pair \in Injection(hits, pairs) /\ pair \in Surjection(hits, pairs)
    BY <1>8, <1>9, <1>10, Fun_IsInj, Fun_IsSurj
  <2>2. ExistsBijection(hits, pairs)
    BY <2>1 DEF ExistsBijection, Bijection
  <2> QED
    BY <1>6, <2>2, FS_Bijection
<1> QED
  BY <1>3, <1>6, <1>11, FS_CardinalityType DEF request, hits

\* The results of a query are the documents it describes.
LEMMA ResultsAreDescribed ==
    ASSUME AnswersAreExact, AtRest, NEW query \in Query
    PROVE  Results(Request(query)) = {d \in Docs : IsWanted(query, d)}
<1> DEFINE request == Request(query)
           positions == KeywordPositions(query)
           G(i) == GroupAt(query, i)
           asked == RequestGroups(request)
<1>1. /\ IsRequest(request, Len(query)) /\ Len(query) \in Nat
      /\ \A g \in Groups : g \in asked <=> \E i \in positions : G(i) = g
      /\ \A i \in positions : G(i) \in Groups
  BY RequestOfQuery
<1>2. PICK place :
        /\ \A i \in positions : /\ place[i] \in DOMAIN request[G(i)]
                                /\ request[G(i)][place[i]] = query[i]
        /\ \A g \in Groups : \A k \in DOMAIN request[g] :
             \E i \in positions : G(i) = g /\ place[i] = k
  BY RequestOfQuery
<1>3. Results(request) =
        {d \in Docs : /\ Retained(d) /\ asked # {}
                      /\ \A g \in asked : \E k \in DOMAIN request[g] : HasKeyword(d, g, request[g][k])}
  BY <1>1, ResultsFromAnswers DEF ResultsAreWanted
<1>4. asked \subseteq Groups
  BY DEF RequestGroups
<1> HIDE DEF request, positions, asked, G
<1>5. asked # {} <=> positions # {}
  BY <1>1, <1>4
<1>6. ASSUME NEW d \in Docs
      PROVE  (\A g \in asked : \E k \in DOMAIN request[g] : HasKeyword(d, g, request[g][k])) <=>
             \A i \in positions : \E j \in Hits(query, d) : G(j) = G(i)
  <2>1. \A j : j \in Hits(query, d) <=> j \in positions /\ HasKeyword(d, G(j), query[j])
    BY DEF Hits, positions, G
  <2>2. \A g \in Groups : (\E k \in DOMAIN request[g] : HasKeyword(d, g, request[g][k])) <=>
                            \E j \in Hits(query, d) : G(j) = g
    <3> SUFFICES ASSUME NEW g \in Groups
                 PROVE  (\E k \in DOMAIN request[g] : HasKeyword(d, g, request[g][k])) <=>
                          \E j \in Hits(query, d) : G(j) = g
      OBVIOUS
    <3>1. ASSUME NEW k \in DOMAIN request[g], HasKeyword(d, g, request[g][k])
          PROVE  \E j \in Hits(query, d) : G(j) = g
      <4>1. PICK j \in positions : G(j) = g /\ place[j] = k
        BY <1>2
      <4> QED
        BY <1>2, <2>1, <3>1, <4>1
    <3>2. ASSUME NEW j \in Hits(query, d), G(j) = g
          PROVE  \E k \in DOMAIN request[g] : HasKeyword(d, g, request[g][k])
      BY <1>2, <2>1, <3>2
    <3> QED
      BY <3>1, <3>2
  <2> QED
    BY <1>1, <1>4, <2>2
<1> QED
  BY <1>3, <1>5, <1>6 DEF IsWanted, positions, G, request

-----------------------------------------------------------------------------
(* The order of the results: scores are fractions, compared crosswise *)

LEMMA Scaling ==
    ASSUME NEW x \in Int, NEW y \in Int, NEW z \in Int, z > 0
    PROVE  x > y <=> x * z > y * z
<1>1. x > y => x * z > y * z
  OBVIOUS
<1>2. ~(x > y) => ~(x * z > y * z)
  OBVIOUS
<1> QED
  BY <1>1, <1>2

LEMMA FractionsAreOrdered ==
    ASSUME NEW p \in Int, NEW q \in Int, q > 0, NEW r \in Int, NEW s \in Int, s > 0,
           NEW t \in Int, NEW u \in Int, u > 0
    PROVE  /\ p * s >= r * q /\ r * u >= t * s => p * u >= t * q
           /\ p * s > r * q /\ r * u >= t * s => p * u > t * q
           /\ p * s >= r * q /\ r * u > t * s => p * u > t * q
<1> DEFINE a == p * s
           b == r * q
           c == r * u
           d == t * s
           e == p * u
           f == t * q
<1>1. a \in Int /\ b \in Int /\ c \in Int /\ d \in Int /\ e \in Int /\ f \in Int
  OBVIOUS
<1>2. a * u = e * s /\ b * u = c * q /\ d * q = f * s
  <2>1. (p * s) * u = (p * u) * s
    OBVIOUS
  <2>2. (r * q) * u = (r * u) * q
    OBVIOUS
  <2>3. (t * s) * q = (t * q) * s
    OBVIOUS
  <2> QED
    BY <2>1, <2>2, <2>3
<1> HIDE DEF a, b, c, d, e, f
<1>3. /\ a > b <=> a * u > b * u
      /\ b > a <=> b * u > a * u
      /\ c > d <=> c * q > d * q
      /\ d > c <=> d * q > c * q
      /\ e > f <=> e * s > f * s
      /\ f > e <=> f * s > e * s
  BY <1>1, Scaling
<1> DEFINE au == a * u
           bu == b * u
           dq == d * q
<1>4. au \in Int /\ bu \in Int /\ dq \in Int /\ bu = c * q /\ au = e * s /\ dq = f * s
  BY <1>1, <1>2
<1> HIDE DEF au, bu, dq
<1>5. /\ a > b <=> au > bu
      /\ b > a <=> bu > au
      /\ c > d <=> bu > dq
      /\ d > c <=> dq > bu
      /\ e > f <=> au > dq
      /\ f > e <=> dq > au
  BY <1>3, <1>4 DEF au, bu, dq
<1>6. /\ a >= b /\ c >= d => e >= f
      /\ a > b /\ c >= d => e > f
      /\ a >= b /\ c > d => e > f
  BY <1>1, <1>4, <1>5
<1> QED
  BY <1>6 DEF a, b, c, d, e, f

LEMMA ScoreIsFraction ==
    ASSUME NEW query \in Query, NEW distance \in [Docs -> Nat \union {NoDistance}], NEW d \in Docs
    PROVE  LET score == Score(Request(query), distance, d)
           IN score[1] \in Int /\ score[2] \in Int /\ score[2] > 0
<1>1. KeywordScore(Request(query), d) \in Nat
  BY ScoreIsHits
<1>2. distance[d] = NoDistance \/ distance[d] \in Nat
  OBVIOUS
<1>3. /\ Bonus(distance[d])[1] \in Nat /\ Bonus(distance[d])[2] \in Nat
      /\ Bonus(distance[d])[2] > 0
  BY <1>2, SearchAssumption DEF Bonus
<1> DEFINE k == KeywordScore(Request(query), d)
           b == Bonus(distance[d])
<1> HIDE DEF k, b
<1>4. k * b[2] + b[1] \in Int
  BY <1>1, <1>3 DEF k, b
<1> QED
  BY <1>3, <1>4 DEF Score, k, b

\* What comes before what among the results of a search.
RankedBefore(query, distance) ==
    LET request == Request(query)
    IN {p \in Results(request) \X Results(request) :
          RanksBefore(p[1], p[2], Score(request, distance, p[1]), Score(request, distance, p[2]))}

\* A search sorts a finite set of results, of different IDs, by a strict order.
LEMMA SearchSorts ==
    ASSUME AnswersAreExact, AtRest, NEW query \in Query,
           NEW distance \in [Docs -> Nat \union {NoDistance}]
    PROVE  LET results == Results(Request(query))
               before == RankedBefore(query, distance)
           IN /\ results \in SUBSET Docs /\ IsFiniteSet(results)
              /\ IsStrictOrder(before, results)
              /\ SearchResults(query, distance, 0) = InOrder(results, before)
              /\ \A limit \in Nat : SearchResults(query, distance, limit) =
                   InOrder(IF limit > 0 /\ limit < Cardinality(results)
                           THEN {d \in results : Rank(d, results, before) < limit}
                           ELSE results, before)
<1> DEFINE request == Request(query)
           results == Results(request)
           before == RankedBefore(query, distance)
           S(d) == Score(request, distance, d)
<1>1. results \in SUBSET Docs /\ \A d \in results : Retained(d)
  BY ResultsAreDescribed DEF IsWanted
<1>2. \A a, b \in results : IdOf[a] = IdOf[b] => a = b
  BY <1>1 DEF Retained
<1>3. \A d \in results : IdOf[d] \in Ids /\ IdOf[d] \in Int
  BY <1>1, DocsAssumption, SearchAssumption
<1>4. IsFiniteSet(results)
  <2> DEFINE id == [d \in results |-> IdOf[d]]
  <2> HIDE DEF results
  <2>1. id \in [results -> Ids] /\ \A a, b \in results : id[a] = id[b] => a = b
    BY <1>2, <1>3
  <2> HIDE DEF id
  <2>2. id \in Injection(results, Ids)
    BY <2>1, Fun_IsInj
  <2> QED
    BY <2>2, FS_Injection, SearchAssumption
<1>5. \A d \in results : S(d)[1] \in Int /\ S(d)[2] \in Int /\ S(d)[2] > 0
  BY <1>1, ScoreIsFraction
<1>6. \A a, b \in results : <<a, b>> \in before <=> RanksBefore(a, b, S(a), S(b))
  BY DEF RankedBefore
<1> HIDE DEF request, results, before, S
<1>7. ASSUME NEW a \in results, NEW b \in results
      PROVE  a = b \/ <<a, b>> \in before \/ <<b, a>> \in before
  <2> DEFINE x == S(a)[1] * S(b)[2]
             y == S(b)[1] * S(a)[2]
  <2>1. x \in Int /\ y \in Int
    BY <1>5
  <2>2. /\ <<a, b>> \in before <=> IF x # y THEN x > y ELSE IdOf[a] < IdOf[b]
        /\ <<b, a>> \in before <=> IF y # x THEN y > x ELSE IdOf[b] < IdOf[a]
    BY <1>6 DEF RanksBefore
  <2> HIDE DEF x, y
  <2> QED
    BY <1>2, <1>3, <2>1, <2>2
<1>8. ASSUME NEW a \in results
      PROVE  <<a, a>> \notin before
  BY <1>3, <1>6 DEF RanksBefore
<1>9. ASSUME NEW a \in results, NEW b \in results, NEW c \in results,
             <<a, b>> \in before, <<b, c>> \in before
      PROVE  <<a, c>> \in before
  <2> DEFINE ab == S(a)[1] * S(b)[2]
             ba == S(b)[1] * S(a)[2]
             bc == S(b)[1] * S(c)[2]
             cb == S(c)[1] * S(b)[2]
             ac == S(a)[1] * S(c)[2]
             ca == S(c)[1] * S(a)[2]
  <2>1. /\ ab \in Int /\ ba \in Int /\ bc \in Int /\ cb \in Int /\ ac \in Int /\ ca \in Int
    BY <1>5
  <2>2. /\ ab >= ba /\ bc >= cb => ac >= ca
        /\ ab > ba /\ bc >= cb => ac > ca
        /\ ab >= ba /\ bc > cb => ac > ca
    <3> DEFINE p == S(a)[1]
               q == S(a)[2]
               r == S(b)[1]
               s == S(b)[2]
               t == S(c)[1]
               u == S(c)[2]
    <3>1. /\ p \in Int /\ q \in Int /\ q > 0 /\ r \in Int /\ s \in Int /\ s > 0
          /\ t \in Int /\ u \in Int /\ u > 0
      BY <1>5
    <3>2. ab = p * s /\ ba = r * q /\ bc = r * u /\ cb = t * s /\ ac = p * u /\ ca = t * q
      OBVIOUS
    <3> HIDE DEF p, q, r, s, t, u, ab, ba, bc, cb, ac, ca
    <3>3. /\ p * s >= r * q /\ r * u >= t * s => p * u >= t * q
          /\ p * s > r * q /\ r * u >= t * s => p * u > t * q
          /\ p * s >= r * q /\ r * u > t * s => p * u > t * q
      BY <3>1, FractionsAreOrdered
    <3> QED
      BY <3>2, <3>3
  <2>3. /\ IF ab # ba THEN ab > ba ELSE IdOf[a] < IdOf[b]
        /\ IF bc # cb THEN bc > cb ELSE IdOf[b] < IdOf[c]
        /\ <<a, c>> \in before <=> IF ac # ca THEN ac > ca ELSE IdOf[a] < IdOf[c]
    BY <1>6, <1>9 DEF RanksBefore
  <2> HIDE DEF ab, ba, bc, cb, ac, ca
  <2> QED
    BY <1>3, <2>1, <2>2, <2>3
<1>10. IsStrictOrder(before, results)
  BY <1>7, <1>8, <1>9 DEF IsStrictOrder
<1>11. ASSUME NEW limit \in Nat
       PROVE  SearchResults(query, distance, limit) =
                   InOrder(IF limit > 0 /\ limit < Cardinality(results)
                           THEN {d \in results : Rank(d, results, before) < limit}
                           ELSE results, before)
  <2> DEFINE score == [d \in Results(Request(query)) |-> Score(Request(query), distance, d)]
  <2>1. {p \in results \X results : RanksBefore(p[1], p[2], score[p[1]], score[p[2]])} = before
    BY DEF RankedBefore, before, results, request
  <2> QED
    BY <2>1 DEF SearchResults, results, request
<1>12. SearchResults(query, distance, 0) = InOrder(results, before)
  <2>1. 0 \in Nat /\ ~(0 > 0)
    OBVIOUS
  <2> QED
    BY <1>11, <2>1
<1> QED
  BY <1>1, <1>4, <1>10, <1>11, <1>12 DEF request, results, before

\* Between calls, whatever was indexed, replaced, removed or rolled back, a search
\* returns each retained document its query describes, once, and no other.
THEOREM SearchIsAlwaysExact == Spec => []SearchIsExact
<1>1. ASSUME AnswersAreExact, AtRest, NEW query \in Queries
      PROVE  LET found == SearchResults(query, Undistanced, 0)
             IN /\ ToSet(found) = {d \in Docs : IsWanted(query, d)}
                /\ Len(found) = Cardinality(ToSet(found))
  <2> DEFINE results == Results(Request(query))
             found == SearchResults(query, Undistanced, 0)
             n == Cardinality(results)
  <2>1. query \in Query /\ Undistanced \in [Docs -> Nat \union {NoDistance}]
    BY SearchAssumption DEF Undistanced
  <2>2. results = {d \in Docs : IsWanted(query, d)}
    BY <1>1, <2>1, ResultsAreDescribed
  <2>3. /\ n \in Nat /\ found \in [1..n -> results]
        /\ \A d \in results : \E i \in 1..n : found[i] = d
    BY <1>1, <2>1, SearchSorts, InOrderProperties
  <2> HIDE DEF results, found, n
  <2>4. DOMAIN found = 1..n /\ Len(found) = n
    BY <2>3
  <2>5. ToSet(found) = results
    BY <2>3, <2>4 DEF ToSet
  <2> QED
    BY <2>2, <2>4, <2>5 DEF found, results, n
<1>2. AnswersAreExact => SearchIsExact
  BY <1>1 DEF SearchIsExact
<1> QED
  BY <1>2, AnswersAreAlwaysExact, PTL

\* Without a property a search ranks by the number of the query's keywords that a
\* document has, wherever in the query they stand, and then by document ID.
THEOREM MoreHitsAlwaysFirst == Spec => []MoreHitsFirst
<1>1. ASSUME AnswersAreExact, AtRest, NEW query \in Queries
      PROVE  LET found == SearchResults(query, Undistanced, 0)
                 hits(i) == Cardinality(Hits(query, found[i]))
             IN \A i, j \in DOMAIN found : i < j =>
                  \/ hits(i) > hits(j)
                  \/ hits(i) = hits(j) /\ IdOf[found[i]] < IdOf[found[j]]
  <2> DEFINE results == Results(Request(query))
             before == RankedBefore(query, Undistanced)
             found == SearchResults(query, Undistanced, 0)
             n == Cardinality(results)
  <2>1. query \in Query /\ Undistanced \in [Docs -> Nat \union {NoDistance}]
    BY SearchAssumption DEF Undistanced
  <2>2. /\ n \in Nat /\ found \in [1..n -> results]
        /\ \A i, j \in 1..n : <<found[i], found[j]>> \in before <=> i < j
    BY <1>1, <2>1, SearchSorts, InOrderProperties
  <2>3. ASSUME NEW a \in results, NEW b \in results, <<a, b>> \in before
        PROVE  \/ Cardinality(Hits(query, a)) > Cardinality(Hits(query, b))
               \/ /\ Cardinality(Hits(query, a)) = Cardinality(Hits(query, b))
                  /\ IdOf[a] < IdOf[b]
    <3> DEFINE x == KeywordScore(Request(query), a)
               y == KeywordScore(Request(query), b)
    <3>1. a \in Docs /\ b \in Docs
      BY <1>1, <2>1, SearchSorts
    <3>2. /\ x \in Nat /\ x = Cardinality(Hits(query, a))
          /\ y \in Nat /\ y = Cardinality(Hits(query, b))
      BY <2>1, <3>1, ScoreIsHits
    <3>3. /\ Score(Request(query), Undistanced, a) = <<x * 1 + 0, 1>>
          /\ Score(Request(query), Undistanced, b) = <<y * 1 + 0, 1>>
      BY <3>1 DEF Score, Undistanced, Bonus
    <3>4. RanksBefore(a, b, Score(Request(query), Undistanced, a), Score(Request(query), Undistanced, b))
      BY <2>3 DEF RankedBefore
    <3> HIDE DEF x, y
    <3>5. RanksBefore(a, b, <<x, 1>>, <<y, 1>>)
      <4>1. x * 1 + 0 = x /\ y * 1 + 0 = y
        BY <3>2
      <4> QED
        BY <3>3, <3>4, <4>1
    <3>6. x > y \/ (x = y /\ IdOf[a] < IdOf[b])
      BY <3>2, <3>5 DEF RanksBefore
    <3> QED
      BY <3>2, <3>6
  <2> HIDE DEF results, found, n, before
  <2>4. DOMAIN found = 1..n
    BY <2>2
  <2> QED
    BY <2>2, <2>3, <2>4 DEF found
<1>2. AnswersAreExact => MoreHitsFirst
  BY <1>1 DEF MoreHitsFirst
<1> QED
  BY <1>2, AnswersAreAlwaysExact, PTL

\* A limited search is the prefix of the unlimited one: selecting the best results
\* and sorting all of them agree, ties and distances included.
THEOREM LimitIsAlwaysPrefix == Spec => []LimitIsPrefix
<1>1. ASSUME AnswersAreExact, AtRest, NEW query \in Queries,
             NEW distance \in [Docs -> Distances \union {NoDistance}],
             NEW limit \in 1..Cardinality(Ids)
      PROVE  LET all == SearchResults(query, distance, 0)
             IN SearchResults(query, distance, limit) =
                   SubSeq(all, 1, IF limit < Len(all) THEN limit ELSE Len(all))
  <2> DEFINE results == Results(Request(query))
             before == RankedBefore(query, distance)
             all == SearchResults(query, distance, 0)
             n == Cardinality(results)
  <2>1. /\ query \in Query /\ distance \in [Docs -> Nat \union {NoDistance}]
        /\ limit \in Nat /\ limit > 0
    <3>1. Cardinality(Ids) \in Nat
      BY SearchAssumption, FS_CardinalityType
    <3>2. limit \in Nat /\ limit > 0
      BY <3>1
    <3>3. query \in Query /\ distance \in [Docs -> Nat \union {NoDistance}]
      BY SearchAssumption
    <3> QED
      BY <3>2, <3>3
  <2>2. /\ IsFiniteSet(results) /\ IsStrictOrder(before, results) /\ all = InOrder(results, before)
        /\ SearchResults(query, distance, limit) =
             InOrder(IF limit < n THEN {d \in results : Rank(d, results, before) < limit} ELSE results,
                     before)
    BY <1>1, <2>1, SearchSorts
  <2>3. n \in Nat /\ all \in [1..n -> results]
    BY <2>2, InOrderProperties
  <2> HIDE DEF results, before, n
  <2>4. Len(all) = n /\ DOMAIN all = 1..n
    <3> HIDE DEF all
    <3> QED
      BY <2>3
  <2>5. CASE limit < n
    <3>1. limit \in 0..Cardinality(results)
      BY <2>1, <2>3, <2>5 DEF n
    <3>2. SearchResults(query, distance, limit) = [i \in 1..limit |-> all[i]]
      BY <2>2, <2>5, <3>1, FirstInOrder
    <3> HIDE DEF all
    <3>3. SubSeq(all, 1, limit) = [i \in 1..limit |-> all[i]]
      BY <2>1 DEF SubSeq
    <3> QED
      BY <2>4, <2>5, <3>2, <3>3 DEF all
  <2>6. CASE ~(limit < n)
    <3>1. SearchResults(query, distance, limit) = all
      BY <2>2, <2>6
    <3> HIDE DEF all
    <3>2. SubSeq(all, 1, n) = all
      <4>1. SubSeq(all, 1, n) = [i \in 1..n |-> all[i]]
        BY <2>3 DEF SubSeq
      <4> QED
        BY <2>3, <4>1
    <3> QED
      BY <2>4, <2>6, <3>1, <3>2 DEF all
  <2> QED
    BY <2>5, <2>6
<1>2. AnswersAreExact => LimitIsPrefix
  BY <1>1 DEF LimitIsPrefix
<1> QED
  BY <1>2, AnswersAreAlwaysExact, PTL

\* Of two results with equally many hits, the one closer to the query is first,
\* unless the other is at distance 1: distances 0 and 1 add the same bonus.
THEOREM CloserNeverBehind == Spec => []CloserNotBehind
<1>1. ASSUME AnswersAreExact, AtRest, NEW query \in Queries, NEW distance \in [Docs -> Distances]
      PROVE  LET found == SearchResults(query, distance, 0)
                 request == Request(query)
             IN \A i, j \in DOMAIN found :
                  /\ KeywordScore(request, found[i]) = KeywordScore(request, found[j])
                  /\ distance[found[i]] < distance[found[j]]
                  /\ distance[found[j]] > 1
                  => i < j
  <2> DEFINE request == Request(query)
             results == Results(request)
             before == RankedBefore(query, distance)
             found == SearchResults(query, distance, 0)
             n == Cardinality(results)
  <2>1. query \in Query /\ distance \in [Docs -> Nat \union {NoDistance}] /\ distance \in [Docs -> Nat]
    BY SearchAssumption
  <2>2. /\ n \in Nat /\ found \in [1..n -> results]
        /\ \A i, j \in 1..n : <<found[i], found[j]>> \in before <=> i < j
    BY <1>1, <2>1, SearchSorts, InOrderProperties
  <2>3. ASSUME NEW a \in results, NEW b \in results,
               KeywordScore(request, a) = KeywordScore(request, b),
               distance[a] < distance[b], distance[b] > 1
        PROVE  <<a, b>> \in before
    <3> DEFINE k == KeywordScore(request, a)
               u == distance[a]
               v == distance[b]
               w == IF u = 0 THEN 1 ELSE u
    <3>1. a \in Docs /\ b \in Docs
      BY <1>1, <2>1, SearchSorts
    <3>2. k \in Nat /\ u \in Nat /\ v \in Nat /\ u < v /\ v > 1 /\ w \in Nat /\ w < v /\ w > 0
      BY <2>1, <2>3, <3>1, ScoreIsHits
    <3>3. u # NoDistance /\ v # NoDistance
      BY <3>2, SearchAssumption
    <3>4. Bonus(u) = <<1, w>> /\ Bonus(v) = <<1, v>>
      BY <3>2, <3>3 DEF Bonus
    <3>5. /\ Score(request, distance, a) = <<k * w + 1, w>>
          /\ Score(request, distance, b) = <<k * v + 1, v>>
      BY <2>3, <3>4 DEF Score
    <3> HIDE DEF k, u, v, w, request
    <3>6. (k * w + 1) * v = k * w * v + v /\ (k * v + 1) * w = k * w * v + w
      BY <3>2
    <3>7. k * w * v \in Int
      BY <3>2
    <3>8. (k * w + 1) * v > (k * v + 1) * w
      <4> DEFINE product == k * w * v
      <4> HIDE DEF product
      <4>1. product + v > product + w
        BY <3>2, <3>7 DEF product
      <4> QED
        BY <3>6, <4>1 DEF product
    <3>9. (k * w + 1) * v \in Int /\ (k * v + 1) * w \in Int
      BY <3>2
    <3>10. RanksBefore(a, b, <<k * w + 1, w>>, <<k * v + 1, v>>)
      <4> DEFINE x == (k * w + 1) * v
                 y == (k * v + 1) * w
      <4>1. x > y /\ x \in Int /\ y \in Int
        BY <3>8, <3>9
      <4>2. RanksBefore(a, b, <<k * w + 1, w>>, <<k * v + 1, v>>) <=>
              IF x # y THEN x > y ELSE IdOf[a] < IdOf[b]
        BY DEF RanksBefore
      <4> HIDE DEF x, y
      <4> QED
        BY <4>1, <4>2
    <3> QED
      BY <3>5, <3>10 DEF RankedBefore, request
  <2> HIDE DEF results, found, n, before
  <2>4. DOMAIN found = 1..n
    BY <2>2
  <2>5. \A i, j \in 1..n :
          /\ KeywordScore(request, found[i]) = KeywordScore(request, found[j])
          /\ distance[found[i]] < distance[found[j]]
          /\ distance[found[j]] > 1
          => i < j
    BY <2>2, <2>3
  <2> QED
    BY <2>4, <2>5 DEF found
<1>2. AnswersAreExact => CloserNotBehind
  BY <1>1 DEF CloserNotBehind
<1> QED
  BY <1>2, AnswersAreAlwaysExact, PTL

-----------------------------------------------------------------------------
(* IndexCopy                                                               *)

CopyOf(i) == DocCopy[source[i]]

\* The document of ID i has been copied, for the new index or to go into it.
IsCopied(i) == source[i] # NoDoc /\ docKeys[CopyOf(i)] = CopiedKeys(source[i])

TermsOfKeys(K) == {<<GroupOf[k], HashOf[k]>> : k \in K}

\* What the original answers, by the documents it retains.
Answer(t) ==
    {source[i] : i \in {j \in Ids : source[j] # NoDoc /\ t \in TermsOfKeys(docKeys[source[j]])}}

\* The objects of the two indexes are apart from the first step on.
Apart ==
    /\ source \in [Ids -> Originals \union {NoDoc}]
    /\ \A i \in Ids : source[i] # NoDoc => IdOf[source[i]] = i
    /\ \A d \in Originals : docKeys[d] \subseteq OwnKeys
    /\ \A d \in Docs \ Originals : docKeys[d] \intersect OwnKeys = {}
    /\ stage = "original" =>
        /\ docPtrCache \in [Ids -> Originals \union {NoDoc}]
        /\ doc \in Originals \union {NoDoc}

\* The new index retains copies only, is being given one under an ID it does
\* not know, and posts no key of the original.
NewIndex ==
    /\ pc \in {"idle", "index", "post", "rollback", "returned", "threw"}
    /\ \A i \in Ids : docPtrCache[i] # NoDoc => IsCopied(i) /\ docPtrCache[i] = CopyOf(i)
    /\ ~AtRest => \E i \in Ids : IsCopied(i) /\ doc = CopyOf(i) /\ docPtrCache[i] = NoDoc
    /\ posted \intersect OwnKeys = {}
    /\ promised = [t \in Groups \X HashIds |-> Answer(t)]

CopyInv ==
    /\ IndInv
    /\ Apart
    /\ stage # "original" => NewIndex
    /\ stage = "copied" => pc = "idle" /\ Copied

LEMMA InitCopyInv == CopyInit => CopyInv
<1> SUFFICES ASSUME CopyInit
             PROVE  CopyInv
  OBVIOUS
<1>1. stage = "original" /\ source = docPtrCache /\ docPtrCache = [i \in Ids |-> NoDoc]
      /\ docKeys = [d \in Docs |-> {}] /\ doc = NoDoc
  BY DEF CopyInit, Init
<1>2. Originals \subseteq Docs
  BY CopyAssumption
<1>3. Apart
  BY <1>1, <1>2 DEF Apart
<1> QED
  BY <1>1, <1>3, InitIndInv DEF CopyInit, CopyInv

-----------------------------------------------------------------------------
(* Calls and edits of the original *)

\* What a step does to the documents an index retains.
LEMMA CacheChanges ==
    Next => docPtrCache' \in {docPtrCache,
                              [docPtrCache EXCEPT ![IdOf[doc]] = doc],
                              [docPtrCache EXCEPT ![IdOf[doc]] = NoDoc],
                              [i \in Ids |-> NoDoc]}
  BY DEF Next, EditDocument, AddKey, AddKeyThrows, RemoveKey, RemoveKeyThrows, RemoveGroup,
         InvokeAny, Invoke, Resume, IndexStep, PrepareIndex, IndexUnchanged, IndexThrows,
         PublishGroup, PublishGroupThrows, PutDocument, PutDocumentThrows, CacheDocument,
         CacheDocumentThrows, Rollback, ErasePrevious, RemoveStep, RemoveDocument, RemoveUnknown,
         RemoveThrows, ClearStep, Clear, ClearThrows, indexVars

LEMMA OriginalKeepsCopyInv == CopyInv /\ OriginalStep => CopyInv'
<1> SUFFICES ASSUME CopyInv, OriginalStep
             PROVE  CopyInv'
  OBVIOUS
<1>1. stage = "original" /\ UNCHANGED <<stage, source>> /\ Next
      /\ doc' \in Originals \union {NoDoc}
  BY DEF OriginalStep, copyVars
<1>2. IndInv'
  BY <1>1, NextKeepsIndInv DEF CopyInv
<1>3. docPtrCache' \in [Ids -> Originals \union {NoDoc}]
  <2>1. docPtrCache \in [Ids -> Originals \union {NoDoc}] /\ doc \in Originals \union {NoDoc}
    BY <1>1 DEF CopyInv, Apart
  <2> QED
    BY <1>1, <2>1, CacheChanges
<1>4. Apart'
  BY <1>1, <1>3 DEF OriginalStep, CopyInv, Apart
<1> QED
  BY <1>1, <1>2, <1>4 DEF CopyInv

-----------------------------------------------------------------------------
(* The copy begins *)

LEMMA BeginKeepsIndInv == CopyInv /\ BeginCopy => IndInv'
<1> SUFFICES ASSUME CopyInv, BeginCopy
             PROVE  IndInv'
  OBVIOUS
<1>1. /\ pc = "idle" /\ pc' = pc
      /\ UNCHANGED <<docKeys, docGroups, doc, previous, oldGroups, groups, keys>>
      /\ docPtrCache' = [i \in Ids |-> NoDoc] /\ reverseIndices' = {} /\ posted' = {}
      /\ keyPtrCache' = [g \in Groups |-> [h \in HashIds |-> NoKey]]
      /\ postings' = [k \in Keys |-> {}]
  BY DEF BeginCopy, docVars, callVars
<1> USE DEF CopyInv, IndInv
<1>2. TypeOK'
  BY <1>1 DEF TypeOK
<1>3. CacheMatchesPostings' /\ KeysAreGrouped' /\ CachedUnderItsId'
  BY <1>1 DEF CacheMatchesPostings, KeysAreGrouped, CachedUnderItsId
<1>4. CallIsConsistent' /\ NothingStale'
  BY <1>1 DEF CallIsConsistent, NothingStale, Posting
<1>5. NothingMissing'
  BY <1>1, DocsAssumption DEF NothingMissing, Retained
<1> QED
  BY <1>2, <1>3, <1>4, <1>5

\* At rest the original answers by the documents it retains.
LEMMA BeginNotesAnswers ==
    CopyInv /\ BeginCopy => promised' = [t \in Groups \X HashIds |-> Answer(t)']
<1> SUFFICES ASSUME CopyInv, BeginCopy, NEW g \in Groups, NEW h \in HashIds
             PROVE  Lookup(g, h) = Answer(<<g, h>>)'
  BY DEF BeginCopy
<1>1. source' = docPtrCache /\ docKeys' = docKeys /\ AtRest
  BY DEF BeginCopy, docVars, AtRest
<1>2. Lookup(g, h) = {d \in Docs : Retained(d) /\ \E k \in GroupKeys(d, g) : HashOf[k] = h}
  BY <1>1, IndInvMakesAnswersExact DEF CopyInv, AnswersAreExact
<1>3. \A d \in Docs : (\E k \in GroupKeys(d, g) : HashOf[k] = h)
                        <=> <<g, h>> \in TermsOfKeys(docKeys[d])
  BY DEF GroupKeys, TermsOfKeys
<1>4. \A d \in Docs : Retained(d) => IdOf[d] \in Ids /\ docPtrCache[IdOf[d]] = d /\ d # NoDoc
  BY DocsAssumption DEF Retained
<1>5. \A i \in Ids : docPtrCache[i] # NoDoc => docPtrCache[i] \in Docs /\ Retained(docPtrCache[i])
  BY DEF CopyInv, IndInv, TypeOK, CachedUnderItsId, Retained
<1> QED
  BY <1>1, <1>2, <1>3, <1>4, <1>5 DEF Answer

LEMMA BeginKeepsCopyInv == CopyInv /\ BeginCopy => CopyInv'
<1> SUFFICES ASSUME CopyInv, BeginCopy
             PROVE  CopyInv'
  OBVIOUS
<1>1. /\ stage = "original" /\ stage' = "copying" /\ source' = docPtrCache
      /\ pc = "idle" /\ pc' = "idle" /\ docKeys' = docKeys
      /\ docPtrCache' = [i \in Ids |-> NoDoc] /\ posted' = {}
  BY DEF BeginCopy, docVars
<1>2. Apart'
  BY <1>1 DEF CopyInv, Apart, IndInv, CachedUnderItsId
<1>3. NewIndex'
  BY <1>1, BeginNotesAnswers DEF NewIndex, AtRest
<1> QED
  BY <1>1, <1>2, <1>3, BeginKeepsIndInv DEF CopyInv

-----------------------------------------------------------------------------
(* A document is copied *)

\* The copies of two documents are two objects, and none is of the original.
LEMMA CopiesDiffer ==
    ASSUME Apart
    PROVE  \A i \in Ids : source[i] # NoDoc =>
             /\ source[i] \in Originals /\ CopyOf(i) \in Docs \ Originals
             /\ IdOf[CopyOf(i)] = i
             /\ \A j \in Ids : source[j] # NoDoc /\ CopyOf(i) = CopyOf(j) => i = j
<1> SUFFICES ASSUME NEW i \in Ids, source[i] # NoDoc
             PROVE  /\ source[i] \in Originals /\ CopyOf(i) \in Docs \ Originals
                    /\ IdOf[CopyOf(i)] = i
                    /\ \A j \in Ids : source[j] # NoDoc /\ CopyOf(i) = CopyOf(j) => i = j
  OBVIOUS
<1>1. \A j \in Ids : source[j] # NoDoc => source[j] \in Originals /\ IdOf[source[j]] = j
  BY DEF Apart
<1>2. \A j \in Ids : source[j] # NoDoc =>
        DocCopy[source[j]] \in Docs \ Originals /\ IdOf[DocCopy[source[j]]] = j
  BY <1>1, CopyAssumption
<1> QED
  BY <1>1, <1>2 DEF CopyOf

\* A copied key is a new object of the same group and hash.
LEMMA KeyCopies ==
    ASSUME NEW i \in Ids, NEW k \in OwnKeys
    PROVE  /\ KeyCopy[i, k] \in Keys /\ KeyCopy[i, k] \notin OwnKeys
           /\ GroupOf[KeyCopy[i, k]] = GroupOf[k] /\ HashOf[KeyCopy[i, k]] = HashOf[k]
<1>1. <<i, k>> \in Ids \X OwnKeys
  OBVIOUS
<1>2. KeyCopy[<<i, k>>] \in Keys \ OwnKeys
  BY <1>1, CopyAssumption
<1> QED
  BY <1>2, CopyAssumption

LEMMA TermsOfCopies ==
    ASSUME NEW i \in Ids, NEW K, K \subseteq OwnKeys
    PROVE  TermsOfKeys({KeyCopy[i, k] : k \in K}) = TermsOfKeys(K)
<1> DEFINE Q == {KeyCopy[i, k] : k \in K}
<1>1. \A k \in K : /\ GroupOf[KeyCopy[i, k]] = GroupOf[k] /\ HashOf[KeyCopy[i, k]] = HashOf[k]
                  /\ KeyCopy[i, k] \in Q
  BY KeyCopies
<1>2. \A q \in Q : \E k \in K : q = KeyCopy[i, k]
  OBVIOUS
<1> HIDE DEF Q
<1>3. TermsOfKeys(Q) \subseteq TermsOfKeys(K)
  <2> SUFFICES ASSUME NEW q \in Q
               PROVE  <<GroupOf[q], HashOf[q]>> \in TermsOfKeys(K)
    BY DEF TermsOfKeys
  <2>1. PICK k \in K : q = KeyCopy[i, k]
    BY <1>2
  <2>2. GroupOf[q] = GroupOf[k] /\ HashOf[q] = HashOf[k]
    BY <1>1, <2>1
  <2> QED
    BY <2>2 DEF TermsOfKeys
<1>4. TermsOfKeys(K) \subseteq TermsOfKeys(Q)
  <2> SUFFICES ASSUME NEW k \in K
               PROVE  <<GroupOf[k], HashOf[k]>> \in TermsOfKeys(Q)
    BY DEF TermsOfKeys
  <2>1. PICK q \in Q : GroupOf[q] = GroupOf[k] /\ HashOf[q] = HashOf[k]
    BY <1>1
  <2> QED
    BY <2>1 DEF TermsOfKeys
<1>5. TermsOfKeys(Q) = TermsOfKeys(K)
  BY <1>3, <1>4
<1> QED
  BY <1>5 DEF Q

LEMMA CopyDocumentKeepsCopyInv ==
    CopyInv /\ (\E i \in Ids : CopyDocument(i)) => CopyInv'
<1> SUFFICES ASSUME CopyInv, NEW i \in Ids, CopyDocument(i)
             PROVE  CopyInv'
  OBVIOUS
<1> DEFINE copy == CopyOf(i)
<1>1. /\ stage = "copying" /\ pc = "idle" /\ pc' = "index" /\ doc' = copy
      /\ source[i] # NoDoc /\ docPtrCache[i] = NoDoc
      /\ docKeys' = [docKeys EXCEPT ![copy] = CopiedKeys(source[i])]
      /\ docGroups' = [docGroups EXCEPT ![copy] = {GroupOf[k] : k \in CopiedKeys(source[i])}]
      /\ UNCHANGED <<docPtrCache, reverseIndices, keyPtrCache, posted, postings, previous,
                     oldGroups, groups, keys, stage, source, promised>>
  BY DEF CopyDocument, CopyOf, indexVars, copyVars
<1>2. /\ source[i] \in Originals /\ copy \in Docs /\ copy \notin Originals /\ IdOf[copy] = i
      /\ docKeys[source[i]] \subseteq OwnKeys
  BY <1>1, CopiesDiffer DEF CopyInv, Apart
<1>3. IdOf[source[i]] = i
  BY <1>1 DEF CopyInv, Apart
<1>4. CopiedKeys(source[i]) \in SUBSET Keys /\ CopiedKeys(source[i]) \intersect OwnKeys = {}
  <2>1. CopiedKeys(source[i]) = {KeyCopy[i, k] : k \in docKeys[source[i]]}
    BY <1>3 DEF CopiedKeys
  <2>2. \A k \in docKeys[source[i]] : KeyCopy[i, k] \in Keys /\ KeyCopy[i, k] \notin OwnKeys
    BY <1>2, KeyCopies
  <2> QED
    BY <2>1, <2>2
<1>5. ~Retained(copy)
  BY <1>1, <1>2, DocsAssumption DEF Retained
<1>6. /\ docKeys' \in [Docs -> SUBSET Keys] /\ docGroups' \in [Docs -> SUBSET Groups]
      /\ docKeys'[copy] = CopiedKeys(source[i])
      /\ docGroups'[copy] = {GroupOf[k] : k \in CopiedKeys(source[i])}
      /\ \A d \in Docs : d # copy => docKeys'[d] = docKeys[d] /\ docGroups'[d] = docGroups[d]
  BY <1>1, <1>2, <1>4, KeysAssumption DEF CopyInv, IndInv, TypeOK
<1>7. IndInv'
  <2> USE DEF CopyInv, IndInv
  <2>1. TypeOK'
    BY <1>1, <1>2, <1>6 DEF TypeOK
  <2>2. CacheMatchesPostings' /\ CachedUnderItsId'
    BY <1>1 DEF CacheMatchesPostings, CachedKey, CachedUnderItsId
  <2>3. KeysAreGrouped'
    BY <1>6 DEF KeysAreGrouped
  <2>4. CallIsConsistent'
    BY <1>1 DEF CallIsConsistent, Posting
  <2>5. NothingStale'
    BY <1>1, <1>5, <1>6 DEF NothingStale, TypeOK, Posting, Retained
  <2>6. NothingMissing'
    BY <1>1, <1>5, <1>6 DEF NothingMissing, TypeOK, Posting, Retained, IsPosted, CachedKey
  <2> QED
    BY <2>1, <2>2, <2>3, <2>4, <2>5, <2>6
<1>8. Apart'
  BY <1>1, <1>2, <1>4, <1>6, CopyAssumption DEF CopyInv, Apart
<1>9. \A j \in Ids : source[j] # NoDoc =>
        /\ CopyOf(j)' = CopyOf(j) /\ CopiedKeys(source[j])' = CopiedKeys(source[j])
        /\ docKeys'[source[j]] = docKeys[source[j]]
        /\ j # i => docKeys'[CopyOf(j)] = docKeys[CopyOf(j)]
  <2> SUFFICES ASSUME NEW j \in Ids, source[j] # NoDoc
               PROVE  /\ CopyOf(j)' = CopyOf(j) /\ CopiedKeys(source[j])' = CopiedKeys(source[j])
                      /\ docKeys'[source[j]] = docKeys[source[j]]
                      /\ j # i => docKeys'[CopyOf(j)] = docKeys[CopyOf(j)]
    OBVIOUS
  <2>1. source[j] \in Originals /\ CopyOf(j) \in Docs /\ (j # i => CopyOf(j) # copy)
    BY <1>1, CopiesDiffer DEF CopyInv
  <2>2. source[j] \in Docs /\ source[j] # copy
    BY <1>2, <2>1, CopyAssumption
  <2>3. docKeys'[source[j]] = docKeys[source[j]]
    BY <1>6, <2>2
  <2>4. CopyOf(j)' = CopyOf(j) /\ source'[j] = source[j]
    BY <1>1 DEF CopyOf
  <2>5. CopiedKeys(source[j])' = CopiedKeys(source[j])
    BY <2>3, <2>4 DEF CopiedKeys
  <2> QED
    BY <1>6, <2>1, <2>3, <2>4, <2>5
<1>10. IsCopied(i)'
  BY <1>1, <1>6, <1>9 DEF IsCopied
<1>11. \A j \in Ids : j # i /\ IsCopied(j) => IsCopied(j)'
  BY <1>1, <1>9 DEF IsCopied
<1>12. NewIndex'
  <2>1. NewIndex
    BY <1>1 DEF CopyInv
  <2>2. \A j \in Ids : docPtrCache'[j] # NoDoc => IsCopied(j)' /\ docPtrCache'[j] = CopyOf(j)'
    BY <1>1, <1>9, <1>11, <2>1 DEF NewIndex, IsCopied
  <2>3. \E j \in Ids : IsCopied(j)' /\ doc' = CopyOf(j)' /\ docPtrCache'[j] = NoDoc
    BY <1>1, <1>9, <1>10
  <2>4. promised' = [t \in Groups \X HashIds |-> Answer(t)']
    <3>1. \A t \in Groups \X HashIds : Answer(t)' = Answer(t)
      BY <1>1, <1>9 DEF Answer
    <3> QED
      BY <1>1, <2>1, <3>1 DEF NewIndex
  <2> QED
    BY <1>1, <2>1, <2>2, <2>3, <2>4 DEF NewIndex
<1> QED
  BY <1>1, <1>7, <1>8, <1>12 DEF CopyInv

-----------------------------------------------------------------------------
(* indexDocument runs for a copy, and the construction ends *)

\* It is given an ID the new index does not know: there is nothing to replace.
\* What it posts are keys of the copy or keys already posted.
LEMMA StepOfCopy ==
    ASSUME CopyInv, stage = "copying", CopyStep
    PROVE  /\ UNCHANGED <<docKeys, stage, source, promised>>
           /\ pc' \in {"idle", "index", "post", "rollback", "returned", "threw"}
           /\ docPtrCache' \in {docPtrCache, [docPtrCache EXCEPT ![IdOf[doc]] = doc]}
           /\ ~AtRest' => ~AtRest /\ doc' = doc /\ docPtrCache' = docPtrCache
           /\ AtRest => docPtrCache' = docPtrCache
           /\ posted' \intersect OwnKeys = {}
<1>1. NewIndex /\ Apart /\ IndInv
  BY DEF CopyInv
<1>2. UNCHANGED <<stage, source, promised>>
  BY DEF CopyStep, copyVars
<1>3. /\ pc \in {"idle", "index", "post", "rollback", "returned", "threw"}
      /\ posted \intersect OwnKeys = {}
  BY <1>1 DEF NewIndex
<1>4. pc = "post" => /\ doc \in Docs \ Originals /\ previous = NoDoc
                     /\ keys \subseteq docKeys[doc] /\ docKeys[doc] \intersect OwnKeys = {}
  <2> SUFFICES ASSUME pc = "post"
               PROVE  /\ doc \in Docs \ Originals /\ previous = NoDoc
                      /\ keys \subseteq docKeys[doc] /\ docKeys[doc] \intersect OwnKeys = {}
    OBVIOUS
  <2>1. PICK i \in Ids : IsCopied(i) /\ doc = CopyOf(i) /\ docPtrCache[i] = NoDoc
    BY <1>1 DEF NewIndex, AtRest
  <2>2. doc \in Docs \ Originals /\ IdOf[doc] = i
    BY <1>1, <2>1, CopiesDiffer DEF IsCopied
  <2>3. previous = docPtrCache[IdOf[doc]] /\ keys \subseteq docKeys[doc]
    BY <1>1 DEF IndInv, CallIsConsistent, Posting
  <2> QED
    BY <1>1, <2>1, <2>2, <2>3 DEF Apart
<1>5. CASE \/ PrepareIndex \/ IndexUnchanged \/ IndexThrows \/ CacheDocumentThrows
           \/ (pc = "returned" /\ Resume)
           \/ \E g \in Groups : PublishGroup(g) \/ PublishGroupThrows(g)
  BY <1>2, <1>3, <1>5
  DEF PrepareIndex, IndexUnchanged, IndexThrows, CacheDocumentThrows, Resume, PublishGroup,
      PublishGroupThrows, End, docVars, indexVars, callVars, AtRest
<1>6. ASSUME NEW k \in Keys, PutDocument(k)
      PROVE  /\ UNCHANGED <<docKeys, docPtrCache, doc>>
             /\ pc = "post" /\ pc' = "post" /\ posted' \intersect OwnKeys = {}
  <2>1. /\ UNCHANGED <<docKeys, docPtrCache, doc>> /\ pc = "post" /\ pc' = "post" /\ k \in keys
        /\ posted' = posted \union {CanonicalKey(k)}
    BY <1>6 DEF PutDocument, docVars
  <2>2. CanonicalKey(k) \in {k} \union posted
    BY <1>1, KeysAssumption DEF CanonicalKey, CachedKey, IndInv, CacheMatchesPostings
  <2> QED
    BY <1>3, <1>4, <2>1, <2>2
<1>7. ASSUME NEW k \in Keys, NEW at \in PutStages, PutDocumentThrows(k, at)
      PROVE  /\ UNCHANGED <<docKeys, docPtrCache, doc, posted>>
             /\ pc = "post" /\ pc' = "rollback"
  <2>1. UNCHANGED <<docVars, indexVars>>
    BY <1>1, <1>7, PutThrowsChangesNothing DEF IndInv
  <2> QED
    BY <1>7, <2>1 DEF PutDocumentThrows, docVars, indexVars, callVars
<1>8. CASE CacheDocument
  BY <1>2, <1>3, <1>4, <1>8 DEF CacheDocument, End, docVars, AtRest
<1>9. CASE Rollback
  BY <1>2, <1>3, <1>9 DEF Rollback, ErasePostings, End, docVars, AtRest
<1>10. ~ErasePrevious
  BY <1>3 DEF ErasePrevious
<1> QED
  BY <1>2, <1>3, <1>5, <1>6, <1>7, <1>8, <1>9, <1>10 DEF CopyStep, IndexStep, AtRest

LEMMA CopyStepKeepsCopyInv == CopyInv /\ CopyStep => CopyInv'
<1> SUFFICES ASSUME CopyInv, CopyStep
             PROVE  CopyInv'
  OBVIOUS
<1>1. stage = "copying" /\ NewIndex /\ Apart
  BY DEF CopyStep, CopyInv
<1>2. /\ UNCHANGED <<docKeys, stage, source, promised>>
      /\ pc' \in {"idle", "index", "post", "rollback", "returned", "threw"}
      /\ docPtrCache' \in {docPtrCache, [docPtrCache EXCEPT ![IdOf[doc]] = doc]}
      /\ ~AtRest' => ~AtRest /\ doc' = doc /\ docPtrCache' = docPtrCache
      /\ AtRest => docPtrCache' = docPtrCache
      /\ posted' \intersect OwnKeys = {}
  BY <1>1, StepOfCopy
<1>3. IndInv'
  BY NextKeepsIndInv DEF CopyStep, Next, CopyInv
<1>4. Apart'
  BY <1>1, <1>2 DEF Apart
<1>5. \A i \in Ids : CopyOf(i)' = CopyOf(i) /\ IsCopied(i)' = IsCopied(i)
  BY <1>2 DEF CopyOf, IsCopied, CopiedKeys
<1>6. \A i \in Ids : docPtrCache'[i] # NoDoc => IsCopied(i) /\ docPtrCache'[i] = CopyOf(i)
  <2>1. CASE docPtrCache' = docPtrCache
    BY <1>1, <2>1 DEF NewIndex
  <2>2. CASE ~AtRest /\ docPtrCache' = [docPtrCache EXCEPT ![IdOf[doc]] = doc]
    <3>1. PICK j \in Ids : IsCopied(j) /\ doc = CopyOf(j)
      BY <1>1, <2>2 DEF NewIndex
    <3>2. IdOf[doc] = j
      BY <1>1, <3>1, CopiesDiffer DEF IsCopied
    <3>3. docPtrCache \in [Ids -> Docs \union {NoDoc}]
      BY DEF CopyInv, IndInv, TypeOK
    <3>4. docPtrCache'[j] = doc /\ \A i \in Ids : i # j => docPtrCache'[i] = docPtrCache[i]
      BY <2>2, <3>2, <3>3
    <3> QED
      BY <1>1, <3>1, <3>4 DEF NewIndex
  <2> QED
    BY <1>2, <2>1, <2>2
<1>7. ~AtRest' => \E i \in Ids : IsCopied(i) /\ doc' = CopyOf(i) /\ docPtrCache'[i] = NoDoc
  BY <1>1, <1>2 DEF NewIndex
<1>8. promised' = [t \in Groups \X HashIds |-> Answer(t)']
  BY <1>1, <1>2 DEF NewIndex, Answer
<1>9. NewIndex'
  BY <1>2, <1>5, <1>6, <1>7, <1>8 DEF NewIndex
<1> QED
  BY <1>1, <1>2, <1>3, <1>4, <1>9 DEF CopyInv

LEMMA EndKeepsCopyInv == CopyInv /\ (CopyThrows \/ EndCopy \/ UNCHANGED allVars) => CopyInv'
<1> SUFFICES ASSUME CopyInv, CopyThrows \/ EndCopy \/ UNCHANGED allVars
             PROVE  CopyInv'
  OBVIOUS
<1>1. /\ UNCHANGED vars /\ UNCHANGED <<source, promised>>
      /\ \/ stage' = stage
         \/ stage = "copying" /\ stage' = "failed"
         \/ stage = "copying" /\ stage' = "copied" /\ pc = "idle" /\ Copied
  BY DEF CopyThrows, EndCopy, allVars, copyVars
<1>2. IndInv'
  BY <1>1, NextKeepsIndInv DEF CopyInv
<1>3. UNCHANGED <<docKeys, docPtrCache, posted, pc, doc>>
  BY <1>1 DEF vars, docVars, indexVars, callVars
<1>4. Apart'
  BY <1>1, <1>3 DEF CopyInv, Apart
<1>5. NewIndex => NewIndex'
  <2>1. \A i \in Ids : CopyOf(i)' = CopyOf(i) /\ IsCopied(i)' = IsCopied(i)
    BY <1>1, <1>3 DEF CopyOf, IsCopied, CopiedKeys
  <2>2. \A t \in Groups \X HashIds : Answer(t)' = Answer(t)
    BY <1>1, <1>3 DEF Answer
  <2> QED
    BY <1>1, <1>3, <2>1, <2>2 DEF NewIndex, AtRest
<1> QED
  BY <1>1, <1>2, <1>3, <1>4, <1>5 DEF CopyInv, Copied

THEOREM CopyInvInvariant == CopySpec => []CopyInv
<1>1. CopyInv /\ [CopyNext]_allVars => CopyInv'
  BY OriginalKeepsCopyInv, BeginKeepsCopyInv, CopyDocumentKeepsCopyInv, CopyStepKeepsCopyInv,
     EndKeepsCopyInv DEF CopyNext
<1> QED
  BY <1>1, InitCopyInv, PTL DEF CopySpec

-----------------------------------------------------------------------------
(* What follows from CopyInv *)

\* Between two steps of the construction the new index is one that answers
\* exactly, also when it is half built.
THEOREM CopyIsAnIndex == CopySpec => [](IndInv /\ AnswersAreExact)
<1>1. CopyInv => IndInv /\ AnswersAreExact
  BY IndInvMakesAnswersExact DEF CopyInv
<1> QED
  BY <1>1, CopyInvInvariant, PTL

\* The copy retains a copy of each document the original did, and answers each
\* lookup with the copies of what the original answered.
THEOREM CopyAlwaysAnswersAlike == CopySpec => []CopyAnswersAlike
<1>1. CopyInv => CopyAnswersAlike
  <2> SUFFICES ASSUME CopyInv, stage = "copied"
               PROVE  /\ \A i \in Ids :
                           docPtrCache[i] = IF source[i] = NoDoc THEN NoDoc ELSE DocCopy[source[i]]
                      /\ \A t \in Groups \X HashIds :
                           Lookup(t[1], t[2]) = {DocCopy[d] : d \in promised[t]}
    BY DEF CopyAnswersAlike
  <2>1. Apart /\ NewIndex /\ pc = "idle" /\ Copied /\ IndInv
    BY DEF CopyInv
  <2>2. \A i \in Ids : docPtrCache[i] = IF source[i] = NoDoc THEN NoDoc ELSE CopyOf(i)
    BY <2>1 DEF NewIndex, Copied, IsCopied
  <2>3. ASSUME NEW i \in Ids, source[i] # NoDoc
        PROVE  TermsOfKeys(docKeys[CopyOf(i)]) = TermsOfKeys(docKeys[source[i]])
    <3>1. IsCopied(i)
      BY <2>1, <2>3 DEF NewIndex, Copied
    <3>2. IdOf[source[i]] = i /\ docKeys[source[i]] \subseteq OwnKeys
      BY <2>1, <2>3, CopiesDiffer DEF Apart
    <3>3. docKeys[CopyOf(i)] = {KeyCopy[i, k] : k \in docKeys[source[i]]}
      BY <3>1, <3>2 DEF IsCopied, CopiedKeys
    <3> QED
      BY <3>2, <3>3, TermsOfCopies
  <2>4. ASSUME NEW g \in Groups, NEW h \in HashIds
        PROVE  Lookup(g, h) = {DocCopy[d] : d \in promised[<<g, h>>]}
    <3> DEFINE asked ==
            {i \in Ids : source[i] # NoDoc /\ <<g, h>> \in TermsOfKeys(docKeys[source[i]])}
    <3>1. Lookup(g, h) = {d \in Docs : Retained(d) /\ \E k \in GroupKeys(d, g) : HashOf[k] = h}
      BY <2>1, IndInvMakesAnswersExact DEF AnswersAreExact, AtRest
    <3>2. \A d \in Docs : (\E k \in GroupKeys(d, g) : HashOf[k] = h)
                            <=> <<g, h>> \in TermsOfKeys(docKeys[d])
      BY DEF GroupKeys, TermsOfKeys
    <3>3. promised[<<g, h>>] = {source[i] : i \in asked}
      BY <2>1 DEF NewIndex, Answer
    <3>4. ASSUME NEW d \in Docs, Retained(d), <<g, h>> \in TermsOfKeys(docKeys[d])
          PROVE  \E i \in asked : d = DocCopy[source[i]]
      <4>1. IdOf[d] \in Ids /\ docPtrCache[IdOf[d]] = d /\ d # NoDoc
        BY <3>4, DocsAssumption DEF Retained
      <4>2. source[IdOf[d]] # NoDoc /\ d = CopyOf(IdOf[d])
        BY <2>2, <4>1
      <4> QED
        BY <2>3, <3>4, <4>1, <4>2 DEF CopyOf
    <3>5. ASSUME NEW i \in asked
          PROVE  /\ DocCopy[source[i]] \in Docs /\ Retained(DocCopy[source[i]])
                 /\ <<g, h>> \in TermsOfKeys(docKeys[DocCopy[source[i]]])
      <4>1. CopyOf(i) \in Docs /\ IdOf[CopyOf(i)] = i /\ docPtrCache[i] = CopyOf(i)
        BY <2>1, <2>2, <3>5, CopiesDiffer
      <4> QED
        BY <2>3, <3>5, <4>1 DEF CopyOf, Retained
    <3> HIDE DEF asked
    <3>6. {DocCopy[d] : d \in promised[<<g, h>>]} = {DocCopy[source[i]] : i \in asked}
      BY <3>3
    <3> QED
      BY <3>1, <3>2, <3>4, <3>5, <3>6
  <2> QED
    BY <2>2, <2>4 DEF CopyOf
<1> QED
  BY <1>1, CopyInvInvariant, PTL

\* Whatever step the construction is at, the new index and its documents reach
\* no document or key object of the original.
THEOREM CopyNeverShares == CopySpec => []CopySharesNothing
<1>1. CopyInv => CopySharesNothing
  <2> SUFFICES ASSUME CopyInv, stage # "original"
               PROVE  /\ \A d \in Docs : Retained(d) =>
                           d \notin Originals /\ docKeys[d] \intersect OwnKeys = {}
                      /\ posted \intersect OwnKeys = {}
                      /\ \A k \in Keys : postings[k] \intersect Originals = {}
                      /\ \A g \in Groups, h \in HashIds : keyPtrCache[g][h] \notin OwnKeys
    BY DEF CopySharesNothing
  <2>1. Apart /\ NewIndex /\ IndInv
    BY DEF CopyInv
  <2>2. \A d \in Docs : Retained(d) => d \notin Originals
    <3> SUFFICES ASSUME NEW d \in Docs, Retained(d)
                 PROVE  d \notin Originals
      OBVIOUS
    <3>1. IdOf[d] \in Ids /\ docPtrCache[IdOf[d]] = d /\ d # NoDoc
      BY DocsAssumption DEF Retained
    <3> QED
      BY <2>1, <3>1, CopiesDiffer DEF NewIndex, IsCopied
  <2>3. ~AtRest => doc \notin Originals
    BY <2>1, CopiesDiffer DEF NewIndex, IsCopied
  <2>4. \A k \in Keys : postings[k] \intersect Originals = {}
    <3>1. \A k \in Keys : \A d \in postings[k] : d \in Docs /\ (Retained(d) \/ (Posting /\ d = doc))
      BY <2>1 DEF IndInv, TypeOK, NothingStale, NewIndex
    <3> QED
      BY <2>2, <2>3, <3>1 DEF Posting, AtRest
  <2>5. posted \intersect OwnKeys = {}
    BY <2>1 DEF NewIndex
  <2>6. \A g \in Groups, h \in HashIds : keyPtrCache[g][h] \notin OwnKeys
    <3>1. \A g \in Groups, h \in HashIds : keyPtrCache[g][h] \in posted \union {NoKey}
      BY <2>1 DEF IndInv, CacheMatchesPostings
    <3>2. NoKey \notin OwnKeys
      BY KeysAssumption, CopyAssumption
    <3> QED
      BY <2>5, <3>1, <3>2
  <2> QED
    BY <2>1, <2>2, <2>4, <2>5, <2>6 DEF Apart
<1> QED
  BY <1>1, CopyInvInvariant, PTL
=============================================================================
