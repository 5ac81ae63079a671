------------------------------- MODULE Indexer -------------------------------
(***************************************************************************)
(* yuca::Indexer and its ReverseIndex objects (src/yuca/indexer.cpp), with *)
(* the documents their owner edits (src/yuca/document.cpp).                *)
(*                                                                         *)
(* A call runs alone (the library has no threads), but every allocation in *)
(* it may throw.  A call is therefore a sequence of steps, cut where an    *)
(* allocation can fail; noexcept code is one step.  pc names the next one. *)
(*                                                                         *)
(* A document object is an element of Docs, a key object one of Keys: two  *)
(* elements may have the same ID, or the same group and hash, as two       *)
(* pointers to equal objects do.  Key::operator< and the key cache see     *)
(* only the hash of group + string.                                        *)
(***************************************************************************)
EXTENDS Integers, FiniteSets

CONSTANTS
    Docs,     \* document objects (SPDocument)
    Ids,      \* document IDs
    IdOf,     \* Document::id of each object
    Keys,     \* key objects (SPStringKey)
    Groups,   \* group names
    GroupOf,  \* Key::group of each object
    HashIds,  \* Key::id values, one per group and string without a collision
    HashOf,   \* Key::id of each object
    NoDoc,    \* a null SPDocument
    NoKey     \* a null SPKey

ASSUME DocsAssumption == NoDoc \notin Docs /\ IdOf \in [Docs -> Ids]
ASSUME KeysAssumption ==
    /\ NoKey \notin Keys
    /\ GroupOf \in [Keys -> Groups]
    /\ HashOf \in [Keys -> HashIds]

VARIABLES
    docKeys,         \* Document::group_2_keyset_map: every key it holds,
    docGroups,       \*   and its domain, the groups it names
    docPtrCache,     \* Indexer::docPtrCache
    reverseIndices,  \* the domain of Indexer::reverseIndices
    keyPtrCache,     \* ReverseIndex::keyPtrCache, per group and hash
    posted,          \* the keys of ReverseIndex::spkey_to_spdocset_map,
    postings,        \*   and the document set of each
    pc,              \* the step the running call is about to take
    doc,             \* its argument
    previous,        \* indexDocument: the document it replaces
    oldGroups,       \* indexDocument: old_groups that have a reverse index
    groups,          \* indexDocument: prepared groups not yet begun
    keys             \* indexDocument: keys of the begun group not yet posted

docVars == <<docKeys, docGroups>>
indexVars == <<docPtrCache, reverseIndices, keyPtrCache, posted, postings>>
callVars == <<doc, previous, oldGroups, groups, keys>>
vars == <<docVars, indexVars, pc, callVars>>

AtRest == pc \in {"idle", "returned", "threw"}

-----------------------------------------------------------------------------
(* Reading a document and an index *)

Retained(d) == docPtrCache[IdOf[d]] = d

\* Document::getGroupSPKeys
GroupKeys(d, g) == {k \in docKeys[d] : GroupOf[k] = g}

\* ReverseIndex::keyCacheGet, in the reverse index of the key's group
CachedKey(k) == keyPtrCache[GroupOf[k]][HashOf[k]]

\* Mutant: the missing key is not checked for.
CanonicalUnchecked(k) == CachedKey(k)

\* The key object that stands for k in its reverse index: the equivalent one
\* cached first, or k itself.
CanonicalKey(k) == IF CachedKey(k) = NoKey THEN k ELSE CachedKey(k)

\* Indexer::findDocuments for a key of group g and hash h: the reverse index
\* of an unknown group is a new, empty one, and a key without a cached
\* equivalent has no documents.
Lookup(g, h) ==
    LET key == keyPtrCache[g][h]
    IN IF g \in reverseIndices /\ key \in posted THEN postings[key] ELSE {}

-----------------------------------------------------------------------------
Init ==
    /\ docKeys = [d \in Docs |-> {}]
    /\ docGroups = [d \in Docs |-> {}]
    /\ docPtrCache = [i \in Ids |-> NoDoc]
    /\ reverseIndices = {}
    /\ keyPtrCache = [g \in Groups |-> [h \in HashIds |-> NoKey]]
    /\ posted = {}
    /\ postings = [k \in Keys |-> {}]
    /\ pc = "idle"
    /\ doc = NoDoc
    /\ previous = NoDoc
    /\ oldGroups = {}
    /\ groups = {}
    /\ keys = {}

-----------------------------------------------------------------------------
(* The owner edits a document between calls, never one the index retains:  *)
(* "remove the document before mutating its keys" (indexer.hpp).           *)

Editable(d) == pc = "idle" /\ ~Retained(d)

AddKey(d, k) ==
    /\ Editable(d)
    /\ docKeys' = [docKeys EXCEPT ![d] = @ \union {k}]
    /\ docGroups' = [docGroups EXCEPT ![d] = @ \union {GroupOf[k]}]
    /\ UNCHANGED <<indexVars, pc, callVars>>

\* An allocation fails after the new group's empty set is in the map: the
\* group stays, without a key.  An earlier failure changes nothing.
AddKeyThrows(d, k) ==
    /\ Editable(d)
    /\ GroupOf[k] \notin docGroups[d]
    /\ docGroups' = [docGroups EXCEPT ![d] = @ \union {GroupOf[k]}]
    /\ UNCHANGED <<docKeys, indexVars, pc, callVars>>

\* A key of another group leaves this group's set alone, but the check that
\* follows still drops the group when the set is empty.
RemoveKey(d, g, k) ==
    LET left == GroupKeys(d, g) \ {k} IN
    /\ Editable(d)
    /\ g \in docGroups[d]
    /\ docKeys' = [docKeys EXCEPT ![d] = @ \ (GroupKeys(d, g) \ left)]
    /\ docGroups' = [docGroups EXCEPT ![d] = IF left = {} THEN @ \ {g} ELSE @]
    /\ UNCHANGED <<indexVars, pc, callVars>>

\* The copy of the group name made to erase the emptied group throws.
RemoveKeyThrows(d, g, k) ==
    /\ Editable(d)
    /\ g \in docGroups[d]
    /\ GroupKeys(d, g) = {k}
    /\ docKeys' = [docKeys EXCEPT ![d] = @ \ {k}]
    /\ UNCHANGED <<docGroups, indexVars, pc, callVars>>

RemoveGroup(d, g) ==
    /\ Editable(d)
    /\ g \in docGroups[d]
    /\ docKeys' = [docKeys EXCEPT ![d] = @ \ GroupKeys(d, g)]
    /\ docGroups' = [docGroups EXCEPT ![d] = @ \ {g}]
    /\ UNCHANGED <<indexVars, pc, callVars>>

-----------------------------------------------------------------------------
(* Calls *)

Invoke(op, d) ==
    /\ pc = "idle"
    /\ pc' = op
    /\ doc' = d
    /\ UNCHANGED <<docVars, indexVars, previous, oldGroups, groups, keys>>

Resume ==
    /\ pc \in {"returned", "threw"}
    /\ pc' = "idle"
    /\ UNCHANGED <<docVars, indexVars, callVars>>

\* The call ends: its locals are gone.
End(how) ==
    /\ pc' = how
    /\ doc' = NoDoc
    /\ previous' = NoDoc
    /\ oldGroups' = {}
    /\ groups' = {}
    /\ keys' = {}

\* Mutant: the emptied reverse index stays published.
KeepEmptyIndex(g, kept) == FALSE

\* ReverseIndex::getKeyCount() == 0, with the posting lists kept
IsEmptyIndex(g, kept) == ~\E c \in kept : GroupOf[c] = g

\* Mutant: the key of an emptied posting list stays cached.
KeepCachedKey(g, h, emptied) == FALSE

\* ReverseIndex::keyCacheRemove for the keys of the emptied posting lists
UncachedKey(g, h, emptied) == \E c \in emptied : GroupOf[c] = g /\ HashOf[c] = h

\* erasePostings, with ReverseIndex::removeDocument for each key: noexcept.
\* G are the prepared groups that have a reverse index.
ErasePostings(G, d) ==
    LET touched == {CachedKey(k) : k \in {q \in docKeys[d] : GroupOf[q] \in G}}
                     \intersect posted
        emptied == {c \in touched : postings[c] \subseteq {d}}
        kept == posted \ emptied
        gone == {g \in G : IsEmptyIndex(g, kept)}
    IN /\ postings' = [c \in Keys |-> IF c \in touched THEN postings[c] \ {d}
                                      ELSE postings[c]]
       /\ posted' = kept
       /\ keyPtrCache' =
            [g \in Groups |-> [h \in HashIds |->
                IF g \in gone \/ UncachedKey(g, h, emptied)
                THEN NoKey ELSE keyPtrCache[g][h]]]
       /\ reverseIndices' = reverseIndices \ gone

-----------------------------------------------------------------------------
(* Indexer::indexDocument *)

\* A null document is rejected, a retained one is left alone, and otherwise
\* everything that can be allocated before the first change is.
PrepareIndex ==
    /\ pc = "index"
    /\ doc # NoDoc
    /\ ~Retained(doc)
    /\ pc' = "post"
    /\ previous' = docPtrCache[IdOf[doc]]
    /\ oldGroups' = IF previous' = NoDoc THEN {}
                    ELSE docGroups[previous'] \intersect reverseIndices
    /\ groups' = docGroups[doc]
    /\ UNCHANGED <<docVars, indexVars, doc, keys>>

\* Mutant: any document retained under the ID passes for this one.
SkipRetainedId ==
    /\ pc = "index"
    /\ doc # NoDoc
    /\ docPtrCache[IdOf[doc]] # NoDoc
    /\ End("returned")
    /\ UNCHANGED <<docVars, indexVars>>

IndexUnchanged ==
    /\ pc = "index"
    /\ doc # NoDoc
    /\ Retained(doc)
    /\ End("returned")
    /\ UNCHANGED <<docVars, indexVars>>

\* std::invalid_argument for a null document, or prepareGroups ran out of memory.
IndexThrows ==
    /\ pc = "index"
    /\ doc # NoDoc => ~Retained(doc)
    /\ End("threw")
    /\ UNCHANGED <<docVars, indexVars>>

\* The next prepared group: its reverse index is published if it is new.
PublishGroup(g) ==
    /\ pc = "post"
    /\ keys = {}
    /\ g \in groups
    /\ groups' = groups \ {g}
    /\ keys' = GroupKeys(doc, g)
    /\ reverseIndices' = reverseIndices \union {g}
    /\ UNCHANGED <<docVars, docPtrCache, keyPtrCache, posted, postings,
                   pc, doc, previous, oldGroups>>

PublishGroupThrows(g) ==
    /\ pc = "post"
    /\ keys = {}
    /\ g \in groups \ reverseIndices
    /\ pc' = "rollback"
    /\ UNCHANGED <<docVars, indexVars, callVars>>

\* ReverseIndex::putDocument: an equivalent key already cached stands for k.
PutDocument(k) ==
    LET cached == CanonicalKey(k) IN
    /\ pc = "post"
    /\ k \in keys
    /\ keyPtrCache' = [keyPtrCache EXCEPT ![GroupOf[k]][HashOf[k]] = cached]
    /\ posted' = posted \union {cached}
    /\ postings' = [postings EXCEPT ![cached] = @ \union {doc}]
    /\ keys' = keys \ {k}
    /\ UNCHANGED <<docVars, docPtrCache, reverseIndices,
                   pc, doc, previous, oldGroups, groups>>

\* Mutant: the rollback does not ask who created the posting list.
AnyPosting(key) == TRUE

IsNewPosting(key) == key \notin posted

\* The allocations of putDocument, in order.
PutStages == {"keyCachePut", "emplace", "add"}

\* One of them throws: the catch block undoes what this call inserted.
PutDocumentThrows(k, stage) ==
    LET newKey == CachedKey(k) = NoKey
        cached == CanonicalKey(k)
        newPosting == IsNewPosting(cached)
        atThrow == IF newPosting /\ stage = "add" THEN posted \union {cached} ELSE posted
        cacheAtThrow == IF newKey /\ stage # "keyCachePut"
                        THEN [keyPtrCache EXCEPT ![GroupOf[k]][HashOf[k]] = k]
                        ELSE keyPtrCache
    IN /\ pc = "post"
       /\ k \in keys
       /\ stage = "keyCachePut" => newKey
       /\ stage = "emplace" => newPosting
       /\ stage = "add" => doc \notin postings[cached]
       /\ posted' = IF newPosting THEN atThrow \ {cached} ELSE atThrow
       /\ keyPtrCache' = IF newKey
                         THEN [cacheAtThrow EXCEPT ![GroupOf[k]][HashOf[k]] = NoKey]
                         ELSE cacheAtThrow
       /\ pc' = "rollback"
       /\ UNCHANGED <<docVars, docPtrCache, reverseIndices, postings, callVars>>

\* docPtrCache.put: the document is retained under its ID.  A replacement has
\* the old postings still to erase.
CacheDocument ==
    /\ pc = "post"
    /\ groups = {}
    /\ keys = {}
    /\ docPtrCache' = [docPtrCache EXCEPT ![IdOf[doc]] = doc]
    /\ IF previous = NoDoc
       THEN End("returned")
       ELSE pc' = "replace" /\ UNCHANGED callVars
    /\ UNCHANGED <<docVars, reverseIndices, keyPtrCache, posted, postings>>

\* Only a new ID needs a new node.
CacheDocumentThrows ==
    /\ pc = "post"
    /\ groups = {}
    /\ keys = {}
    /\ docPtrCache[IdOf[doc]] = NoDoc
    /\ pc' = "rollback"
    /\ UNCHANGED <<docVars, indexVars, callVars>>

\* Mutant: nothing is rolled back.
SkipRollback ==
    /\ pc = "rollback"
    /\ End("threw")
    /\ UNCHANGED <<docVars, indexVars>>

Rollback ==
    /\ pc = "rollback"
    /\ ErasePostings(docGroups[doc], doc)
    /\ End("threw")
    /\ UNCHANGED <<docVars, docPtrCache>>

\* Mutant: the groups of the new document stand in for those of the old one.
EraseFromNewGroups ==
    /\ pc = "replace"
    /\ ErasePostings(docGroups[doc], previous)
    /\ End("returned")
    /\ UNCHANGED <<docVars, docPtrCache>>

ErasePrevious ==
    /\ pc = "replace"
    /\ ErasePostings(oldGroups, previous)
    /\ End("returned")
    /\ UNCHANGED <<docVars, docPtrCache>>

-----------------------------------------------------------------------------
(* Indexer::removeDocument: the argument only names an ID. *)

RemoveDocument ==
    /\ pc = "remove"
    /\ doc # NoDoc
    /\ LET cached == docPtrCache[IdOf[doc]] IN
       /\ cached # NoDoc
       /\ ErasePostings(docGroups[cached] \intersect reverseIndices, cached)
    /\ docPtrCache' = [docPtrCache EXCEPT ![IdOf[doc]] = NoDoc]
    /\ End("returned")
    /\ UNCHANGED docVars

RemoveUnknown ==
    /\ pc = "remove"
    /\ doc # NoDoc => docPtrCache[IdOf[doc]] = NoDoc
    /\ End("returned")
    /\ UNCHANGED <<docVars, indexVars>>

RemoveThrows ==
    /\ pc = "remove"
    /\ doc # NoDoc
    /\ docPtrCache[IdOf[doc]] # NoDoc
    /\ End("threw")
    /\ UNCHANGED <<docVars, indexVars>>

-----------------------------------------------------------------------------
(* Indexer::clear *)

Clear ==
    /\ pc = "clear"
    /\ docPtrCache' = [i \in Ids |-> NoDoc]
    /\ reverseIndices' = {}
    /\ keyPtrCache' = [g \in Groups |-> [h \in HashIds |-> NoKey]]
    /\ posted' = {}
    /\ postings' = [k \in Keys |-> {}]
    /\ End("returned")
    /\ UNCHANGED docVars

\* The copy of the group names throws.
ClearThrows ==
    /\ pc = "clear"
    /\ reverseIndices # {}
    /\ End("threw")
    /\ UNCHANGED <<docVars, indexVars>>

-----------------------------------------------------------------------------
EditDocument ==
    \E d \in Docs :
        \/ \E k \in Keys : AddKey(d, k) \/ AddKeyThrows(d, k)
        \/ \E g \in Groups, k \in Keys : RemoveKey(d, g, k) \/ RemoveKeyThrows(d, g, k)
        \/ \E g \in Groups : RemoveGroup(d, g)

InvokeAny ==
    \/ \E d \in Docs \union {NoDoc} : Invoke("index", d) \/ Invoke("remove", d)
    \/ Invoke("clear", NoDoc)

IndexStep ==
    \/ PrepareIndex
    \/ IndexUnchanged
    \/ IndexThrows
    \/ \E g \in Groups : PublishGroup(g) \/ PublishGroupThrows(g)
    \/ \E k \in Keys : PutDocument(k)
    \/ \E k \in Keys, stage \in PutStages : PutDocumentThrows(k, stage)
    \/ CacheDocument
    \/ CacheDocumentThrows
    \/ Rollback
    \/ ErasePrevious

RemoveStep == RemoveDocument \/ RemoveUnknown \/ RemoveThrows

ClearStep == Clear \/ ClearThrows

Next == EditDocument \/ InvokeAny \/ Resume \/ IndexStep \/ RemoveStep \/ ClearStep

Spec == Init /\ [][Next]_vars

-----------------------------------------------------------------------------
(* Properties *)

\* The state has its type.  (Kept as the base of the proofs.)
TypeOK ==
    /\ docKeys \in [Docs -> SUBSET Keys]
    /\ docGroups \in [Docs -> SUBSET Groups]
    /\ docPtrCache \in [Ids -> Docs \union {NoDoc}]
    /\ reverseIndices \subseteq Groups
    /\ keyPtrCache \in [Groups -> [HashIds -> Keys \union {NoKey}]]
    /\ posted \subseteq Keys
    /\ postings \in [Keys -> SUBSET Docs]
    /\ pc \in {"idle", "index", "remove", "clear", "post", "rollback", "replace",
               "returned", "threw"}
    /\ doc \in Docs \union {NoDoc}
    /\ previous \in Docs \union {NoDoc}
    /\ oldGroups \subseteq Groups
    /\ groups \subseteq Groups
    /\ keys \subseteq Keys

\* A lookup between calls returns exactly the retained documents that have a
\* key of that group and hash: no posting is lost or left behind by a
\* replacement, a removal or a rollback, whatever objects the caller passed.
AnswersAreExact ==
    AtRest => \A g \in Groups, h \in HashIds :
        Lookup(g, h) = {d \in Docs : Retained(d) /\ \E k \in GroupKeys(d, g) : HashOf[k] = h}

\* At every step, in the middle of a call and of a rollback too, a retained
\* document is found by each of its keys: indexDocument posts the new document
\* before it erases the one it replaces, and never the other way round.
RetainedIsFindable ==
    \A d \in Docs : Retained(d) => \A k \in docKeys[d] : d \in Lookup(GroupOf[k], HashOf[k])

\* The key cache and the posting map agree at every step: a cached key has a
\* posting list with a document in it, and a posting list belongs to the key
\* cached for its group and hash, in a published reverse index.
CacheMatchesPostings ==
    /\ \A g \in Groups, h \in HashIds :
        keyPtrCache[g][h] # NoKey =>
            /\ keyPtrCache[g][h] \in posted
            /\ GroupOf[keyPtrCache[g][h]] = g
            /\ HashOf[keyPtrCache[g][h]] = h
    /\ \A k \in Keys :
        /\ k \in posted => CachedKey(k) = k /\ GroupOf[k] \in reverseIndices
        /\ k \in posted <=> postings[k] # {}

\* A reverse index does not outlive the documents that name its group: a
\* removal, a replacement or a rollback that empties one also unpublishes it.
IndexHasOwner ==
    AtRest => \A g \in reverseIndices : \E d \in Docs : Retained(d) /\ g \in docGroups[d]

-----------------------------------------------------------------------------
(* The inductive invariant the proofs use: what the postings hold in the   *)
(* middle of a call.                                                       *)

Posting == pc \in {"post", "rollback"}

\* A document holds no key of a group it does not name.
KeysAreGrouped == \A d \in Docs : \A k \in docKeys[d] : GroupOf[k] \in docGroups[d]

CachedUnderItsId == \A i \in Ids : docPtrCache[i] # NoDoc => IdOf[docPtrCache[i]] = i

\* The locals of the running indexDocument.
CallIsConsistent ==
    /\ ~Posting => groups = {} /\ keys = {}
    /\ Posting =>
        /\ doc \in Docs
        /\ ~Retained(doc)
        /\ previous = docPtrCache[IdOf[doc]]
        /\ keys \subseteq {k \in docKeys[doc] : GroupOf[k] \in reverseIndices}
    /\ pc = "replace" =>
        /\ {doc, previous} \subseteq Docs
        /\ doc # previous
        /\ Retained(doc)
        /\ IdOf[previous] = IdOf[doc]
    /\ (Posting \/ pc = "replace") /\ (previous # NoDoc) =>
        \A k \in docKeys[previous] : GroupOf[k] \in oldGroups

IsPosted(d, k) == CachedKey(k) # NoKey /\ d \in postings[CachedKey(k)]

\* Nothing is in a posting list but the retained documents and those the
\* running call is adding or replacing, each under a key of its own.
NothingStale ==
    \A k \in Keys : \A d \in postings[k] :
        /\ \E q \in docKeys[d] : GroupOf[q] = GroupOf[k] /\ HashOf[q] = HashOf[k]
        /\ Retained(d) \/ (Posting /\ d = doc) \/ (pc = "replace" /\ d = previous)

\* Nothing is missing from them: neither a retained document nor the part of
\* the running indexDocument that is done.
NothingMissing ==
    /\ \A d \in Docs : Retained(d) => \A k \in docKeys[d] : IsPosted(d, k)
    /\ pc = "post" => \A k \in docKeys[doc] :
        GroupOf[k] \in groups \/ k \in keys \/ IsPosted(doc, k)

IndInv ==
    /\ TypeOK
    /\ CacheMatchesPostings
    /\ KeysAreGrouped
    /\ CachedUnderItsId
    /\ CallIsConsistent
    /\ NothingStale
    /\ NothingMissing

-----------------------------------------------------------------------------
(* Refinement: a call changes what clients see once, when it returns.      *)

\* The documents retained before the running call.
Before == IF pc = "replace" THEN [docPtrCache EXCEPT ![IdOf[doc]] = previous]
          ELSE docPtrCache

TermsOf == [d \in Docs |-> {<<GroupOf[k], HashOf[k]>> : k \in docKeys[d]}]

\* What a lookup returns: read from the postings between calls, and during a
\* call what the documents retained before it give.
AbstractAnswers ==
    [t \in Groups \X HashIds |->
        IF AtRest THEN Lookup(t[1], t[2])
        ELSE {d \in Docs : Before[IdOf[d]] = d /\ t \in TermsOf[d]}]

AbstractPhase == IF AtRest THEN pc ELSE "running"

AbstractCall ==
    IF AtRest THEN <<"none", NoDoc>>
    ELSE <<IF pc \in {"remove", "clear"} THEN pc ELSE "index", doc>>

Abstract == INSTANCE IndexSpec WITH
    Terms <- Groups \X HashIds,
    terms <- TermsOf,
    indexed <- Before,
    answers <- AbstractAnswers,
    phase <- AbstractPhase,
    call <- AbstractCall

\* Every call of the Indexer behaves as one atomic step of the abstract index,
\* or throws and leaves it as it was.
ImplementsIndexSpec == Abstract!Spec
=============================================================================
