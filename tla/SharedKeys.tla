------------------------------ MODULE SharedKeys ------------------------------
(***************************************************************************)
(* A ReverseIndex (src/yuca/indexer.cpp) whose key objects are written to  *)
(* by their owners.  A key has no setter, but an owner of its SPStringKey  *)
(* can assign another key to the object, and the manual allows it once the *)
(* document is removed.  Module Indexer takes keys to be immutable; here   *)
(* documents have one key each, of one group, and no call fails.           *)
(***************************************************************************)
EXTENDS FiniteSets

CONSTANTS
    Docs,     \* documents, of different IDs
    Keys,     \* key objects
    KeyOf,    \* the key object of each document
    HashIds,  \* Key::id values
    NoKey     \* a null SPKey, not in Keys

VARIABLES
    hashOf,       \* Key::id of each object
    retained,     \* the documents of Indexer::docPtrCache
    keyPtrCache,  \* ReverseIndex::keyPtrCache
    postings      \* spkey_to_spdocset_map; no list is empty

vars == <<hashOf, retained, keyPtrCache, postings>>

CachedKey(k) == keyPtrCache[hashOf[k]]

\* ReverseIndex::getDocuments of any key with this ID
Lookup(h) == IF keyPtrCache[h] = NoKey THEN {} ELSE postings[keyPtrCache[h]]

Init ==
    /\ hashOf \in [Keys -> HashIds]
    /\ retained = {}
    /\ keyPtrCache = [h \in HashIds |-> NoKey]
    /\ postings = [k \in Keys |-> {}]

\* indexDocument of a new document, with putDocument of its key.
IndexDocument(d) ==
    LET k == KeyOf[d]
        cached == IF CachedKey(k) = NoKey THEN k ELSE CachedKey(k)
    IN /\ d \notin retained
       /\ retained' = retained \union {d}
       /\ keyPtrCache' = [keyPtrCache EXCEPT ![hashOf[k]] = cached]
       /\ postings' = [postings EXCEPT ![cached] = @ \union {d}]
       /\ UNCHANGED hashOf

\* removeDocument of a retained document: an emptied list goes, and with it
\* the cache entry under the ID that the cached object has now.  The reverse
\* index is discarded with its last list.
RemoveDocument(d) ==
    LET cached == CachedKey(KeyOf[d])
        emptied == cached # NoKey /\ postings[cached] = {d}
    IN /\ d \in retained
       /\ retained' = retained \ {d}
       /\ postings' = [k \in Keys |-> IF k = cached THEN postings[k] \ {d} ELSE postings[k]]
       /\ keyPtrCache' = [h \in HashIds |->
            IF (emptied /\ h = hashOf[cached]) \/ \A k \in Keys : postings'[k] = {}
            THEN NoKey ELSE keyPtrCache[h]]
       /\ UNCHANGED hashOf

\* An owner assigns to a key object of documents that were removed, or not yet
\* indexed (external to the library).
ChangeKey(k, h) ==
    /\ \A d \in retained : KeyOf[d] # k
    /\ hashOf' = [hashOf EXCEPT ![k] = h]
    /\ UNCHANGED <<retained, keyPtrCache, postings>>

Next ==
    \/ \E d \in Docs : IndexDocument(d) \/ RemoveDocument(d)
    \/ \E k \in Keys, h \in HashIds : ChangeKey(k, h)

Spec == Init /\ [][Next]_vars

-----------------------------------------------------------------------------
\* "Remove the indexed document before mutating keys on a retained pointer.
\* Reindex only after removal and mutation.  Otherwise the document and posting
\* lists can disagree" (docs/manual.md): with owners that do so, a document in
\* the index is found by the key it has.
EditedIsFindable == \A d \in retained : d \in Lookup(hashOf[KeyOf[d]])
=============================================================================
