------------------------------ MODULE IndexCopy ------------------------------
(***************************************************************************)
(* The copy constructor of yuca::Indexer (src/yuca/indexer.cpp), run on    *)
(* any index that module Indexer can make, between two calls.  It goes     *)
(* through indexDocument for a copy of each document, so that it can throw *)
(* wherever that can, with part of the copy built.                         *)
(*                                                                         *)
(* The variables of Indexer are the original's until the copy begins, and  *)
(* the new index's from then on: the original is const meanwhile.          *)
(***************************************************************************)
EXTENDS Indexer

CONSTANTS
    Originals,  \* document objects there are before the copy
    OwnKeys,    \* their key objects
    DocCopy,    \* the object make_shared<Document> makes of each
    KeyCopy     \* the object addKey(*key) makes, per document ID and key

ASSUME CopyAssumption ==
    /\ Originals \subseteq Docs
    /\ OwnKeys \subseteq Keys
    /\ DocCopy \in [Originals -> Docs \ Originals]
    /\ \A d \in Originals : IdOf[DocCopy[d]] = IdOf[d]
    /\ KeyCopy \in [Ids \X OwnKeys -> Keys \ OwnKeys]
    /\ \A i \in Ids, k \in OwnKeys :
         /\ GroupOf[KeyCopy[i, k]] = GroupOf[k]
         /\ HashOf[KeyCopy[i, k]] = HashOf[k]

VARIABLES
    stage,    \* whose the variables of Indexer are
    source,   \* docPtrCache of the original
    promised  \* history: what the original answers for each group and hash

copyVars == <<stage, source, promised>>
allVars == <<vars, copyVars>>

CopyInit ==
    /\ Init
    /\ stage = "original"
    /\ source = docPtrCache
    /\ promised = [t \in Groups \X HashIds |-> {}]

\* Calls and edits of the original, with objects of its own.
OriginalStep ==
    /\ stage = "original"
    /\ Next
    /\ \A d \in Originals : docKeys'[d] \subseteq OwnKeys
    /\ \A d \in Docs \ Originals : docKeys'[d] = {} /\ docGroups'[d] = {}
    /\ doc' \in Originals \union {NoDoc}
    /\ UNCHANGED copyVars

-----------------------------------------------------------------------------
(* Indexer(const Indexer &other) *)

\* Bound: a document outside of the index has no keys, as the copy does not
\* read them.
OnlyRetainedHaveKeys == \A d \in Originals : Retained(d) \/ docGroups[d] = {}

\* The new index is empty.
BeginCopy ==
    /\ stage = "original"
    /\ pc = "idle"
    /\ OnlyRetainedHaveKeys
    /\ stage' = "copying"
    /\ source' = docPtrCache
    /\ promised' = [t \in Groups \X HashIds |-> Lookup(t[1], t[2])]
    /\ docPtrCache' = [i \in Ids |-> NoDoc]
    /\ reverseIndices' = {}
    /\ keyPtrCache' = [g \in Groups |-> [h \in HashIds |-> NoKey]]
    /\ posted' = {}
    /\ postings' = [k \in Keys |-> {}]
    /\ UNCHANGED <<docVars, pc, callVars>>

\* Mutant: the keys of a copied document stay those of the original.
KeysShared(d) == docKeys[d]

\* Mutant: removeGroup has moved into the loop over the keys.
LastKeyOnly(d) ==
    {KeyCopy[IdOf[d], k] : k \in {CHOOSE q \in GroupKeys(d, g) : TRUE :
                                    g \in {GroupOf[q] : q \in docKeys[d]}}}

\* removeGroup, and addKey of a copy of each key.  A group without keys is
\* removed and not added again.
CopiedKeys(d) == {KeyCopy[IdOf[d], k] : k \in docKeys[d]}

\* A document of the original is copied, and handed to indexDocument.
CopyDocument(i) ==
    LET copy == DocCopy[source[i]] IN
    /\ stage = "copying"
    /\ pc = "idle"
    /\ source[i] # NoDoc
    /\ docPtrCache[i] = NoDoc
    /\ docKeys' = [docKeys EXCEPT ![copy] = CopiedKeys(source[i])]
    /\ docGroups' = [docGroups EXCEPT ![copy] = {GroupOf[k] : k \in CopiedKeys(source[i])}]
    /\ pc' = "index"
    /\ doc' = copy
    /\ UNCHANGED <<indexVars, previous, oldGroups, groups, keys, copyVars>>

\* indexDocument runs, and returns.
CopyStep ==
    /\ stage = "copying"
    /\ IndexStep \/ (pc = "returned" /\ Resume)
    /\ UNCHANGED copyVars

Copied == \A i \in Ids : source[i] # NoDoc => docPtrCache[i] # NoDoc

\* The loop throws while it copies a document, or because indexDocument did.
CopyThrows ==
    /\ stage = "copying"
    /\ (pc = "idle" /\ ~Copied) \/ pc = "threw"
    /\ stage' = "failed"
    /\ UNCHANGED <<vars, source, promised>>

EndCopy ==
    /\ stage = "copying"
    /\ pc = "idle"
    /\ Copied
    /\ stage' = "copied"
    /\ UNCHANGED <<vars, source, promised>>

CopyNext ==
    \/ OriginalStep
    \/ BeginCopy
    \/ \E i \in Ids : CopyDocument(i)
    \/ CopyStep
    \/ CopyThrows
    \/ EndCopy

CopySpec == CopyInit /\ [][CopyNext]_allVars

-----------------------------------------------------------------------------
(* Properties *)

\* The copy retains a copy of each document, and answers every lookup with the
\* copies of the documents the original answers it with, whatever calls,
\* replacements and failures made the original what it is.
CopyAnswersAlike ==
    stage = "copied" =>
        /\ \A i \in Ids :
             docPtrCache[i] = IF source[i] = NoDoc THEN NoDoc ELSE DocCopy[source[i]]
        /\ \A t \in Groups \X HashIds : Lookup(t[1], t[2]) = {DocCopy[d] : d \in promised[t]}

\* At no step of the construction does the new index, or a document in it,
\* reach a document or key object of the original: what the owner of either
\* does to it later cannot be seen in the other.
CopySharesNothing ==
    stage # "original" =>
        /\ \A d \in Docs : Retained(d) => d \notin Originals /\ docKeys[d] \intersect OwnKeys = {}
        /\ posted \intersect OwnKeys = {}
        /\ \A k \in Keys : postings[k] \intersect Originals = {}
        /\ \A g \in Groups, h \in HashIds : keyPtrCache[g][h] \notin OwnKeys
=============================================================================
