------------------------------ MODULE IndexSpec ------------------------------
(***************************************************************************)
(* What yuca promises of an index, without the postings, key caches and    *)
(* rollbacks that implement it: a set of retained documents, at most one   *)
(* per ID, and for every search term exactly the retained documents that   *)
(* carry it.  Each call takes effect at one instant or, when it throws,    *)
(* not at all (src/yuca/indexer.hpp: "Insert or replace by ID with         *)
(* rollback on allocation failure"; docs/manual.md: "the previous logical  *)
(* index remains intact").                                                 *)
(***************************************************************************)
CONSTANTS Docs, Ids, IdOf, Terms, NoDoc

VARIABLES
    terms,    \* the search terms of each document object
    indexed,  \* the document retained under each ID
    answers,  \* the documents a lookup of each term returns
    phase,    \* "idle", "running", or how the last call ended
    call      \* the running call and its argument

vars == <<terms, indexed, answers, phase, call>>

NoCall == <<"none", NoDoc>>

\* The one right answer: the retained documents that carry the term.
Matches(t, cache, docTerms) ==
    {d \in Docs : cache[IdOf[d]] = d /\ t \in docTerms[d]}

Exact(cache, docTerms) == [t \in Terms |-> Matches(t, cache, docTerms)]

TypeOK ==
    /\ terms \in [Docs -> SUBSET Terms]
    /\ indexed \in [Ids -> Docs \union {NoDoc}]
    /\ answers \in [Terms -> SUBSET Docs]
    /\ phase \in {"idle", "running", "returned", "threw"}
    /\ call \in {"none", "index", "remove", "clear"} \X (Docs \union {NoDoc})

Init ==
    /\ terms = [d \in Docs |-> {}]
    /\ indexed = [i \in Ids |-> NoDoc]
    /\ answers = [t \in Terms |-> {}]
    /\ phase = "idle"
    /\ call = NoCall

\* The owner edits a document the index does not retain.
Edit(d) ==
    /\ phase = "idle"
    /\ indexed[IdOf[d]] # d
    /\ \E T \in SUBSET Terms : terms' = [terms EXCEPT ![d] = T]
    /\ UNCHANGED <<indexed, answers, phase, call>>

Invoke(op, d) ==
    /\ phase = "idle"
    /\ phase' = "running"
    /\ call' = <<op, d>>
    /\ UNCHANGED <<terms, indexed, answers>>

\* The cache after a call that succeeds.
Outcome ==
    LET d == call[2] IN
    CASE call[1] = "index" -> [indexed EXCEPT ![IdOf[d]] = d]
      [] call[1] = "remove" /\ d # NoDoc -> [indexed EXCEPT ![IdOf[d]] = NoDoc]
      [] call[1] = "clear" -> [i \in Ids |-> NoDoc]
      [] OTHER -> indexed

Return ==
    /\ phase = "running"
    /\ call # <<"index", NoDoc>>
    /\ indexed' = Outcome
    /\ answers' = Exact(Outcome, terms)
    /\ phase' = "returned"
    /\ call' = NoCall
    /\ UNCHANGED terms

\* A call that throws leaves the index as it was.
Throw ==
    /\ phase = "running"
    /\ phase' = "threw"
    /\ call' = NoCall
    /\ UNCHANGED <<terms, indexed, answers>>

Resume ==
    /\ phase \in {"returned", "threw"}
    /\ phase' = "idle"
    /\ UNCHANGED <<terms, indexed, answers, call>>

Next ==
    \/ \E d \in Docs : Edit(d)
    \/ \E d \in Docs \union {NoDoc} : Invoke("index", d) \/ Invoke("remove", d)
    \/ Invoke("clear", NoDoc)
    \/ Return
    \/ Throw
    \/ Resume

Spec == Init /\ [][Next]_vars
=============================================================================
