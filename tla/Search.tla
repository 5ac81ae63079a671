------------------------------- MODULE Search -------------------------------
(***************************************************************************)
(* Indexer::search (src/yuca/indexer.cpp) over the index that module       *)
(* Indexer maintains.  A search is const and runs between two other calls, *)
(* so that it is an operator on the state, not an action.                  *)
(*                                                                         *)
(* A query is the sequence of its tokens: those that begin with a colon    *)
(* name groups, the others are keywords.  Of the Levenshtein distance only *)
(* its value for each document matters here.                               *)
(***************************************************************************)
EXTENDS Indexer, SequencesExt, Orders

CONSTANTS
    Words,          \* keywords
    WordHash,       \* Key::id of StringKey(keyword, group)
    ImplicitGroup,  \* Indexer::implicit_group
    Queries,        \* bound: the queries asked
    Distances,      \* bound: the distances of a property from the query
    NoDistance      \* the document has no such property, or it is empty

Query == Seq(Groups \union Words)

ASSUME SearchAssumption ==
    /\ Ids \subseteq Int /\ IsFiniteSet(Ids)
    /\ Words \intersect Groups = {}
    /\ WordHash \in [Groups \X Words -> HashIds]
    /\ ImplicitGroup \in Groups
    /\ Queries \subseteq Query
    /\ Distances \subseteq Nat
    /\ NoDistance \notin Nat

\* search without a comparison property
Undistanced == [d \in Docs |-> NoDistance]

-----------------------------------------------------------------------------
(* SearchRequest *)

\* Mutant: a group keeps only its last keyword.
LastKeyword(request, word) == [request EXCEPT !.keywords[request.group] = <<word>>]

\* A keyword joins those of the current group.
AddKeyword(request, word) ==
    [request EXCEPT !.keywords[request.group] = Append(@, word)]

TakeToken(request, token) ==
    IF token \in Groups THEN [request EXCEPT !.group = token] ELSE AddKeyword(request, token)

\* group_keywords_map: the keywords of each group, in the order of the query.
Request(query) ==
    LET Taken[n \in 0..Len(query)] ==
            IF n = 0 THEN [group |-> ImplicitGroup, keywords |-> [g \in Groups |-> <<>>]]
            ELSE TakeToken(Taken[n - 1], query[n])
    IN Taken[Len(query)].keywords

\* SearchRequest::getGroups: a group without keywords is not in the map.
RequestGroups(request) == {g \in Groups : request[g] # <<>>}

-----------------------------------------------------------------------------
(* Retrieval *)

\* findDocuments: the union over the keywords of one group.
FindDocuments(request, g) ==
    UNION {Lookup(g, WordHash[g, request[g][i]]) : i \in DOMAIN request[g]}

\* spDocs_appearances
Appearances(request, d) ==
    Cardinality({g \in RequestGroups(request) : d \in FindDocuments(request, g)})

\* Mutant: a document found in any of the groups passes.
FoundInOne(request, d) == Appearances(request, d) > 0

\* A document found in all of the groups.
FoundInAll(request, d) == Appearances(request, d) = Cardinality(RequestGroups(request))

\* The intersection over the groups, when there are several.
Intersected(request) ==
    LET found == {d \in Docs : Appearances(request, d) > 0}
    IN IF Cardinality(RequestGroups(request)) > 1
       THEN {d \in found : FoundInAll(request, d)}
       ELSE found

-----------------------------------------------------------------------------
(* Scores *)

\* StringKeySet::contains, on a copy of the document's own keys.
HasKeyword(d, g, word) == \E k \in GroupKeys(d, g) : HashOf[k] = WordHash[g, word]

\* The query keywords the document has: a repeated one counts repeatedly.
KeywordScore(request, d) ==
    Cardinality(UNION {{<<g, i>> : i \in {j \in DOMAIN request[g] :
                                            HasKeyword(d, g, request[g][j])}} :
                         g \in RequestGroups(request)})

\* Mutant: the bonus does not fall with the distance.
FlatBonus(distance) == <<IF distance = NoDistance THEN 0 ELSE 1, 1>>

\* What the distance adds, as numerator and denominator.
Bonus(distance) ==
    IF distance = NoDistance THEN <<0, 1>>
    ELSE IF distance = 0 THEN <<1, 1>> ELSE <<1, distance>>

\* SearchResult::score, as numerator and denominator.
Score(request, distance, d) ==
    LET bonus == Bonus(distance[d])
    IN <<KeywordScore(request, d) * bonus[2] + bonus[1], bonus[2]>>

\* Mutant: equal scores are not ordered.
ByScoreOnly(a, b, scoreA, scoreB) == scoreA[1] * scoreB[2] > scoreB[1] * scoreA[2]

\* SearchResultSortFunctor: by score, then by document ID.
RanksBefore(a, b, scoreA, scoreB) ==
    LET x == scoreA[1] * scoreB[2]
        y == scoreB[1] * scoreA[2]
    IN IF x # y THEN x > y ELSE IdOf[a] < IdOf[b]

\* Results with score zero are left out.
Results(request) == {d \in Intersected(request) : KeywordScore(request, d) > 0}

\* Indexer::search.  A limit below the number of results selects the best
\* ones (partial_sort, erase); otherwise all of them are sorted.
SearchResults(query, distance, limit) ==
    LET request == Request(query)
        results == Results(request)
        score == [d \in results |-> Score(request, distance, d)]
        before == {p \in results \X results :
                     RanksBefore(p[1], p[2], score[p[1]], score[p[2]])}
        best == {d \in results : Rank(d, results, before) < limit}
    IN InOrder(IF limit > 0 /\ limit < Cardinality(results) THEN best ELSE results, before)

-----------------------------------------------------------------------------
(* Properties *)

\* The group of the keyword at position i: the one the query named last.
GroupAt(query, i) ==
    LET named == {j \in 1..(i - 1) : query[j] \in Groups}
    IN IF named = {} THEN ImplicitGroup ELSE query[Max(named)]

KeywordPositions(query) == {i \in DOMAIN query : query[i] \in Words}

\* The keywords of the query that the document has, by position.
Hits(query, d) ==
    {i \in KeywordPositions(query) : HasKeyword(d, GroupAt(query, i), query[i])}

\* docs/manual.md: any keyword within a group, and every group that has one.
IsWanted(query, d) ==
    /\ Retained(d)
    /\ KeywordPositions(query) # {}
    /\ \A i \in KeywordPositions(query) :
         \E j \in Hits(query, d) : GroupAt(query, j) = GroupAt(query, i)

\* The same of a request: the retained documents with a keyword in each group.
ResultsAreWanted(request) ==
    Results(request) =
        {d \in Docs :
            /\ Retained(d)
            /\ RequestGroups(request) # {}
            /\ \A g \in RequestGroups(request) :
                 \E i \in DOMAIN request[g] : HasKeyword(d, g, request[g][i])}

\* Between calls, whatever was indexed, replaced, removed or rolled back, a
\* search returns every retained document its query describes, once, and no
\* other: postings, appearance counts and scores agree with the documents.
SearchIsExact ==
    AtRest => \A query \in Queries :
        LET found == SearchResults(query, Undistanced, 0)
        IN /\ ToSet(found) = {d \in Docs : IsWanted(query, d)}
           /\ Len(found) = Cardinality(ToSet(found))

\* Without a property a search is ordered by the number of the query's keywords
\* that a document has, wherever in the query they stand, and among documents
\* with equally many by document ID.
MoreHitsFirst ==
    AtRest => \A query \in Queries :
        LET found == SearchResults(query, Undistanced, 0)
            hits(i) == Cardinality(Hits(query, found[i]))
        IN \A i, j \in DOMAIN found : i < j =>
             \/ hits(i) > hits(j)
             \/ hits(i) = hits(j) /\ IdOf[found[i]] < IdOf[found[j]]

\* A limited search is the prefix of the unlimited one, ties and distances
\* included ("the corresponding prefix of the full ranking", docs/manual.md).
LimitIsPrefix ==
    AtRest => \A query \in Queries, distance \in [Docs -> Distances \union {NoDistance}] :
        LET all == SearchResults(query, distance, 0)
        IN \A limit \in 1..Cardinality(Ids) :
             SearchResults(query, distance, limit) =
                SubSeq(all, 1, IF limit < Len(all) THEN limit ELSE Len(all))

\* Of two documents with equally many hits the one whose property is closer
\* to the query is never ranked behind one at a distance of two or more.
CloserNotBehind ==
    AtRest => \A query \in Queries, distance \in [Docs -> Distances] :
        LET found == SearchResults(query, distance, 0)
            request == Request(query)
        IN \A i, j \in DOMAIN found :
             /\ KeywordScore(request, found[i]) = KeywordScore(request, found[j])
             /\ distance[found[i]] < distance[found[j]]
             /\ distance[found[j]] > 1
             => i < j

\* "sorted first by the number of key matches, but then sorted by the
\* levenshtein distance" (indexer.hpp).
MatchesSortFirst ==
    AtRest => \A query \in Queries, distance \in [Docs -> Distances \union {NoDistance}] :
        LET found == SearchResults(query, distance, 0)
            request == Request(query)
        IN \A i, j \in DOMAIN found :
             i < j => KeywordScore(request, found[i]) >= KeywordScore(request, found[j])
=============================================================================
