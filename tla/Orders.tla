-------------------------------- MODULE Orders --------------------------------
(***************************************************************************)
(* The order in which std::sort leaves the elements of a sequence, and in  *)
(* which std::set and std::map are iterated.  What comes before what is a  *)
(* relation, a set of pairs, so that lemmas can speak of every order.      *)
(***************************************************************************)
EXTENDS Integers, FiniteSets

\* The elements of S, each once and none behind one that it comes before.
InOrder(S, before) ==
    CHOOSE seq \in [1..Cardinality(S) -> S] :
        \A i, j \in DOMAIN seq : i < j => seq[i] # seq[j] /\ <<seq[j], seq[i]>> \notin before

\* operator< of numbers.
Less(S) == {pair \in S \X S : pair[1] < pair[2]}

Ascending(S) == InOrder(S, Less(S))

-----------------------------------------------------------------------------
(* What a comparison has to be, and what comes before an element.          *)

IsStrictOrder(before, S) ==
    /\ \A a \in S : <<a, a>> \notin before
    /\ \A a, b, c \in S : <<a, b>> \in before /\ <<b, c>> \in before => <<a, c>> \in before
    /\ \A a, b \in S : a = b \/ <<a, b>> \in before \/ <<b, a>> \in before

Ahead(a, S, before) == {b \in S : <<b, a>> \in before}

\* How many elements come before a.
Rank(a, S, before) == Cardinality(Ahead(a, S, before))
=============================================================================
