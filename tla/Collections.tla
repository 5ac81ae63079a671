----------------------------- MODULE Collections -----------------------------
(***************************************************************************)
(* utils::Set, List and Map (src/yuca/utils.hpp).  The loops of addAll,    *)
(* removeAll and putAll take one step per element, because the object they *)
(* read may be the one they change, and because any copy of an element may *)
(* throw between two steps.                                                *)
(***************************************************************************)
EXTENDS Integers, SequencesExt, Orders

CONSTANTS
    Objects,   \* collections
    Values,    \* elements, keys and values of a map
    MaxSize,   \* bound: the elements of a list
    ULongMax   \* the greatest unsigned long

ASSUME CollectionsAssumption ==
    /\ Values \subseteq Int
    /\ MaxSize \in Nat
    /\ ULongMax \in Nat /\ ULongMax > MaxSize

Kinds == {"set", "list", "map"}

VARIABLES
    kind,    \* the class of each object
    value,   \* what it contains: a set, a sequence, or a function on keys
    pc,      \* whether a loop runs, or how the last one ended
    op,      \* the loop's method
    on,      \* its object
    from,    \* its argument
    visited, \* the elements it has visited, in order
    result,  \* what it returned
    before   \* history: value when it was called; value, without a loop

loopVars == <<op, on, from, visited, result, before>>
vars == <<kind, value, pc, loopVars>>

Init ==
    /\ kind \in [Objects -> Kinds]
    /\ value = [o \in Objects |-> IF kind[o] = "set" THEN {} ELSE <<>>]
    /\ pc = "idle"
    /\ op = "none"
    /\ on \in Objects /\ from = on
    /\ visited = <<>>
    /\ result = FALSE
    /\ before = value

-----------------------------------------------------------------------------
(* Operations without a loop *)

Change(o, new) ==
    /\ pc # "loop"
    /\ value' = [value EXCEPT ![o] = new]
    /\ pc' = "idle"
    /\ op' = "none" /\ visited' = <<>> /\ result' = FALSE /\ before' = value'
    /\ UNCHANGED <<kind, on, from>>

\* Mutant: the last occurrence is found.
LastIndex(s, t) == LET found == {i \in DOMAIN s : s[i] = t} IN IF found = {} THEN 0 ELSE Max(found)

\* indexOf, counted from one, and zero if t is not in the list.
FirstIndex(s, t) == LET found == {i \in DOMAIN s : s[i] = t} IN IF found = {} THEN 0 ELSE Min(found)

\* List::remove
RemoveOne(s, t) == LET i == FirstIndex(s, t) IN IF i = 0 THEN s ELSE RemoveAt(s, i)

\* Map::put
Put(m, k, v) == [x \in DOMAIN m \union {k} |-> IF x = k THEN v ELSE m[x]]

Clear(o) == Change(o, IF kind[o] = "set" THEN {} ELSE <<>>)

SetAdd(o, t) == kind[o] = "set" /\ Change(o, value[o] \union {t})
SetRemove(o, t) == kind[o] = "set" /\ Change(o, value[o] \ {t})

ListRemove(o, t) == kind[o] = "list" /\ Change(o, RemoveOne(value[o], t))

\* add, and add at an index, which throws outside of the list.
ListAdd(o, index, t) ==
    /\ kind[o] = "list" /\ Len(value[o]) < MaxSize
    /\ index \in 0..Len(value[o])
    /\ Change(o, InsertAt(value[o], index + 1, t))

\* set(index, t), which throws outside of the list.
ListSet(o, index, t) ==
    /\ kind[o] = "list"
    /\ index \in 0..(Len(value[o]) - 1)
    /\ Change(o, [value[o] EXCEPT ![index + 1] = t])

ListRemoveAt(o, index) ==
    /\ kind[o] = "list"
    /\ index \in 0..(Len(value[o]) - 1)
    /\ Change(o, RemoveAt(value[o], index + 1))

\* List::addAll of a list, which is copied first if it is the list itself.
ListAddAll(o, other) ==
    /\ kind[o] = "list" /\ kind[other] = "list"
    /\ Len(value[o]) + Len(value[other]) <= MaxSize
    /\ Change(o, value[o] \o value[other])

MapPut(o, k, v) == kind[o] = "map" /\ Change(o, Put(value[o], k, v))
MapRemove(o, k) == kind[o] = "map" /\ Change(o, [x \in DOMAIN value[o] \ {k} |-> value[o][x]])

\* Mutant: the end is computed before it is clamped.
WrappedCount(s, start, length) ==
    LET end == (start + length) % (ULongMax + 1)
    IN (IF end < Len(s) THEN end ELSE Len(s)) - start

Count(s, start, length) == IF length < Len(s) - start THEN length ELSE Len(s) - start

\* List::subList
SubList(s, start, length) ==
    IF start >= Len(s) THEN <<>> ELSE SubSeq(s, start + 1, start + Count(s, start, length))

-----------------------------------------------------------------------------
(* Loops over the elements of another object, or of the same *)

\* The methods with a loop, and the classes of their object and argument.
Loops == {<<"Set::addAll", "set", "set">>, <<"Set::removeAll", "set", "set">>,
          <<"List::addAll", "list", "set">>, <<"List::removeAll", "list", "list">>,
          <<"Map::putAll", "map", "map">>}

RemoveAlls == {"Set::removeAll", "List::removeAll"}

\* Mutant: an object is its own argument like any other.
NoObject(method) == {}

\* removeAll of an object from itself only clears it.
Cleared(method) == IF method \in RemoveAlls THEN {on'} ELSE {}

\* What a loop over a set or map visits: its elements, or its entries, in order.
Entries(m) == LET order == Ascending(DOMAIN m) IN [i \in DOMAIN order |-> <<order[i], m[order[i]]>>]

ElementsOf(o, values) ==
    CASE kind[o] = "set" -> Ascending(values[o])
      [] kind[o] = "list" -> values[o]
      [] kind[o] = "map" -> Entries(values[o])

\* putAll visits a copy of the entries, the others what the argument holds now.
Argument == ElementsOf(from, IF op = "Map::putAll" THEN before ELSE value)

Begin(o, other) ==
    /\ pc # "loop"
    /\ \E loop \in Loops :
        /\ loop[2] = kind[o] /\ loop[3] = kind[other]
        /\ loop[1] = "List::addAll" => Len(value[o]) + Cardinality(value[other]) <= MaxSize
        /\ op' = loop[1]
    /\ on' = o
    /\ from' = other
    /\ before' = value
    /\ IF other \in Cleared(op')
       THEN /\ pc' = "returned"
            /\ value' = [value EXCEPT ![o] = IF kind[o] = "set" THEN {} ELSE <<>>]
            /\ visited' = ElementsOf(o, value)
            /\ result' = (visited' # <<>>)
       ELSE /\ pc' = "loop"
            /\ visited' = <<>>
            /\ result' = FALSE
            /\ UNCHANGED value
    /\ UNCHANGED kind

\* What one turn of the loop makes of the object.
After(method, old, x) ==
    CASE method = "Set::addAll" -> old \union {x}
      [] method = "Set::removeAll" -> old \ {x}
      [] method = "List::addAll" -> Append(old, x)
      [] method = "List::removeAll" -> RemoveOne(old, x)
      [] method = "Map::putAll" -> Put(old, x[1], x[2])

Visit ==
    /\ pc = "loop"
    /\ Len(visited) < Len(Argument)
    /\ LET x == Argument[Len(visited) + 1]
       IN /\ value' = [value EXCEPT ![on] = After(op, @, x)]
          /\ visited' = Append(visited, x)
    /\ UNCHANGED <<kind, pc, op, on, from, result, before>>

Return ==
    /\ pc = "loop"
    /\ Len(visited) >= Len(Argument)
    /\ pc' = "returned"
    /\ result' = (op = "List::removeAll" /\ Len(before[on]) > Len(value[on]))
    /\ UNCHANGED <<kind, value, op, on, from, visited, before>>

\* An element cannot be copied, or there is no memory for it.
Throw ==
    /\ pc = "loop"
    /\ Len(visited) < Len(Argument)
    /\ pc' = "threw"
    /\ UNCHANGED <<kind, value, loopVars>>

Next ==
    \/ \E o \in Objects :
        \/ Clear(o)
        \/ \E t \in Values : SetAdd(o, t) \/ SetRemove(o, t) \/ ListRemove(o, t) \/ MapRemove(o, t)
        \/ \E index \in 0..MaxSize : ListRemoveAt(o, index)
        \/ \E index \in 0..MaxSize, t \in Values : ListAdd(o, index, t) \/ ListSet(o, index, t)
        \/ \E k, v \in Values : MapPut(o, k, v)
        \/ \E other \in Objects : ListAddAll(o, other) \/ Begin(o, other)
    \/ Visit
    \/ Return
    \/ Throw

Spec == Init /\ [][Next]_vars

-----------------------------------------------------------------------------
(* Properties *)

HowMany(s, t) == Cardinality({i \in DOMAIN s : s[i] = t})

\* The positions of s that are left without the first HowMany(taken, t) places
\* of each t.
Kept(s, taken) ==
    {i \in DOMAIN s : Cardinality({j \in 1..i : s[j] = s[i]}) > HowMany(taken, s[i])}

\* What a method makes of old, given the sequence of the elements it was given.
Expected(method, old, given) ==
    CASE method = "Set::addAll" -> old \union ToSet(given)
      [] method = "Set::removeAll" -> old \ ToSet(given)
      [] method = "List::addAll" -> old \o given
      [] method = "List::removeAll" ->
            LET kept == Ascending(Kept(old, given)) IN [i \in DOMAIN kept |-> old[kept[i]]]
      [] method = "Map::putAll" ->
            LET new == ToSet(given)
            IN [k \in DOMAIN old \union {entry[1] : entry \in new} |->
                  IF \E v \in Values : <<k, v>> \in new
                  THEN CHOOSE v \in Values : <<k, v>> \in new ELSE old[k]]

\* No loop changes the object whose elements it is visiting, the case of an
\* object that is its own argument included: its iterators stay valid.
LoopLeavesArgument == pc = "loop" => ElementsOf(from, value) = ElementsOf(from, before)

\* addAll, removeAll and putAll have the effect they would have with a copy of
\* their argument, whichever object that is: all of it when they return, that
\* of its first elements when they throw.  No other object changes.
ActsOnACopy ==
    pc \in {"loop", "returned", "threw"} =>
        /\ IsPrefix(visited, ElementsOf(from, before))
        /\ pc = "returned" => visited = ElementsOf(from, before)
        /\ value[on] = Expected(op, before[on], visited)
        /\ \A o \in Objects \ {on} : value[o] = before[o]
        /\ pc = "returned" /\ op = "List::removeAll" =>
             result = (\E t \in ToSet(before[on]) : HowMany(before[from], t) > 0)

\* A sublist has exactly the elements from start on that a length of unbounded
\* integers would give, up to the greatest unsigned start and length.
SubListIsExact ==
    \A o \in Objects : kind[o] = "list" =>
        \A start, length \in 0..ULongMax :
            LET within == {i \in DOMAIN value[o] : start < i /\ i <= start + length}
                places == Ascending(within)
            IN SubList(value[o], start, length) = [i \in DOMAIN places |-> value[o][places[i]]]
=============================================================================
