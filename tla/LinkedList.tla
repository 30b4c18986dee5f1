----------------------------- MODULE LinkedList -----------------------------
(***************************************************************************)
(* The lists in which the program keeps its peers, servers, accept entries,*)
(* commands and messages (sd_linked_list.c).  The first item is part of the*)
(* list itself, every other one is allocated, and a list is empty when its *)
(* pointer to the last item is NULL.  A list is the pointer and the cells  *)
(* that are allocated, so that using a freed item is an error here too.    *)
(***************************************************************************)
EXTENDS Naturals, Sequences, FiniteSets, SequencesExt, FiniteSetsExt

NULL == 0
First == 1   \* the embedded item

\* linked_list_init; the values are pointers.
EmptyList == [top |-> NULL, cell |-> [a \in {First} |-> [value |-> NULL, next |-> NULL]]]

\* The k-th item from the front.
Nth(l) == LET nth[k \in Nat \ {0}] == IF k = 1 THEN First ELSE l.cell[nth[k - 1]].next
          IN  nth

\* linked_list_get_size: the last item is found by its address.
GetSize(l) ==
    IF l.top = NULL THEN 0
    ELSE Min({k \in 1 .. Cardinality(DOMAIN l.cell) : Nth(l)[k] = l.top})

Items(l) == [k \in 1 .. GetSize(l) |-> Nth(l)[k]]

\* linked_list_get_all_values
Values(l) == [k \in 1 .. GetSize(l) |-> l.cell[Nth(l)[k]].value]

\* Any address that is not in use; which one makes no difference.
Fresh(l) == CHOOSE a \in 2 .. Cardinality(DOMAIN l.cell) + 1 : a \notin DOMAIN l.cell

\* linked_list_add
Add(l, v) ==
    IF l.top = NULL
    THEN [top |-> First, cell |-> [l.cell EXCEPT ![First].value = v]]
    ELSE LET new == Fresh(l) IN
         [top |-> new,
          cell |-> [a \in DOMAIN l.cell \cup {new} |->
                      IF a = new THEN [value |-> v, next |-> NULL]
                      ELSE IF a = l.top THEN [l.cell[a] EXCEPT !.next = new]
                      ELSE l.cell[a]]]

Free(cell, item) == [a \in DOMAIN cell \ {item} |-> cell[a]]

\* Mutant of RemFirst: a list without items is not marked as empty.
RemFirstKeepingTop(l) ==
    LET second == l.cell[First].next IN
    IF l.top = First THEN [EmptyList EXCEPT !.top = First]
    ELSE [top |-> IF l.top = second THEN First ELSE l.top,
          cell |-> Free([l.cell EXCEPT ![First] = l.cell[second]], second)]

\* Mutant of RemFirst: the second item is unlinked but its value not taken over.
RemFirstKeepingValue(l) ==
    LET second == l.cell[First].next IN
    IF l.top = First THEN EmptyList
    ELSE [top |-> IF l.top = second THEN First ELSE l.top,
          cell |-> Free([l.cell EXCEPT ![First].next = l.cell[second].next], second)]

\* The embedded item cannot be freed: the second one moves into it.
RemFirst(l) ==
    LET second == l.cell[First].next IN
    IF l.top = First THEN EmptyList   \* its stale value is never read
    ELSE [top |-> IF l.top = second THEN First ELSE l.top,
          cell |-> Free([l.cell EXCEPT ![First] = l.cell[second]], second)]

RemOther(l, item) ==
    LET previous == CHOOSE a \in ToSet(Items(l)) : l.cell[a].next = item
    IN  [top |-> IF item = l.top THEN previous ELSE l.top,
         cell |-> Free([l.cell EXCEPT ![previous].next = l.cell[item].next], item)]

\* linked_list_rem, which returns -1 for what is not in the list.
Rem(l, item) ==
    IF item \notin ToSet(Items(l)) THEN l
    ELSE IF item = First THEN RemFirst(l)
    ELSE RemOther(l, item)

\* linked_list_iterate with a callback that stops at one of these values.
Iterate(l, values) ==
    LET hits == {k \in 1 .. GetSize(l) : Values(l)[k] \in values}
    IN  IF hits = {} THEN NULL ELSE Items(l)[Min(hits)]

\* linked_list_rem_all_entries removes the first item until there is none.
RemAllEntries(l) ==
    LET rest[k \in 0 .. GetSize(l)] == IF k = 0 THEN l ELSE Rem(rest[k - 1], First)
    IN  rest[GetSize(l)]

\* The loop of the functions that remove all items in some state: the first one
\* that iterating finds is removed until it finds none.
RemAll(l, values) ==
    LET rest[k \in 0 .. GetSize(l)] ==
            IF k = 0 THEN l ELSE Rem(rest[k - 1], Iterate(rest[k - 1], values))
    IN  rest[GetSize(l)]

-----------------------------------------------------------------------------
(* Properties.                                                             *)

\* What is allocated is what can be reached from the front.
Intact(l) == DOMAIN l.cell = {First} \cup ToSet(Items(l)) /\ IsInjective(Items(l))

\* Any item of l can be removed: the others keep their order, a later one is
\* added behind them, nothing is left allocated and nothing reachable is free.
Removable(l) ==
    \A k \in 1 .. GetSize(l) :
        LET rest == Rem(l, Items(l)[k])
            more == Add(rest, k)
        IN  /\ Intact(rest) /\ Values(rest) = RemoveAt(Values(l), k)
            /\ Intact(more) /\ Values(more) = Append(Values(rest), k)
=============================================================================
