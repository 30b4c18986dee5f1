-------------------------- MODULE LinkedListProofs --------------------------
(***************************************************************************)
(* The operations of the linked list on lists of any length: each does to  *)
(* the cells what it should do to the sequence that they stand for.        *)
(***************************************************************************)
EXTENDS LinkedList, FiniteSetTheorems, SequenceTheorems, WellFoundedInduction, TLAPS

-----------------------------------------------------------------------------
(* Induction over the naturals, stated for sets.                           *)

\* A set of naturals has its minimum.
LEMMA MinIsIn ==
    ASSUME NEW S \in SUBSET Nat, S # {}
    PROVE  /\ Min(S) \in S
           /\ \A k \in S : Min(S) <= k
<1>1. PICK m \in S : \A k \in S : <<k, m>> \notin OpToRel(<, Nat)
  BY WFMin, NatLessThanWellFounded, Zenon
<1>2. \A k \in S : ~ (k < m)
  BY <1>1, Zenon DEF OpToRel
<1>3. \A k \in S : m <= k
  BY <1>2
<1> QED BY <1>3 DEF Min

\* A set of naturals that holds 0 and every successor holds them all.
LEMMA SetInduction ==
    ASSUME NEW S \in SUBSET Nat, 0 \in S, \A n \in S : n + 1 \in S
    PROVE  S = Nat
<1> SUFFICES ASSUME Nat \ S # {} PROVE FALSE
  OBVIOUS
<1> DEFINE m == Min(Nat \ S)
<1>1. m \in Nat \ S /\ \A k \in Nat \ S : m <= k
  BY MinIsIn
<1> HIDE DEF m
<1>2. m # 0 /\ m - 1 \in Nat
  BY <1>1
<1>3. m - 1 \in S
  BY <1>1, <1>2
<1> QED BY <1>1, <1>2, <1>3

-----------------------------------------------------------------------------
(* The walk along the list.                                                *)

\* The recursive definition of Nth has a solution: the walk exists.
LEMMA NthWalks ==
    ASSUME NEW l
    PROVE  \A k \in Nat \ {0} :
             Nth(l)[k] = IF k = 1 THEN First ELSE l.cell[Nth(l)[k - 1]].next
<1> DEFINE Begins(f, n) ==
             f = [k \in 1 .. n |-> IF k = 1 THEN First ELSE l.cell[f[k - 1]].next]
           Long == {n \in Nat : \E f : Begins(f, n)}
<1>1. Long = Nat
  <2>1. 0 \in Long
    <3>1. Begins([k \in 1 .. 0 |-> First], 0)
      OBVIOUS
    <3> QED BY <3>1
  <2>2. ASSUME NEW n \in Long PROVE n + 1 \in Long
    <3>1. PICK f : Begins(f, n)
      OBVIOUS
    <3> DEFINE g == [k \in 1 .. n + 1 |->
                       IF k <= n THEN f[k] ELSE IF k = 1 THEN First ELSE l.cell[f[n]].next]
    <3>2. ASSUME NEW k \in 1 .. n + 1
          PROVE  g[k] = IF k = 1 THEN First ELSE l.cell[g[k - 1]].next
      <4>1. CASE k <= n
        <5>1. k \in 1 .. n /\ g[k] = f[k] /\ (k # 1 => g[k - 1] = f[k - 1])
          BY <4>1
        <5>2. f[k] = IF k = 1 THEN First ELSE l.cell[f[k - 1]].next
          BY <3>1, <5>1
        <5> QED BY <5>1, <5>2
      <4>2. CASE k = n + 1
        <5>1. k # 1 => g[k - 1] = f[n]
          BY <4>2
        <5> QED BY <4>2, <5>1
      <4> QED BY <4>1, <4>2
    <3>3. Begins(g, n + 1)
      BY <3>2
    <3> HIDE DEF g, Begins
    <3> QED BY <3>3
  <2> HIDE DEF Long
  <2>3. Long \in SUBSET Nat
    BY DEF Long
  <2> QED BY <2>1, <2>2, <2>3, SetInduction
<1>2. ASSUME NEW m \in Nat, NEW n \in m .. m + 1, NEW f, NEW g, Begins(f, m), Begins(g, n)
      PROVE  \A k \in 1 .. m : f[k] = g[k]
  <2> DEFINE Agree == {k \in Nat : k \in 1 .. m => f[k] = g[k]}
  <2>1. 0 \in Agree
    OBVIOUS
  <2>2. ASSUME NEW k \in Agree PROVE k + 1 \in Agree
    <3> SUFFICES ASSUME k + 1 \in 1 .. m PROVE f[k + 1] = g[k + 1]
      OBVIOUS
    <3>1. k # 0 => f[k] = g[k]
      OBVIOUS
    <3>2. f[k + 1] = IF k + 1 = 1 THEN First ELSE l.cell[f[(k + 1) - 1]].next
      BY <1>2
    <3>3. g[k + 1] = IF k + 1 = 1 THEN First ELSE l.cell[g[(k + 1) - 1]].next
      BY <1>2
    <3>4. (k + 1) - 1 = k
      OBVIOUS
    <3> QED BY <3>1, <3>2, <3>3, <3>4
  <2> HIDE DEF Agree
  <2>3. Agree = Nat
    <3>1. Agree \in SUBSET Nat
      BY DEF Agree
    <3> QED BY <2>1, <2>2, <3>1, SetInduction
  <2> QED BY <2>3 DEF Agree
<1> DEFINE Start(n) == CHOOSE f : Begins(f, n)
           walk == [k \in Nat \ {0} |-> Start(k)[k]]
<1>3. \A n \in Nat : Begins(Start(n), n)
  BY <1>1
<1> HIDE DEF Start
<1>4. ASSUME NEW k \in Nat \ {0}
      PROVE  walk[k] = IF k = 1 THEN First ELSE l.cell[walk[k - 1]].next
  <2>1. walk[k] = IF k = 1 THEN First ELSE l.cell[Start(k)[k - 1]].next
    <3>1. Begins(Start(k), k)
      BY <1>3
    <3>2. k \in 1 .. k
      OBVIOUS
    <3> QED BY <3>1, <3>2
  <2>2. CASE k # 1
    <3>1. k - 1 \in Nat \ {0} /\ k \in (k - 1) .. (k - 1) + 1 /\ k - 1 \in 1 .. k - 1
      BY <2>2
    <3>2. Begins(Start(k - 1), k - 1) /\ Begins(Start(k), k)
      BY <1>3, <3>1
    <3> HIDE DEF Begins
    <3>3. Start(k - 1)[k - 1] = Start(k)[k - 1]
      BY <1>2, <3>1, <3>2
    <3> QED BY <2>1, <2>2, <3>1, <3>3
  <2> QED BY <2>1, <2>2
<1>5. walk = [k \in Nat \ {0} |-> IF k = 1 THEN First ELSE l.cell[walk[k - 1]].next]
  BY <1>4
<1> HIDE DEF walk
<1>6. Nth(l) = [k \in Nat \ {0} |-> IF k = 1 THEN First ELSE l.cell[Nth(l)[k - 1]].next]
  BY <1>5 DEF Nth
<1> QED BY <1>6

-----------------------------------------------------------------------------
(* What a list is.                                                         *)

\* A cell has these two fields and no other.
IsCell(r) == r = [value |-> r.value, next |-> r.next]

\* The n items of l are at the addresses s, in this order: the first is the
\* embedded one, each points to the next, the last is the top and points
\* nowhere, and nothing else is allocated.
Linked(l, n, s) ==
    /\ n \in Nat /\ s \in [1 .. n -> Nat \ {NULL}]
    /\ \A i, j \in 1 .. n : s[i] = s[j] => i = j
    /\ n = 0 => l.top = NULL /\ l.cell[First].next = NULL
    /\ n > 0 => s[1] = First /\ l.top = s[n] /\ l.cell[s[n]].next = NULL
    /\ \A i \in 1 .. n - 1 : l.cell[s[i]].next = s[i + 1]
    /\ DOMAIN l.cell = {First} \cup {s[i] : i \in 1 .. n}
    /\ l.cell = [a \in DOMAIN l.cell |-> l.cell[a]]
    /\ \A a \in DOMAIN l.cell : IsCell(l.cell[a])

LEMMA CellFields ==
    ASSUME NEW c, NEW x, NEW y, c = [value |-> x, next |-> y]
    PROVE  IsCell(c) /\ c.value = x /\ c.next = y
BY DEF IsCell

LEMMA EmptyLinked == Linked(EmptyList, 0, <<>>)
BY DEF Linked, EmptyList, IsCell, NULL, First

\* As many cells are allocated as there are items, but one for an empty list.
LEMMA CellCount ==
    ASSUME NEW l, NEW n, NEW s, Linked(l, n, s), n > 0
    PROVE  IsFiniteSet(DOMAIN l.cell) /\ Cardinality(DOMAIN l.cell) = n
<1>1. n \in Nat /\ s \in [1 .. n -> DOMAIN l.cell]
  BY DEF Linked
<1>2. DOMAIN l.cell = {s[i] : i \in 1 .. n}
  BY DEF Linked
<1>3. s \in Bijection(1 .. n, DOMAIN l.cell)
  BY <1>1, <1>2 DEF Linked, Bijection, Injection, Surjection, IsInjective
<1>4. ExistsBijection(1 .. n, DOMAIN l.cell)
  BY <1>3 DEF ExistsBijection
<1>5. IsFiniteSet(1 .. n) /\ Cardinality(1 .. n) = n
  BY <1>1, FS_Interval
<1> QED BY <1>4, <1>5, FS_Bijection

\* The walk visits the items in their order.
LEMMA WalkVisits ==
    ASSUME NEW l, NEW n, NEW s, Linked(l, n, s)
    PROVE  \A k \in 1 .. n : Nth(l)[k] = s[k]
<1> DEFINE Visited == {k \in Nat : k \in 1 .. n => Nth(l)[k] = s[k]}
<1>0. n \in Nat
  BY DEF Linked
<1>1. 0 \in Visited
  OBVIOUS
<1>2. ASSUME NEW k \in Visited PROVE k + 1 \in Visited
  <2> SUFFICES ASSUME k + 1 \in 1 .. n PROVE Nth(l)[k + 1] = s[k + 1]
    OBVIOUS
  <2>1. Nth(l)[k + 1] = IF k + 1 = 1 THEN First ELSE l.cell[Nth(l)[(k + 1) - 1]].next
    BY NthWalks
  <2>2. (k + 1) - 1 = k
    OBVIOUS
  <2>3. CASE k = 0
    BY <1>0, <2>1, <2>3 DEF Linked
  <2>4. CASE k # 0
    <3>1. k \in 1 .. n - 1 /\ Nth(l)[k] = s[k]
      BY <1>0, <2>4
    <3> QED BY <2>1, <2>2, <2>4, <3>1 DEF Linked
  <2> QED BY <2>3, <2>4
<1> HIDE DEF Visited
<1>3. Visited = Nat
  <2>1. Visited \in SUBSET Nat
    BY DEF Visited
  <2> QED BY <1>1, <1>2, <2>1, SetInduction
<1> QED BY <1>0, <1>3 DEF Visited

\* linked_list_get_size and linked_list_get_all_values return what is there.
LEMMA Unfolds ==
    ASSUME NEW l, NEW n, NEW s, Linked(l, n, s)
    PROVE  /\ GetSize(l) = n /\ Items(l) = s
           /\ Values(l) = [k \in 1 .. n |-> l.cell[s[k]].value]
           /\ ToSet(Items(l)) = {s[i] : i \in 1 .. n}
<1>0. n \in Nat /\ s \in [1 .. n -> Nat \ {NULL}]
  BY DEF Linked
<1>1. GetSize(l) = n
  <2>1. CASE n = 0
    BY <2>1 DEF Linked, GetSize
  <2>2. CASE n > 0
    <3> DEFINE ends == {k \in 1 .. Cardinality(DOMAIN l.cell) : Nth(l)[k] = l.top}
    <3>1. l.top = s[n] /\ l.top # NULL
      BY <1>0, <2>2 DEF Linked
    <3>2. Cardinality(DOMAIN l.cell) = n
      BY <2>2, CellCount
    <3>3. \A k \in 1 .. n : Nth(l)[k] = s[k]
      BY WalkVisits
    <3>4. ends = {n}
      <4>1. \A k \in 1 .. n : s[k] = s[n] => k = n
        BY <1>0, <2>2 DEF Linked
      <4>2. ends = {k \in 1 .. n : s[k] = s[n]}
        BY <3>1, <3>2, <3>3
      <4> QED BY <1>0, <2>2, <4>1, <4>2
    <3> HIDE DEF ends
    <3>5. Min(ends) = n
      BY <1>0, <3>4, MinIsIn
    <3> QED BY <3>1, <3>5 DEF GetSize, ends
  <2> QED BY <1>0, <2>1, <2>2
<1>2. Items(l) = s
  BY <1>0, <1>1, WalkVisits DEF Items
<1>3. Values(l) = [k \in 1 .. n |-> l.cell[s[k]].value]
  BY <1>1, WalkVisits DEF Values
<1>4. ToSet(Items(l)) = {s[i] : i \in 1 .. n}
  BY <1>0, <1>2 DEF ToSet
<1> QED BY <1>1, <1>2, <1>3, <1>4

-----------------------------------------------------------------------------
(* Adding an item.                                                         *)

\* There is always an address that is not in use.
LEMMA FreshIsFree ==
    ASSUME NEW l, NEW n, NEW s, Linked(l, n, s), n > 0
    PROVE  Fresh(l) \in Nat \ {NULL} /\ Fresh(l) \notin DOMAIN l.cell
<1>0. n \in Nat /\ First \in DOMAIN l.cell
  BY DEF Linked
<1>1. IsFiniteSet(DOMAIN l.cell) /\ Cardinality(DOMAIN l.cell) = n
  BY CellCount
<1>2. ~ (1 .. n + 1 \subseteq DOMAIN l.cell)
  <2>1. Cardinality(1 .. n + 1) = n + 1
    BY <1>0, FS_Interval
  <2> QED BY <1>0, <1>1, <2>1, FS_Subset
<1>3. \E a \in 2 .. Cardinality(DOMAIN l.cell) + 1 : a \notin DOMAIN l.cell
  BY <1>0, <1>1, <1>2 DEF First
<1> DEFINE unused == {a \in 2 .. Cardinality(DOMAIN l.cell) + 1 : a \notin DOMAIN l.cell}
<1>4. Fresh(l) \in unused
  BY <1>3 DEF Fresh
<1> QED BY <1>0, <1>1, <1>4 DEF NULL

\* linked_list_add puts a new item behind the others.
LEMMA AddLinked ==
    ASSUME NEW l, NEW n, NEW s, Linked(l, n, s), NEW v
    PROVE  /\ \E t : Linked(Add(l, v), n + 1, t)
           /\ GetSize(Add(l, v)) = n + 1
           /\ Values(Add(l, v)) = [k \in 1 .. n + 1 |-> IF k <= n THEN Values(l)[k] ELSE v]
<1> DEFINE m == Add(l, v)
           t == [k \in 1 .. n + 1 |-> IF k <= n THEN s[k] ELSE m.top]
<1>0. n \in Nat /\ s \in [1 .. n -> Nat \ {NULL}]
  BY DEF Linked
<1>1. /\ Linked(m, n + 1, t)
      /\ \A k \in 1 .. n + 1 :
            m.cell[t[k]].value = IF k <= n THEN l.cell[s[k]].value ELSE v
  <2>1. CASE n = 0
    <3>1. /\ l.top = NULL /\ DOMAIN l.cell = {First} /\ l.cell[First].next = NULL
          /\ IsCell(l.cell[First])
          /\ l.cell = [a \in DOMAIN l.cell |-> l.cell[a]]
      BY <1>0, <2>1 DEF Linked
    <3>2. m = [top |-> First, cell |-> [l.cell EXCEPT ![First].value = v]]
      BY <3>1 DEF Add
    <3>3. /\ m.top = First /\ m.cell = [a \in {First} |-> m.cell[a]]
          /\ m.cell[First] = [value |-> v, next |-> NULL]
      BY <3>1, <3>2 DEF IsCell
    <3>4. \A k \in 1 .. n + 1 : k = 1 /\ t[k] = First
      BY <2>1, <3>3
    <3>5. DOMAIN m.cell = {First} \cup {t[k] : k \in 1 .. n + 1}
      BY <2>1, <3>3, <3>4
    <3>6. IsCell(m.cell[First]) /\ m.cell[First].value = v /\ m.cell[First].next = NULL
      BY <3>3, CellFields
    <3> HIDE DEF m
    <3>7. t \in [1 .. n + 1 -> Nat \ {NULL}]
      BY <3>3, <2>1 DEF First, NULL
    <3> QED BY <1>0, <2>1, <3>3, <3>4, <3>5, <3>6, <3>7 DEF Linked
  <2>2. CASE n > 0
    <3> DEFINE new == Fresh(l)
    <3>1. new \in Nat \ {NULL} /\ new \notin DOMAIN l.cell
      BY <2>2, FreshIsFree
    <3>2. /\ l.top = s[n] /\ l.top \in DOMAIN l.cell /\ l.top # NULL
          /\ s[1] = First /\ DOMAIN l.cell = {s[i] : i \in 1 .. n}
      BY <1>0, <2>2 DEF Linked
    <3>3. /\ m.top = new
          /\ m.cell = [a \in DOMAIN l.cell \cup {new} |->
                         IF a = new THEN [value |-> v, next |-> NULL]
                         ELSE IF a = l.top THEN [l.cell[a] EXCEPT !.next = new]
                         ELSE l.cell[a]]
      BY <3>2 DEF Add
    <3> HIDE DEF new
    <3>4. /\ DOMAIN m.cell = DOMAIN l.cell \cup {new}
          /\ m.cell = [a \in DOMAIN m.cell |-> m.cell[a]]
          /\ m.cell[new] = [value |-> v, next |-> NULL]
          /\ \A a \in DOMAIN l.cell :
                m.cell[a] = IF a = l.top THEN [l.cell[a] EXCEPT !.next = new] ELSE l.cell[a]
      BY <3>1, <3>3
    <3> HIDE DEF m
    <3>5. ASSUME NEW a \in DOMAIN l.cell
          PROVE  /\ IsCell(m.cell[a])
                 /\ m.cell[a].value = l.cell[a].value
                 /\ m.cell[a].next = IF a = l.top THEN new ELSE l.cell[a].next
      <4>1. IsCell(l.cell[a])
        BY DEF Linked
      <4>2. CASE a = l.top
        <5>1. m.cell[a] = [value |-> l.cell[a].value, next |-> new]
          BY <3>4, <4>1, <4>2 DEF IsCell
        <5> QED BY <4>2, <5>1, CellFields
      <4>3. CASE a # l.top
        BY <3>4, <4>1, <4>3
      <4> QED BY <4>2, <4>3
    <3>6. /\ IsCell(m.cell[new]) /\ m.cell[new].value = v /\ m.cell[new].next = NULL
          /\ \A a \in DOMAIN m.cell : IsCell(m.cell[a])
      <4>1. IsCell(m.cell[new]) /\ m.cell[new].value = v /\ m.cell[new].next = NULL
        BY <3>4, CellFields
      <4> QED BY <3>4, <3>5, <4>1
    <3>7. /\ t \in [1 .. n + 1 -> Nat \ {NULL}]
          /\ \A i \in 1 .. n : t[i] = s[i] /\ t[i] \in DOMAIN l.cell
          /\ t[n + 1] = new
      BY <1>0, <3>1, <3>2, <3>3
    <3>8. \A i, j \in 1 .. n + 1 : t[i] = t[j] => i = j
      <4>1. \A i, j \in 1 .. n : s[i] = s[j] => i = j
        BY DEF Linked
      <4>2. \A i \in 1 .. n + 1 : i \in 1 .. n \/ i = n + 1
        BY <1>0
      <4> HIDE DEF t
      <4> QED BY <3>1, <3>7, <4>1, <4>2
    <3>9. \A i \in 1 .. n : m.cell[t[i]].next = t[i + 1]
      <4> SUFFICES ASSUME NEW i \in 1 .. n PROVE m.cell[s[i]].next = t[i + 1]
        BY <3>7
      <4>1. CASE i = n
        BY <3>2, <3>5, <3>6, <3>7, <4>1
      <4>2. CASE i # n
        <5>1. i \in 1 .. n - 1 /\ i + 1 \in 1 .. n
          BY <1>0, <4>2
        <5>2. s[i] # l.top /\ l.cell[s[i]].next = s[i + 1]
          BY <3>2, <4>2, <5>1, <1>0 DEF Linked
        <5> QED BY <3>5, <3>6, <3>7, <5>1, <5>2
      <4> QED BY <4>1, <4>2
    <3>10. DOMAIN m.cell = {First} \cup {t[i] : i \in 1 .. n + 1}
      <4>1. {t[i] : i \in 1 .. n + 1} = {s[i] : i \in 1 .. n} \cup {new}
        <5>1. \A i \in 1 .. n + 1 : i \in 1 .. n \/ i = n + 1
          BY <1>0
        <5>2. \A i \in 1 .. n : i \in 1 .. n + 1
          BY <1>0
        <5> HIDE DEF t
        <5> QED BY <1>0, <3>7, <5>1, <5>2
      <4> QED BY <3>2, <3>4, <4>1 DEF Linked
    <3>11. t[1] = First /\ m.top = t[n + 1] /\ m.cell[t[n + 1]].next = NULL
      BY <1>0, <2>2, <3>2, <3>3, <3>5, <3>7
    <3>12. Linked(m, n + 1, t)
      <4>1. n + 1 \in Nat /\ n + 1 # 0 /\ (n + 1) - 1 = n
        BY <1>0
      <4> HIDE DEF t
      <4> QED BY <3>6, <3>7, <3>8, <3>9, <3>10, <3>11, <3>4, <4>1 DEF Linked
    <3>13. \A k \in 1 .. n + 1 :
              m.cell[t[k]].value = IF k <= n THEN l.cell[s[k]].value ELSE v
      <4> SUFFICES ASSUME NEW k \in 1 .. n + 1
                   PROVE  m.cell[t[k]].value = IF k <= n THEN l.cell[s[k]].value ELSE v
        OBVIOUS
      <4> HIDE DEF t
      <4>1. CASE k = n + 1
        BY <1>0, <3>6, <3>7, <4>1
      <4>2. CASE k # n + 1
        <5>1. k \in 1 .. n
          BY <1>0, <4>2
        <5> QED BY <3>5, <3>7, <5>1
      <4> QED BY <4>1, <4>2
    <3> QED BY <3>12, <3>13
  <2> QED BY <1>0, <2>1, <2>2
<1> HIDE DEF m, t
<1>2. /\ GetSize(m) = n + 1
      /\ Values(m) = [k \in 1 .. n + 1 |-> m.cell[t[k]].value]
  BY <1>1, Unfolds
<1>3. Values(l) = [k \in 1 .. n |-> l.cell[s[k]].value]
  BY Unfolds
<1>4. \A k \in 1 .. n + 1 : k <= n => k \in 1 .. n
  BY <1>0
<1> QED BY <1>1, <1>2, <1>3, <1>4 DEF m

-----------------------------------------------------------------------------
(* Removing an item.                                                       *)

\* The first item of several: the second moves into it.
LEMMA RemFirstLinked ==
    ASSUME NEW l, NEW n, NEW s, Linked(l, n, s), n > 1
    PROVE  \E t : /\ Linked(RemFirst(l), n - 1, t)
                  /\ \A k \in 1 .. n - 1 :
                        RemFirst(l).cell[t[k]].value = l.cell[s[k + 1]].value
<1> DEFINE m == RemFirst(l)
           second == s[2]
           t == [k \in 1 .. n - 1 |-> IF k = 1 THEN First ELSE s[k + 1]]
<1>0. /\ n \in Nat /\ s \in [1 .. n -> Nat \ {NULL}]
      /\ \A i, j \in 1 .. n : s[i] = s[j] => i = j
  BY DEF Linked
<1>1. /\ s[1] = First /\ l.top = s[n] /\ l.cell[First].next = second
      /\ DOMAIN l.cell = {s[i] : i \in 1 .. n}
  BY <1>0 DEF Linked
<1>2. l.top # First /\ second # First /\ (l.top = second <=> n = 2)
  BY <1>0, <1>1
<1>3. m = [top |-> IF l.top = second THEN First ELSE l.top,
           cell |-> Free([l.cell EXCEPT ![First] = l.cell[second]], second)]
  BY <1>1, <1>2 DEF RemFirst
<1>4. /\ m.top = IF n = 2 THEN First ELSE s[n]
      /\ DOMAIN m.cell = DOMAIN l.cell \ {second}
      /\ m.cell = [a \in DOMAIN m.cell |-> m.cell[a]]
      /\ \A a \in DOMAIN m.cell : m.cell[a] = IF a = First THEN l.cell[second] ELSE l.cell[a]
  <2>1. l.cell = [a \in DOMAIN l.cell |-> l.cell[a]]
    BY DEF Linked
  <2>2. m.top = IF n = 2 THEN First ELSE s[n]
    BY <1>1, <1>2, <1>3
  <2>3. m.cell = [a \in DOMAIN l.cell \ {second} |->
                    IF a = First THEN l.cell[second] ELSE l.cell[a]]
    BY <1>1, <1>3, <2>1 DEF Free
  <2> QED BY <2>2, <2>3
<1> HIDE DEF m
<1>5. \A a \in DOMAIN m.cell : IsCell(m.cell[a])
  <2>1. second \in DOMAIN l.cell
    BY <1>0, <1>1
  <2> QED BY <1>4, <2>1 DEF Linked
<1>6. /\ t \in [1 .. n - 1 -> Nat \ {NULL}]
      /\ t[1] = First
      /\ \A k \in 2 .. n - 1 : t[k] = s[k + 1] /\ k + 1 \in 3 .. n
  BY <1>0 DEF First, NULL
<1> HIDE DEF t
<1>7. \A k \in 1 .. n - 1 : /\ m.cell[t[k]] = l.cell[s[k + 1]]
                            /\ t[k] \in DOMAIN m.cell
  <2> SUFFICES ASSUME NEW k \in 1 .. n - 1
               PROVE  m.cell[t[k]] = l.cell[s[k + 1]] /\ t[k] \in DOMAIN m.cell
    OBVIOUS
  <2>1. CASE k = 1
    <3>1. First \in DOMAIN m.cell
      BY <1>0, <1>1, <1>2, <1>4
    <3> QED BY <1>4, <1>6, <2>1, <3>1
  <2>2. CASE k # 1
    <3>1. t[k] = s[k + 1] /\ k + 1 \in 3 .. n
      BY <1>0, <1>6, <2>2
    <3>2. s[k + 1] # First /\ s[k + 1] # second /\ s[k + 1] \in DOMAIN l.cell
      BY <1>0, <1>1, <3>1
    <3> QED BY <1>4, <3>1, <3>2
  <2> QED BY <2>1, <2>2
<1>8. \A i, j \in 1 .. n - 1 : t[i] = t[j] => i = j
  <2>1. \A k \in 2 .. n - 1 : t[k] # First
    BY <1>0, <1>1, <1>6
  <2> SUFFICES ASSUME NEW i \in 1 .. n - 1, NEW j \in 1 .. n - 1, t[i] = t[j]
               PROVE  i = j
    OBVIOUS
  <2>2. CASE i = 1 \/ j = 1
    <3>1. \A k \in 1 .. n - 1 : k = 1 \/ k \in 2 .. n - 1
      BY <1>0
    <3> QED BY <1>6, <2>1, <2>2, <3>1
  <2>3. CASE i # 1 /\ j # 1
    <3>1. i \in 2 .. n - 1 /\ j \in 2 .. n - 1
      BY <1>0, <2>3
    <3>2. s[i + 1] = s[j + 1] /\ i + 1 \in 1 .. n /\ j + 1 \in 1 .. n
      BY <1>0, <1>6, <3>1
    <3>3. i + 1 = j + 1
      BY <1>0, <3>2
    <3> QED BY <3>1, <3>3
  <2> QED BY <2>2, <2>3
<1>9. \A k \in 1 .. (n - 1) - 1 : m.cell[t[k]].next = t[k + 1]
  <2> SUFFICES ASSUME NEW k \in 1 .. (n - 1) - 1 PROVE m.cell[t[k]].next = t[k + 1]
    OBVIOUS
  <2>1. k \in 1 .. n - 1 /\ k + 1 \in 2 .. n - 1 /\ k + 1 \in 1 .. n - 1
    BY <1>0
  <2>2. l.cell[s[k + 1]].next = s[(k + 1) + 1]
    BY <2>1 DEF Linked
  <2> QED BY <1>6, <1>7, <2>1, <2>2
<1>10. m.top = t[n - 1] /\ m.cell[t[n - 1]].next = NULL
  <2>1. n - 1 \in 1 .. n - 1 /\ (n - 1) + 1 = n
    BY <1>0
  <2>2. l.cell[s[n]].next = NULL
    BY <1>0 DEF Linked
  <2>3. m.top = t[n - 1]
    BY <1>0, <1>4, <1>6
  <2> QED BY <1>7, <2>1, <2>2, <2>3
<1>11. DOMAIN m.cell = {First} \cup {t[k] : k \in 1 .. n - 1}
  <2>1. ASSUME NEW i \in 1 .. n, s[i] # second PROVE s[i] \in {t[k] : k \in 1 .. n - 1}
    <3>1. i # 2 /\ 1 \in 1 .. n - 1
      BY <1>0, <2>1
    <3>2. CASE i = 1
      BY <1>1, <1>6, <3>1, <3>2
    <3>3. CASE i # 1
      <4>1. i - 1 \in 2 .. n - 1 /\ i - 1 \in 1 .. n - 1 /\ (i - 1) + 1 = i
        BY <1>0, <3>1, <3>3
      <4>2. s[i] = t[i - 1]
        BY <1>6, <4>1
      <4> QED BY <4>1, <4>2
    <3> QED BY <3>2, <3>3
  <2>2. DOMAIN m.cell \subseteq {t[k] : k \in 1 .. n - 1}
    BY <1>1, <1>4, <2>1
  <2>3. First \in DOMAIN m.cell
    BY <1>0, <1>1, <1>2, <1>4
  <2> QED BY <1>7, <2>2, <2>3
<1>12. Linked(m, n - 1, t)
  <2>1. n - 1 \in Nat /\ n - 1 # 0
    BY <1>0
  <2> QED BY <1>4, <1>5, <1>6, <1>8, <1>9, <1>10, <1>11, <2>1 DEF Linked
<1> QED BY <1>7, <1>12 DEF m

\* Any other item: the one before it takes over its pointer.
LEMMA RemOtherLinked ==
    ASSUME NEW l, NEW n, NEW s, Linked(l, n, s), NEW i \in 2 .. n
    PROVE  \E t : /\ Linked(RemOther(l, s[i]), n - 1, t)
                  /\ \A k \in 1 .. n - 1 :
                        RemOther(l, s[i]).cell[t[k]].value =
                           IF k < i THEN l.cell[s[k]].value ELSE l.cell[s[k + 1]].value
<1> DEFINE m == RemOther(l, s[i])
           t == [k \in 1 .. n - 1 |-> IF k < i THEN s[k] ELSE s[k + 1]]
           before == s[i - 1]
<1>0. /\ n \in Nat /\ s \in [1 .. n -> Nat \ {NULL}] /\ n > 1 /\ i \in 1 .. n
      /\ i - 1 \in 1 .. n /\ i - 1 \in 1 .. n - 1
      /\ \A j, k \in 1 .. n : s[j] = s[k] => j = k
  BY DEF Linked
<1>1. /\ s[1] = First /\ l.top = s[n] /\ l.cell[before].next = s[i]
      /\ DOMAIN l.cell = {s[k] : k \in 1 .. n}
      /\ \A k \in 1 .. n : l.cell[s[k]].next = IF k = n THEN NULL ELSE s[k + 1]
  <2>1. \A k \in 1 .. n : k = n \/ k \in 1 .. n - 1
    BY <1>0
  <2>2. \A k \in 1 .. n - 1 : l.cell[s[k]].next = s[k + 1]
    BY DEF Linked
  <2>3. s[1] = First /\ l.top = s[n] /\ l.cell[s[n]].next = NULL
    BY <1>0 DEF Linked
  <2>4. DOMAIN l.cell = {s[k] : k \in 1 .. n}
    BY <1>0, <2>3 DEF Linked
  <2>5. (i - 1) + 1 = i
    BY <1>0
  <2> QED BY <1>0, <2>1, <2>2, <2>3, <2>4, <2>5
<1>2. before = CHOOSE a \in ToSet(Items(l)) : l.cell[a].next = s[i]
  <2>1. ToSet(Items(l)) = {s[k] : k \in 1 .. n}
    BY Unfolds
  <2>2. \A k \in 1 .. n : l.cell[s[k]].next = s[i] => s[k] = before
    <3> SUFFICES ASSUME NEW k \in 1 .. n, l.cell[s[k]].next = s[i]
                 PROVE  k = i - 1
      OBVIOUS
    <3>1. k # n /\ s[k + 1] = s[i]
      BY <1>0, <1>1
    <3>2. k + 1 \in 1 .. n
      BY <1>0, <3>1
    <3>3. k + 1 = i
      BY <1>0, <3>1, <3>2
    <3> QED BY <1>0, <3>3
  <2>3. before \in ToSet(Items(l)) /\ l.cell[before].next = s[i]
    BY <1>0, <1>1, <2>1
  <2> QED BY <2>1, <2>2, <2>3
<1>3. m = [top |-> IF s[i] = l.top THEN before ELSE l.top,
           cell |-> Free([l.cell EXCEPT ![before].next = l.cell[s[i]].next], s[i])]
  BY <1>2 DEF RemOther
<1>4. /\ m.top = IF i = n THEN before ELSE s[n]
      /\ DOMAIN m.cell = DOMAIN l.cell \ {s[i]}
      /\ m.cell = [a \in DOMAIN m.cell |-> m.cell[a]]
      /\ \A a \in DOMAIN m.cell :
            m.cell[a] = IF a = before THEN [l.cell[a] EXCEPT !.next = l.cell[s[i]].next]
                        ELSE l.cell[a]
  <2>1. l.cell = [a \in DOMAIN l.cell |-> l.cell[a]]
    BY DEF Linked
  <2>2. m.top = IF i = n THEN before ELSE s[n]
    <3>1. s[i] = l.top <=> i = n
      BY <1>0, <1>1
    <3> QED BY <1>1, <1>3, <3>1
  <2>3. m.cell = [a \in DOMAIN l.cell \ {s[i]} |->
                    IF a = before THEN [l.cell[a] EXCEPT !.next = l.cell[s[i]].next]
                    ELSE l.cell[a]]
    <3>1. before \in DOMAIN l.cell
      BY <1>0, <1>1
    <3> QED BY <1>3, <2>1, <3>1 DEF Free
  <2> QED BY <2>2, <2>3
<1> HIDE DEF m
<1>5. ASSUME NEW k \in 1 .. n, k # i
      PROVE  /\ s[k] \in DOMAIN m.cell /\ IsCell(m.cell[s[k]])
             /\ m.cell[s[k]].value = l.cell[s[k]].value
             /\ m.cell[s[k]].next = l.cell[s[IF k = i - 1 THEN i ELSE k]].next
  <2>1. s[k] \in DOMAIN m.cell /\ IsCell(l.cell[s[k]])
    BY <1>0, <1>1, <1>4, <1>5 DEF Linked
  <2>2. CASE k = i - 1
    <3>1. m.cell[s[k]] = [value |-> l.cell[s[k]].value, next |-> l.cell[s[i]].next]
      BY <1>4, <2>1, <2>2 DEF IsCell
    <3> QED BY <2>1, <2>2, <3>1, CellFields
  <2>3. CASE k # i - 1
    <3>1. s[k] # before
      BY <1>0, <2>3
    <3> QED BY <1>4, <2>1, <2>3, <3>1
  <2> QED BY <2>2, <2>3
\* The place that item k of the shorter list had.
<1> DEFINE old == [k \in 1 .. n - 1 |-> IF k < i THEN k ELSE k + 1]
<1>6. \A k \in 1 .. n - 1 : old[k] \in 1 .. n /\ old[k] # i /\ t[k] = s[old[k]]
  BY <1>0
<1>7. \A k \in 1 .. n : k # i => \E j \in 1 .. n - 1 : old[j] = k
  <2> SUFFICES ASSUME NEW k \in 1 .. n, k # i PROVE \E j \in 1 .. n - 1 : old[j] = k
    OBVIOUS
  <2>1. CASE k < i
    <3>1. k \in 1 .. n - 1 /\ old[k] = k
      BY <1>0, <2>1
    <3> QED BY <3>1
  <2>2. CASE ~ (k < i)
    <3>1. k - 1 \in 1 .. n - 1 /\ old[k - 1] = k
      BY <1>0, <2>2
    <3> QED BY <3>1
  <2> QED BY <2>1, <2>2
<1>8. /\ old[1] = 1 /\ old[n - 1] = IF i = n THEN i - 1 ELSE n
      /\ \A k \in 1 .. n - 1, j \in 1 .. n - 1 : old[k] = old[j] => k = j
      /\ \A k \in 1 .. n - 2 :
            old[k + 1] = (IF old[k] = i - 1 THEN i ELSE old[k]) + 1
  <2>0. \A k \in 1 .. n - 1 : old[k] = IF k < i THEN k ELSE k + 1
    OBVIOUS
  <2>1. 1 \in 1 .. n - 1 /\ n - 1 \in 1 .. n - 1
        /\ \A k \in 1 .. n - 2 : k \in 1 .. n - 1 /\ k + 1 \in 1 .. n - 1
    BY <1>0
  <2> HIDE DEF old
  <2>2. old[1] = 1 /\ old[n - 1] = IF i = n THEN i - 1 ELSE n
    BY <1>0, <2>0, <2>1
  <2>3. \A k \in 1 .. n - 1, j \in 1 .. n - 1 : old[k] = old[j] => k = j
    BY <1>0, <2>0
  <2>4. ASSUME NEW k \in 1 .. n - 2
        PROVE  old[k + 1] = (IF old[k] = i - 1 THEN i ELSE old[k]) + 1
    <3>1. old[k] = IF k < i THEN k ELSE k + 1
      BY <2>0, <2>1
    <3>2. old[k + 1] = IF k + 1 < i THEN k + 1 ELSE (k + 1) + 1
      BY <2>0, <2>1
    <3> QED BY <1>0, <3>1, <3>2
  <2> QED BY <2>2, <2>3, <2>4
<1>9. t \in [1 .. n - 1 -> Nat \ {NULL}]
  BY <1>0
<1> HIDE DEF old, t
<1>10. \A j, k \in 1 .. n - 1 : t[j] = t[k] => j = k
  <2> SUFFICES ASSUME NEW j \in 1 .. n - 1, NEW k \in 1 .. n - 1, t[j] = t[k]
               PROVE  j = k
    OBVIOUS
  <2>1. s[old[j]] = s[old[k]] /\ old[j] \in 1 .. n /\ old[k] \in 1 .. n
    BY <1>6
  <2>2. old[j] = old[k]
    BY <1>0, <2>1
  <2> QED BY <1>8, <2>2
<1>11. \A k \in 1 .. (n - 1) - 1 : m.cell[t[k]].next = t[k + 1]
  <2>0. (n - 1) - 1 = n - 2
    BY <1>0
  <2> SUFFICES ASSUME NEW k \in 1 .. n - 2 PROVE m.cell[t[k]].next = t[k + 1]
    BY <2>0
  <2> DEFINE p == IF old[k] = i - 1 THEN i ELSE old[k]
  <2>1. k \in 1 .. n - 1 /\ k + 1 \in 1 .. n - 1
    BY <1>0
  <2>2. m.cell[t[k]].next = l.cell[s[p]].next
    BY <1>5, <1>6, <2>1
  <2>3. p + 1 = old[k + 1] /\ p \in 1 .. n /\ p # n
    <3>1. old[k] \in 1 .. n /\ old[k + 1] \in 1 .. n
      BY <1>6, <2>1
    <3>2. p \in 1 .. n
      BY <1>0, <3>1
    <3>3. p + 1 = old[k + 1]
      BY <1>8
    <3> HIDE DEF p
    <3> QED BY <1>0, <3>1, <3>2, <3>3
  <2>4. l.cell[s[p]].next = s[p + 1]
    BY <1>1, <2>3
  <2> QED BY <1>6, <2>1, <2>2, <2>3, <2>4
<1>12. m.top = t[n - 1] /\ m.cell[t[n - 1]].next = NULL /\ t[1] = First
  <2>1. n - 1 \in 1 .. n - 1 /\ 1 \in 1 .. n - 1
    BY <1>0
  <2>2. m.top = t[n - 1]
    BY <1>4, <1>6, <1>8, <2>1
  <2>3. (IF old[n - 1] = i - 1 THEN i ELSE old[n - 1]) = n
    BY <1>0, <1>8
  <2>4. m.cell[t[n - 1]].next = l.cell[s[n]].next
    BY <1>5, <1>6, <2>1, <2>3
  <2>5. l.cell[s[n]].next = NULL
    BY <1>0, <1>1
  <2> QED BY <1>1, <1>6, <1>8, <2>1, <2>2, <2>4, <2>5
<1>13. DOMAIN m.cell = {First} \cup {t[k] : k \in 1 .. n - 1}
  <2>1. 1 \in 1 .. n - 1
    BY <1>0
  <2>2. DOMAIN m.cell = {s[k] : k \in {j \in 1 .. n : j # i}}
    BY <1>0, <1>1, <1>4
  <2>3. {t[k] : k \in 1 .. n - 1} = {s[k] : k \in {j \in 1 .. n : j # i}}
    BY <1>6, <1>7
  <2> QED BY <1>12, <2>1, <2>2, <2>3
<1>14. \A a \in DOMAIN m.cell : IsCell(m.cell[a])
  BY <1>1, <1>4, <1>5
<1>15. Linked(m, n - 1, t)
  <2>1. n - 1 \in Nat /\ n - 1 # 0
    BY <1>0
  <2> QED BY <1>4, <1>9, <1>10, <1>11, <1>12, <1>13, <1>14, <2>1 DEF Linked
<1>16. \A k \in 1 .. n - 1 : m.cell[t[k]].value = l.cell[s[old[k]]].value
  BY <1>5, <1>6
<1>17. \A k \in 1 .. n - 1 : old[k] = IF k < i THEN k ELSE k + 1
  BY DEF old
<1>18. \A k \in 1 .. n - 1 :
          m.cell[t[k]].value = IF k < i THEN l.cell[s[k]].value ELSE l.cell[s[k + 1]].value
  BY <1>16, <1>17
<1> QED BY <1>15, <1>18 DEF m

\* linked_list_rem of an item in the list, whichever it is.
LEMMA RemLinked ==
    ASSUME NEW l, NEW n, NEW s, Linked(l, n, s), NEW i \in 1 .. n
    PROVE  /\ \E t : Linked(Rem(l, s[i]), n - 1, t)
           /\ GetSize(Rem(l, s[i])) = n - 1
           /\ Values(Rem(l, s[i])) =
                 [k \in 1 .. n - 1 |-> IF k < i THEN Values(l)[k] ELSE Values(l)[k + 1]]
<1> DEFINE m == Rem(l, s[i])
           kept(k) == IF k < i THEN s[k] ELSE s[k + 1]
<1>0. n \in Nat /\ n > 0 /\ \A j, k \in 1 .. n : s[j] = s[k] => j = k
  <2>1. n \in Nat /\ \A j, k \in 1 .. n : s[j] = s[k] => j = k
    BY DEF Linked
  <2> QED BY <2>1
<1>1. /\ s[1] = First /\ l.top = s[n]
      /\ ToSet(Items(l)) = {s[k] : k \in 1 .. n}
      /\ Values(l) = [k \in 1 .. n |-> l.cell[s[k]].value]
  <2>1. s[1] = First /\ l.top = s[n]
    BY <1>0 DEF Linked
  <2> QED BY <2>1, Unfolds
<1>2. m = IF i = 1 THEN RemFirst(l) ELSE RemOther(l, s[i])
  <2>1. s[i] \in ToSet(Items(l)) /\ (s[i] = First <=> i = 1)
    BY <1>0, <1>1
  <2> QED BY <2>1 DEF Rem
<1>3. \E t : /\ Linked(m, n - 1, t)
             /\ \A k \in 1 .. n - 1 : m.cell[t[k]].value = l.cell[kept(k)].value
  <2>1. CASE i = 1 /\ n = 1
    <3>1. m = EmptyList
      BY <1>1, <1>2, <2>1 DEF RemFirst
    <3>2. Linked(m, n - 1, <<>>)
      BY <2>1, <3>1, EmptyLinked
    <3> QED BY <2>1, <3>2
  <2>2. CASE i = 1 /\ n > 1
    <3>1. PICK t : /\ Linked(m, n - 1, t)
                   /\ \A k \in 1 .. n - 1 : m.cell[t[k]].value = l.cell[s[k + 1]].value
      BY <1>2, <2>2, RemFirstLinked
    <3>2. \A k \in 1 .. n - 1 : kept(k) = s[k + 1]
      BY <1>0, <2>2
    <3> QED BY <3>1, <3>2
  <2>3. CASE i # 1
    <3>1. i \in 2 .. n
      BY <1>0, <2>3
    <3>2. PICK t : /\ Linked(m, n - 1, t)
                   /\ \A k \in 1 .. n - 1 :
                         m.cell[t[k]].value =
                            IF k < i THEN l.cell[s[k]].value ELSE l.cell[s[k + 1]].value
      BY <1>2, <2>3, <3>1, RemOtherLinked
    <3>3. \A k \in 1 .. n - 1 : m.cell[t[k]].value = l.cell[kept(k)].value
      BY <3>2
    <3> QED BY <3>2, <3>3
  <2> QED BY <1>0, <2>1, <2>2, <2>3
<1>4. PICK t : /\ Linked(m, n - 1, t)
               /\ \A k \in 1 .. n - 1 : m.cell[t[k]].value = l.cell[kept(k)].value
  BY <1>3
<1> HIDE DEF m
<1>5. GetSize(m) = n - 1 /\ Values(m) = [k \in 1 .. n - 1 |-> m.cell[t[k]].value]
  BY <1>4, Unfolds
<1>6. \A k \in 1 .. n - 1 : k \in 1 .. n /\ k + 1 \in 1 .. n
  BY <1>0
<1>7. \A k \in 1 .. n - 1 :
         m.cell[t[k]].value = IF k < i THEN Values(l)[k] ELSE Values(l)[k + 1]
  BY <1>1, <1>4, <1>6
<1> QED BY <1>4, <1>5, <1>7 DEF m

-----------------------------------------------------------------------------
(* What users of a list rely on.                                           *)

IsList(l) == \E n, s : Linked(l, n, s)

\* The values and addresses of a list, and that Intact says of it.
LEMMA ListFacts ==
    ASSUME NEW l, IsList(l)
    PROVE  /\ Linked(l, GetSize(l), Items(l)) /\ Intact(l)
           /\ GetSize(l) \in Nat
           /\ GetSize(l) = 0 <=> l.top = NULL
           /\ DOMAIN Values(l) = 1 .. GetSize(l)
           /\ DOMAIN Items(l) = 1 .. GetSize(l)
           /\ NULL \notin ToSet(Items(l))
           /\ Values(l) = [k \in 1 .. GetSize(l) |-> l.cell[Items(l)[k]].value]
<1>1. PICK n, s : Linked(l, n, s)
  BY DEF IsList
<1>2. /\ GetSize(l) = n /\ Items(l) = s
      /\ Values(l) = [k \in 1 .. n |-> l.cell[s[k]].value]
      /\ ToSet(Items(l)) = {s[i] : i \in 1 .. n}
  BY <1>1, Unfolds
<1>3. n \in Nat /\ s \in [1 .. n -> Nat \ {NULL}]
  BY <1>1 DEF Linked
<1>4. Intact(l)
  <2>1. DOMAIN l.cell = {First} \cup ToSet(Items(l))
    BY <1>1, <1>2 DEF Linked
  <2>2. IsInjective(Items(l))
    BY <1>1, <1>2, <1>3 DEF Linked, IsInjective
  <2> QED BY <2>1, <2>2 DEF Intact
<1>5. n = 0 <=> l.top = NULL
  BY <1>1, <1>3 DEF Linked
<1> QED BY <1>1, <1>2, <1>3, <1>4, <1>5

LEMMA EmptyIsList == IsList(EmptyList) /\ GetSize(EmptyList) = 0 /\ Values(EmptyList) = <<>>
<1>1. GetSize(EmptyList) = 0 /\ Values(EmptyList) = [k \in 1 .. 0 |-> EmptyList.cell[<<>>[k]].value]
  BY EmptyLinked, Unfolds
<1>2. Values(EmptyList) = <<>>
  BY <1>1
<1> QED BY <1>1, <1>2, EmptyLinked DEF IsList

LEMMA AddIsList ==
    ASSUME NEW l, IsList(l), NEW v
    PROVE  /\ IsList(Add(l, v)) /\ GetSize(Add(l, v)) = GetSize(l) + 1
           /\ Values(Add(l, v)) = [k \in 1 .. GetSize(l) + 1 |-> Values(Add(l, v))[k]]
           /\ \A k \in 1 .. GetSize(l) + 1 :
                 Values(Add(l, v))[k] = IF k <= GetSize(l) THEN Values(l)[k] ELSE v
<1>1. Linked(l, GetSize(l), Items(l))
  BY ListFacts
<1> DEFINE m == Add(l, v)
<1>2. /\ \E t : Linked(m, GetSize(l) + 1, t)
      /\ GetSize(m) = GetSize(l) + 1
      /\ Values(m) = [k \in 1 .. GetSize(l) + 1 |-> IF k <= GetSize(l) THEN Values(l)[k] ELSE v]
  BY <1>1, AddLinked
<1> HIDE DEF m
<1>3. /\ Values(m) = [k \in 1 .. GetSize(l) + 1 |-> Values(m)[k]]
      /\ \A k \in 1 .. GetSize(l) + 1 :
            Values(m)[k] = IF k <= GetSize(l) THEN Values(l)[k] ELSE v
  BY <1>2
<1> QED BY <1>2, <1>3 DEF IsList, m

LEMMA RemIsList ==
    ASSUME NEW l, IsList(l), NEW i \in 1 .. GetSize(l)
    PROVE  /\ IsList(Rem(l, Items(l)[i])) /\ GetSize(Rem(l, Items(l)[i])) = GetSize(l) - 1
           /\ Values(Rem(l, Items(l)[i])) =
                 [k \in 1 .. GetSize(l) - 1 |->
                    IF k < i THEN Values(l)[k] ELSE Values(l)[k + 1]]
<1>1. Linked(l, GetSize(l), Items(l))
  BY ListFacts
<1> QED BY <1>1, RemLinked DEF IsList

\* linked_list_rem refuses what is not in the list.
LEMMA RemNothing ==
    ASSUME NEW l, IsList(l)
    PROVE  Rem(l, NULL) = l
BY ListFacts DEF Rem

\* linked_list_iterate finds the first item with one of the values, or none.
LEMMA IterateFinds ==
    ASSUME NEW l, IsList(l), NEW values
    PROVE  \/ /\ Iterate(l, values) = NULL
              /\ \A k \in 1 .. GetSize(l) : Values(l)[k] \notin values
           \/ \E i \in 1 .. GetSize(l) :
                 /\ Iterate(l, values) = Items(l)[i] /\ Iterate(l, values) # NULL
                 /\ Values(l)[i] \in values
                 /\ l.cell[Iterate(l, values)].value = Values(l)[i]
                 /\ \A k \in 1 .. i - 1 : Values(l)[k] \notin values
<1> DEFINE hits == {k \in 1 .. GetSize(l) : Values(l)[k] \in values}
<1>0. /\ GetSize(l) \in Nat
      /\ Values(l) = [k \in 1 .. GetSize(l) |-> l.cell[Items(l)[k]].value]
      /\ DOMAIN Items(l) = 1 .. GetSize(l)
      /\ NULL \notin ToSet(Items(l))
  BY ListFacts
<1>1. CASE hits = {}
  BY <1>1 DEF Iterate
<1>2. CASE hits # {}
  <2>1. Iterate(l, values) = Items(l)[Min(hits)]
    BY <1>2 DEF Iterate
  <2> DEFINE i == Min(hits)
  <2>2. hits \in SUBSET Nat
    OBVIOUS
  <2>3. i \in hits /\ \A k \in hits : i <= k
    BY <1>2, <2>2, MinIsIn
  <2> HIDE DEF i
  <2>4. \A k \in 1 .. i - 1 : k \notin hits
    BY <2>2, <2>3
  <2>5. i \in 1 .. GetSize(l) /\ \A k \in 1 .. i - 1 : k \in 1 .. GetSize(l)
    BY <1>0, <2>3
  <2>6. Items(l)[i] # NULL
    BY <1>0, <2>5 DEF ToSet
  <2> QED BY <1>0, <2>1, <2>3, <2>4, <2>5, <2>6 DEF i
<1> QED BY <1>1, <1>2

-----------------------------------------------------------------------------
(* Removing many items.                                                    *)

\* Wherever a and b occur in v, a comes before b.
Before(v, a, b) == \A j, k \in DOMAIN v : v[j] = a /\ v[k] = b => j < k

\* What becomes of a list in which no value occurs twice when an item is removed.
LEMMA RemValues ==
    ASSUME NEW l, IsList(l), NEW i \in 1 .. GetSize(l), IsInjective(Values(l))
    PROVE  LET m == Rem(l, Items(l)[i]) IN
           /\ IsInjective(Values(m))
           /\ ToSet(Values(m)) = ToSet(Values(l)) \ {Values(l)[i]}
           /\ \A a, b : Before(Values(l), a, b) => Before(Values(m), a, b)
<1> DEFINE m == Rem(l, Items(l)[i])
           n == GetSize(l)
<1>1. /\ n \in Nat /\ DOMAIN Values(l) = 1 .. n
      /\ Values(m) = [k \in 1 .. n - 1 |-> IF k < i THEN Values(l)[k] ELSE Values(l)[k + 1]]
  BY ListFacts, RemIsList
<1> HIDE DEF m, n
<1>2. \A j, k \in 1 .. n : Values(l)[j] = Values(l)[k] => j = k
  BY <1>1 DEF IsInjective
<1>3. i \in 1 .. n
  BY DEF n
<1> DEFINE old(k) == IF k < i THEN k ELSE k + 1
<1>4. \A k \in 1 .. n - 1 : old(k) \in 1 .. n /\ old(k) # i /\ Values(m)[k] = Values(l)[old(k)]
  BY <1>1, <1>3
<1>5. \A k \in 1 .. n : k # i => \E j \in 1 .. n - 1 : old(j) = k
  <2> SUFFICES ASSUME NEW k \in 1 .. n, k # i PROVE \E j \in 1 .. n - 1 : old(j) = k
    OBVIOUS
  <2>1. CASE k < i
    BY <1>1, <1>3, <2>1
  <2>2. CASE ~ (k < i)
    <3>1. k - 1 \in 1 .. n - 1 /\ old(k - 1) = k
      BY <1>1, <1>3, <2>2
    <3> QED BY <3>1
  <2> QED BY <2>1, <2>2
<1>6. \A j, k \in 1 .. n - 1 : (old(j) = old(k) => j = k) /\ (old(j) < old(k) => j < k)
  BY <1>1, <1>3
<1>7. DOMAIN Values(m) = 1 .. n - 1
  BY <1>1
<1> HIDE DEF old
<1>8. IsInjective(Values(m))
  BY <1>2, <1>4, <1>6, <1>7 DEF IsInjective
<1>9. ToSet(Values(m)) = ToSet(Values(l)) \ {Values(l)[i]}
  <2>1. \A k \in 1 .. n - 1 : /\ Values(m)[k] \in ToSet(Values(l))
                              /\ Values(m)[k] # Values(l)[i]
    BY <1>1, <1>2, <1>3, <1>4 DEF ToSet
  <2>2. ASSUME NEW k \in 1 .. n, Values(l)[k] # Values(l)[i]
        PROVE  Values(l)[k] \in ToSet(Values(m))
    <3>1. PICK j \in 1 .. n - 1 : old(j) = k
      BY <1>5, <2>2
    <3> QED BY <1>4, <1>7, <3>1 DEF ToSet
  <2> QED BY <1>1, <1>7, <2>1, <2>2 DEF ToSet
<1>10. \A a, b : Before(Values(l), a, b) => Before(Values(m), a, b)
  BY <1>1, <1>4, <1>6, <1>7 DEF Before
<1> QED BY <1>8, <1>9, <1>10 DEF m

\* linked_list_rem_all_entries leaves an empty list.
LEMMA RemAllEntriesEmpties ==
    ASSUME NEW l, IsList(l)
    PROVE  IsList(RemAllEntries(l)) /\ GetSize(RemAllEntries(l)) = 0
<1> DEFINE n == GetSize(l)
           Rest(f, m) == f = [k \in 0 .. m |-> IF k = 0 THEN l ELSE Rem(f[k - 1], First)]
           Long == {m \in Nat : \E f : Rest(f, m)}
<1>0. n \in Nat
  BY ListFacts
<1>1. Long = Nat
  <2>1. 0 \in Long
    <3>1. Rest([k \in 0 .. 0 |-> l], 0)
      OBVIOUS
    <3> QED BY <3>1
  <2>2. ASSUME NEW m \in Long PROVE m + 1 \in Long
    <3>1. PICK f : Rest(f, m)
      OBVIOUS
    <3> DEFINE g == [k \in 0 .. m + 1 |-> IF k <= m THEN f[k] ELSE Rem(f[m], First)]
    <3>2. ASSUME NEW k \in 0 .. m + 1
          PROVE  g[k] = IF k = 0 THEN l ELSE Rem(g[k - 1], First)
      <4>1. CASE k <= m
        <5>1. k \in 0 .. m /\ g[k] = f[k] /\ (k # 0 => g[k - 1] = f[k - 1])
          BY <4>1
        <5>2. f[k] = IF k = 0 THEN l ELSE Rem(f[k - 1], First)
          BY <3>1, <5>1
        <5> HIDE DEF g
        <5> QED BY <5>1, <5>2
      <4>2. CASE k = m + 1
        <5>1. k # 0 /\ g[k - 1] = f[m] /\ g[k] = Rem(f[m], First)
          BY <4>2
        <5> HIDE DEF g
        <5> QED BY <5>1
      <4> QED BY <4>1, <4>2
    <3>3. Rest(g, m + 1)
      BY <3>2
    <3> HIDE DEF g, Rest
    <3> QED BY <3>3
  <2> HIDE DEF Long
  <2>3. Long \in SUBSET Nat
    BY DEF Long
  <2> QED BY <2>1, <2>2, <2>3, SetInduction
<1>2. PICK f : Rest(f, n) /\ RemAllEntries(l) = f[n]
  <2> DEFINE f == CHOOSE f : Rest(f, n)
  <2>1. Rest(f, n)
    BY <1>0, <1>1
  <2>2. RemAllEntries(l) = f[n]
    BY DEF RemAllEntries
  <2> HIDE DEF f
  <2> QED BY <2>1, <2>2
<1> DEFINE Shrunk == {k \in Nat : k <= n => IsList(f[k]) /\ GetSize(f[k]) = n - k}
<1>3. 0 \in Shrunk
  <2>1. f[0] = l
    BY <1>0, <1>2
  <2> QED BY <1>0, <2>1
<1>4. ASSUME NEW k \in Shrunk PROVE k + 1 \in Shrunk
  <2> SUFFICES ASSUME k + 1 <= n
               PROVE  IsList(f[k + 1]) /\ GetSize(f[k + 1]) = n - (k + 1)
    OBVIOUS
  <2>1. f[k + 1] = Rem(f[k], First)
    <3>1. k + 1 \in 0 .. n /\ k + 1 # 0 /\ (k + 1) - 1 = k
      BY <1>0
    <3> QED BY <1>2, <3>1
  <2>2. k \in Nat /\ IsList(f[k]) /\ GetSize(f[k]) = n - k
    BY <1>0
  <2> HIDE DEF n, Rest, Shrunk
  <2>3. 1 \in 1 .. GetSize(f[k])
    BY <1>0, <2>2
  <2>4. Items(f[k])[1] = First
    <3>1. Linked(f[k], GetSize(f[k]), Items(f[k]))
      BY <2>2, ListFacts
    <3> QED BY <2>3, <3>1 DEF Linked
  <2>5. IsList(f[k + 1]) /\ GetSize(f[k + 1]) = GetSize(f[k]) - 1
    BY <2>1, <2>2, <2>3, <2>4, RemIsList
  <2> QED BY <1>0, <2>2, <2>5
<1> HIDE DEF Shrunk
<1>5. Shrunk = Nat
  <2>1. Shrunk \in SUBSET Nat
    BY DEF Shrunk
  <2> QED BY <1>3, <1>4, <2>1, SetInduction
<1>6. IsList(f[n]) /\ GetSize(f[n]) = n - n
  BY <1>0, <1>5 DEF Shrunk
<1> QED BY <1>0, <1>2, <1>6

\* A loop that removes every item with one of these values leaves the others.
LEMMA RemAllKeeps ==
    ASSUME NEW l, IsList(l), IsInjective(Values(l)), NEW values
    PROVE  /\ IsList(RemAll(l, values)) /\ IsInjective(Values(RemAll(l, values)))
           /\ ToSet(Values(RemAll(l, values))) = ToSet(Values(l)) \ values
           /\ \A a, b : Before(Values(l), a, b) => Before(Values(RemAll(l, values)), a, b)
<1> DEFINE n == GetSize(l)
           Round(m) == Rem(m, Iterate(m, values))
           Rest(f, m) == f = [k \in 0 .. m |-> IF k = 0 THEN l ELSE Round(f[k - 1])]
           Long == {m \in Nat : \E f : Rest(f, m)}
<1>0. n \in Nat
  BY ListFacts
<1> HIDE DEF Round
<1>1. Long = Nat
  <2>1. 0 \in Long
    <3>1. Rest([k \in 0 .. 0 |-> l], 0)
      OBVIOUS
    <3> QED BY <3>1
  <2>2. ASSUME NEW m \in Long PROVE m + 1 \in Long
    <3>1. PICK f : Rest(f, m)
      OBVIOUS
    <3> DEFINE g == [k \in 0 .. m + 1 |-> IF k <= m THEN f[k] ELSE Round(f[m])]
    <3>2. ASSUME NEW k \in 0 .. m + 1
          PROVE  g[k] = IF k = 0 THEN l ELSE Round(g[k - 1])
      <4>1. CASE k <= m
        <5>1. k \in 0 .. m /\ g[k] = f[k] /\ (k # 0 => g[k - 1] = f[k - 1])
          BY <4>1
        <5>2. f[k] = IF k = 0 THEN l ELSE Round(f[k - 1])
          BY <3>1, <5>1
        <5> HIDE DEF g
        <5> QED BY <5>1, <5>2
      <4>2. CASE k = m + 1
        <5>1. k # 0 /\ g[k - 1] = f[m] /\ g[k] = Round(f[m])
          BY <4>2
        <5> HIDE DEF g
        <5> QED BY <5>1
      <4> QED BY <4>1, <4>2
    <3>3. Rest(g, m + 1)
      BY <3>2
    <3> HIDE DEF g, Rest
    <3> QED BY <3>3
  <2> HIDE DEF Long
  <2>3. Long \in SUBSET Nat
    BY DEF Long
  <2> QED BY <2>1, <2>2, <2>3, SetInduction
<1>2. PICK f : Rest(f, n) /\ RemAll(l, values) = f[n]
  <2> DEFINE f == CHOOSE f : Rest(f, n)
  <2>1. Rest(f, n)
    BY <1>0, <1>1
  <2>2. RemAll(l, values) = f[n]
    BY DEF RemAll, Round
  <2> HIDE DEF f
  <2> QED BY <2>1, <2>2
\* After k rounds the values to keep are there, and k of the others are gone
\* if there are any left.
<1> DEFINE Between(k) ==
             /\ IsList(f[k]) /\ IsInjective(Values(f[k]))
             /\ ToSet(Values(l)) \ values \subseteq ToSet(Values(f[k]))
             /\ ToSet(Values(f[k])) \subseteq ToSet(Values(l))
             /\ ToSet(Values(f[k])) \cap values = {} \/ GetSize(f[k]) = n - k
             /\ \A a, b : Before(Values(l), a, b) => Before(Values(f[k]), a, b)
           Rounds == {k \in Nat : k <= n => Between(k)}
<1>3. 0 \in Rounds
  <2>1. f[0] = l
    BY <1>0, <1>2
  <2> QED BY <1>0, <2>1
<1>4. ASSUME NEW k \in Rounds PROVE k + 1 \in Rounds
  <2> SUFFICES ASSUME k + 1 <= n PROVE Between(k + 1)
    OBVIOUS
  <2>1. f[k + 1] = Rem(f[k], Iterate(f[k], values))
    <3>1. k + 1 \in 0 .. n /\ k + 1 # 0 /\ (k + 1) - 1 = k
      BY <1>0
    <3> QED BY <1>2, <3>1 DEF Round
  <2>2. k \in Nat /\ Between(k)
    BY <1>0
  <2> HIDE DEF n, Rest, Rounds
  <2>3. /\ GetSize(f[k]) \in Nat /\ DOMAIN Values(f[k]) = 1 .. GetSize(f[k])
    BY <2>2, ListFacts
  <2>4. CASE /\ Iterate(f[k], values) = NULL
             /\ \A i \in 1 .. GetSize(f[k]) : Values(f[k])[i] \notin values
    <3>1. f[k + 1] = f[k]
      BY <2>1, <2>2, <2>4, RemNothing
    <3>2. ToSet(Values(f[k])) \cap values = {}
      BY <2>3, <2>4 DEF ToSet
    <3> QED BY <2>2, <3>1, <3>2
  <2>5. ASSUME NEW i \in 1 .. GetSize(f[k]), Iterate(f[k], values) = Items(f[k])[i],
               Values(f[k])[i] \in values
        PROVE  Between(k + 1)
    <3>1. IsList(f[k + 1]) /\ GetSize(f[k + 1]) = GetSize(f[k]) - 1
      <4>1. f[k + 1] = Rem(f[k], Items(f[k])[i]) /\ IsList(f[k])
        BY <2>1, <2>2, <2>5
      <4> HIDE DEF Between
      <4> QED BY <4>1, RemIsList
    <3>2. /\ IsInjective(Values(f[k + 1]))
          /\ ToSet(Values(f[k + 1])) = ToSet(Values(f[k])) \ {Values(f[k])[i]}
          /\ \A a, b : Before(Values(f[k]), a, b) => Before(Values(f[k + 1]), a, b)
      BY <2>1, <2>2, <2>5, RemValues
    <3>3. Values(f[k])[i] \in ToSet(Values(f[k])) \cap values
      BY <2>3, <2>5 DEF ToSet
    <3>4. GetSize(f[k + 1]) = n - (k + 1)
      BY <1>0, <2>2, <2>3, <3>1, <3>3
    <3> QED BY <2>2, <2>5, <3>1, <3>2, <3>4
  <2> HIDE DEF Between
  <2> QED BY <2>2, <2>4, <2>5, IterateFinds DEF Between
<1> HIDE DEF Rounds
<1>5. Rounds = Nat
  <2>1. Rounds \in SUBSET Nat
    BY DEF Rounds
  <2> QED BY <1>3, <1>4, <2>1, SetInduction
<1>6. Between(n)
  <2>1. n \in Rounds /\ n <= n
    BY <1>0, <1>5
  <2> HIDE DEF Between
  <2> QED BY <2>1 DEF Rounds
<1>7. ToSet(Values(f[n])) \cap values = {}
  <2>1. CASE GetSize(f[n]) = n - n
    <3>1. DOMAIN Values(f[n]) = 1 .. GetSize(f[n])
      BY <1>6, ListFacts
    <3>2. GetSize(f[n]) = 0
      BY <1>0, <2>1
    <3> QED BY <3>1, <3>2 DEF ToSet
  <2> QED BY <1>6, <2>1
<1> QED BY <1>2, <1>6, <1>7

-----------------------------------------------------------------------------
(* Removable, for every list.                                              *)

\* What a list of any length does when one of its items is removed, whichever
\* it is, and another is added: linked_list_rem leaves the others in their
\* order, frees exactly the item and keeps the embedded first one.
THEOREM ListIsRemovable ==
    ASSUME NEW l, IsList(l)
    PROVE  Intact(l) /\ Removable(l)
<1> DEFINE n == GetSize(l)
           v == Values(l)
<1>1. n \in Nat /\ DOMAIN v = 1 .. n /\ Intact(l) /\ v = [k \in 1 .. n |-> l.cell[Items(l)[k]].value]
  BY ListFacts
<1> SUFFICES ASSUME NEW i \in 1 .. n
             PROVE  LET rest == Rem(l, Items(l)[i])
                        more == Add(rest, i)
                    IN  /\ Intact(rest) /\ Values(rest) = RemoveAt(v, i)
                        /\ Intact(more) /\ Values(more) = Append(Values(rest), i)
  BY <1>1 DEF Removable
<1> DEFINE rest == Rem(l, Items(l)[i])
           more == Add(rest, i)
<1>2. /\ IsList(rest) /\ GetSize(rest) = n - 1
      /\ Values(rest) = [k \in 1 .. n - 1 |-> IF k < i THEN v[k] ELSE v[k + 1]]
  BY RemIsList
<1> HIDE DEF rest
<1>3. /\ IsList(more)
      /\ Values(more) = [k \in 1 .. (n - 1) + 1 |-> Values(more)[k]]
      /\ \A k \in 1 .. (n - 1) + 1 :
            Values(more)[k] = IF k <= n - 1 THEN Values(rest)[k] ELSE i
  <2>1. /\ IsList(more)
        /\ Values(more) = [k \in 1 .. GetSize(rest) + 1 |-> Values(more)[k]]
        /\ \A k \in 1 .. GetSize(rest) + 1 :
              Values(more)[k] = IF k <= GetSize(rest) THEN Values(rest)[k] ELSE i
    BY <1>2, AddIsList
  <2> HIDE DEF more, n
  <2> QED BY <1>2, <2>1
<1>4. Intact(rest) /\ Intact(more)
  BY <1>2, <1>3, ListFacts
<1> HIDE DEF n, v, more
<1>5. i \in 1 .. n
  BY DEF n
<1> DEFINE S == {v[k] : k \in 1 .. n}
<1>6. v \in Seq(S) /\ Len(v) = n
  <2>1. v \in [1 .. n -> S]
    BY <1>1 DEF v
  <2> QED BY <1>1, <2>1
<1>7. Values(rest) = RemoveAt(v, i)
  <2> DEFINE a == SubSeq(v, 1, i - 1)
             b == SubSeq(v, i + 1, n)
  <2>1. /\ a \in Seq(S) /\ Len(a) = i - 1
        /\ \A k \in 1 .. i - 1 : a[k] = v[k]
    <3>1. \A k \in 1 .. i - 1 : v[k] \in S
      BY <1>1, <1>5
    <3> HIDE DEF S
    <3>2. 1 \in Int /\ i - 1 \in Int
      BY <1>1, <1>5
    <3>3. /\ a \in Seq(S) /\ Len(a) = IF 1 <= i - 1 THEN (i - 1) - 1 + 1 ELSE 0
          /\ \A k \in 1 .. (i - 1) - 1 + 1 : a[k] = v[1 + k - 1]
      BY <3>1, <3>2, SubSeqProperties
    <3> HIDE DEF a
    <3>4. (i - 1) - 1 + 1 = i - 1 /\ \A k \in 1 .. i - 1 : 1 + k - 1 = k
      BY <1>1, <1>5
    <3>5. Len(a) = i - 1
      BY <1>1, <1>5, <3>3
    <3> QED BY <3>3, <3>4, <3>5
  <2>2. /\ b \in Seq(S) /\ Len(b) = n - i
        /\ \A k \in 1 .. n - i : b[k] = v[i + k]
    <3>1. \A k \in i + 1 .. n : v[k] \in S
      BY <1>1, <1>5
    <3> HIDE DEF S
    <3>2. i + 1 \in Int /\ n \in Int
      BY <1>1, <1>5
    <3>3. /\ b \in Seq(S) /\ Len(b) = IF i + 1 <= n THEN n - (i + 1) + 1 ELSE 0
          /\ \A k \in 1 .. n - (i + 1) + 1 : b[k] = v[(i + 1) + k - 1]
      BY <3>1, <3>2, SubSeqProperties
    <3> HIDE DEF b
    <3>4. n - (i + 1) + 1 = n - i /\ \A k \in 1 .. n - i : (i + 1) + k - 1 = i + k
      BY <1>1, <1>5
    <3>5. Len(b) = n - i
      BY <1>1, <1>5, <3>3
    <3> QED BY <3>3, <3>4, <3>5
  <2> HIDE DEF a, b, S
  <2>3. /\ a \o b \in Seq(S) /\ Len(a \o b) = (i - 1) + (n - i)
        /\ \A k \in 1 .. (i - 1) + (n - i) :
              (a \o b)[k] = IF k <= i - 1 THEN a[k] ELSE b[k - (i - 1)]
    <3>1. /\ a \o b \in Seq(S) /\ Len(a \o b) = Len(a) + Len(b)
          /\ \A k \in 1 .. Len(a) + Len(b) :
                (a \o b)[k] = IF k <= Len(a) THEN a[k] ELSE b[k - Len(a)]
      BY <2>1, <2>2, ConcatProperties
    <3> QED BY <2>1, <2>2, <3>1
  <2>4. /\ (i - 1) + (n - i) = n - 1
        /\ \A k \in 1 .. n - 1 : k <= i - 1 <=> k < i
        /\ \A k \in 1 .. n - 1 : k < i => k \in 1 .. i - 1
        /\ \A k \in 1 .. n - 1 : ~ (k < i) =>
              k - (i - 1) \in 1 .. n - i /\ i + (k - (i - 1)) = k + 1
    BY <1>1, <1>5
  <2>5. \A k \in 1 .. n - 1 : (a \o b)[k] = IF k < i THEN v[k] ELSE v[k + 1]
    BY <2>1, <2>2, <2>3, <2>4
  <2>6. a \o b = [k \in 1 .. n - 1 |-> (a \o b)[k]]
    <3>1. a \o b \in [1 .. Len(a \o b) -> S]
      BY <2>3, LenProperties
    <3> QED BY <2>3, <2>4, <3>1
  <2>7. RemoveAt(v, i) = a \o b
    BY <1>6 DEF RemoveAt, a, b
  <2> QED BY <1>2, <2>5, <2>6, <2>7
<1>8. Values(more) = Append(Values(rest), i)
  <2> DEFINE w == Values(rest)
             T == S \cup {i}
  <2>1. w \in Seq(T) /\ Len(w) = n - 1
    <3>1. w = [k \in 1 .. n - 1 |-> w[k]]
      BY <1>2
    <3>2. \A k \in 1 .. n - 1 : w[k] \in T
      BY <1>1, <1>2, <1>5
    <3>3. n - 1 \in Nat
      BY <1>1, <1>5
    <3> HIDE DEF w, T
    <3>4. w \in [1 .. n - 1 -> T]
      BY <3>1, <3>2
    <3> QED BY <3>3, <3>4
  <2>2. i \in T
    OBVIOUS
  <2> HIDE DEF w, T
  <2>3. /\ Append(w, i) \in Seq(T) /\ Len(Append(w, i)) = (n - 1) + 1
        /\ \A k \in 1 .. n - 1 : Append(w, i)[k] = w[k]
        /\ Append(w, i)[(n - 1) + 1] = i
    BY <2>1, <2>2, AppendProperties
  <2>4. Append(w, i) = [k \in 1 .. (n - 1) + 1 |-> Append(w, i)[k]]
    <3>1. Append(w, i) \in [1 .. Len(Append(w, i)) -> T]
      BY <2>3, LenProperties
    <3> QED BY <2>3, <3>1
  <2>5. \A k \in 1 .. (n - 1) + 1 : Append(w, i)[k] = IF k <= n - 1 THEN w[k] ELSE i
    <3>1. \A k \in 1 .. (n - 1) + 1 : k \in 1 .. n - 1 \/ (k = (n - 1) + 1 /\ ~ (k <= n - 1))
      BY <1>1, <1>5
    <3>2. \A k \in 1 .. n - 1 : k <= n - 1
      BY <1>1, <1>5
    <3> QED BY <2>3, <3>1, <3>2
  <2> QED BY <1>3, <2>4, <2>5 DEF w
<1> QED BY <1>4, <1>7, <1>8 DEF rest, more

=============================================================================
