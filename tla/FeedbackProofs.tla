--------------------------- MODULE FeedbackProofs ---------------------------
(***************************************************************************)
(* Proofs about the feedback: what the handlers make of it, that it is     *)
(* there when the roundtrips come back, and what negotiate makes of it.    *)
(***************************************************************************)
EXTENDS StartupProofs

(***************************************************************************)
(* Adding the entry at a place after all those listed so far keeps the     *)
(* list in the order of their first mentions.                              *)
(***************************************************************************)
LEMMA AddInOrder ==
    ASSUME NEW formats \in FormatLists, NEW P, InOrder(formats, P),
           NEW x, \A p \in P : Before(p, x)
    PROVE  InOrder(AddModifier(formats, EntryAt(x)), P \cup {x})
<1> DEFINE F(p) == EntryAt(p).format
           D(p) == EntryAt(p).modifier
           n == Len(formats)
           A == DOMAIN formats
           C(i) == formats[i].code
           M(i) == formats[i].modifiers
           Q == P \cup {x}
           new == AddModifier(formats, EntryAt(x))
           B == DOMAIN new
           C2(i) == new[i].code
           M2(i) == new[i].modifiers
<1>1. n \in Nat /\ A = 1..n
  BY DEF FormatLists
<1>2. \A i \in A : /\ M(i) \in Seq(Modifiers)
                   /\ Len(M(i)) \in Nat
                   /\ DOMAIN M(i) = 1..Len(M(i))
  <2>1. \A i \in A : M(i) \in Seq(Modifiers)
    BY FormatAt
  <2>2. \A s \in Seq(Modifiers) : Len(s) \in Nat /\ DOMAIN s = 1..Len(s)
    OBVIOUS
  <2> QED
    BY <2>1, <2>2
<1>3. /\ \A p \in P : \E i \in A : \E m \in DOMAIN M(i) :
            F(p) = C(i) /\ D(p) = M(i)[m]
      /\ \A i \in A :
            /\ M(i) # <<>>
            /\ \A m \in DOMAIN M(i) : \E p \in P : F(p) = C(i) /\ D(p) = M(i)[m]
      /\ \A i, j \in A : C(i) = C(j) => i = j
      /\ \A i \in A : \A k, m \in DOMAIN M(i) : M(i)[k] = M(i)[m] => k = m
      /\ \A i, j \in A : \A q \in P :
            i < j /\ F(q) = C(j) => \E p \in P : F(p) = C(i) /\ Before(p, q)
      /\ \A i \in A : \A k, m \in DOMAIN M(i) : \A q \in P :
            k < m /\ F(q) = C(i) /\ D(q) = M(i)[m] =>
               \E p \in P : F(p) = C(i) /\ D(p) = M(i)[k] /\ Before(p, q)
  BY Zenon DEF InOrder, Names
<1>4. \A i \in A : \E p \in P : F(p) = C(i)
  <2> TAKE i \in A
  <2>1. 1 \in DOMAIN M(i)
    <3>1. Len(M(i)) # 0
      BY <1>2, <1>3, EmptySeq
    <3> QED
      BY <1>2, <3>1
  <2> QED
    BY <1>3, <2>1
<1>5. /\ \A p \in Q : \E i \in B : \E m \in DOMAIN M2(i) :
            F(p) = C2(i) /\ D(p) = M2(i)[m]
      /\ \A i \in B :
            /\ M2(i) # <<>>
            /\ \A m \in DOMAIN M2(i) :
                  \E p \in Q : F(p) = C2(i) /\ D(p) = M2(i)[m]
      /\ \A i, j \in B : C2(i) = C2(j) => i = j
      /\ \A i \in B : \A k, m \in DOMAIN M2(i) : M2(i)[k] = M2(i)[m] => k = m
      /\ \A i, j \in B : \A q \in Q :
            i < j /\ F(q) = C2(j) => \E p \in Q : F(p) = C2(i) /\ Before(p, q)
      /\ \A i \in B : \A k, m \in DOMAIN M2(i) : \A q \in Q :
            k < m /\ F(q) = C2(i) /\ D(q) = M2(i)[m] =>
               \E p \in Q : F(p) = C2(i) /\ D(p) = M2(i)[k] /\ Before(p, q)
      => InOrder(new, Q)
  <2> HIDE DEF Q, new
  <2> QED
    BY SMT DEF InOrder, Names
<1>6. \A p \in Q : p \in P \/ p = x
  OBVIOUS
<1>7. CASE /\ \A i \in A : C(i) # F(x)
           /\ new = Append(formats, [code |-> F(x), modifiers |-> <<D(x)>>])
  <2>1. /\ B = 1..(n + 1)
        /\ \A i \in A : new[i] = formats[i]
        /\ new[n + 1] = [code |-> F(x), modifiers |-> <<D(x)>>]
    BY <1>1, <1>7 DEF FormatLists
  <2>2. /\ C2(n + 1) = F(x) /\ M2(n + 1) = <<D(x)>>
        /\ \A i \in A : C2(i) = C(i) /\ M2(i) = M(i)
    BY <2>1
  <2>3. /\ DOMAIN <<D(x)>> = {1} /\ <<D(x)>>[1] = D(x) /\ <<D(x)>> # <<>>
        /\ \A k, m \in {1} : k = m /\ ~ (k < m)
    OBVIOUS
  <2>4. /\ \A i \in B : i \in A \/ i = n + 1
        /\ \A i \in A : i \in B /\ i < n + 1 /\ ~(n + 1 < i)
        /\ n + 1 \in B /\ ~(n + 1 < n + 1)
    BY <1>1, <2>1
  <2> DEFINE N == n + 1
             one == <<D(x)>>
  <2> HIDE DEF N, one, A, B, F, D, C, M, C2, M2, new, n
  <2>5. \A p \in P : F(p) # F(x)
    BY <1>3, <1>7
  <2>6. \A p \in Q : \E i \in B : \E m \in DOMAIN M2(i) :
           F(p) = C2(i) /\ D(p) = M2(i)[m]
    BY <1>3, <1>6, <2>2, <2>3, <2>4 DEF N, one
  <2>7. \A i \in B :
           /\ M2(i) # <<>>
           /\ \A m \in DOMAIN M2(i) :
                 \E p \in Q : F(p) = C2(i) /\ D(p) = M2(i)[m]
    BY <1>3, <2>2, <2>3, <2>4 DEF N, one
  <2>8. \A i, j \in B : C2(i) = C2(j) => i = j
    BY <1>3, <1>7, <2>2, <2>4 DEF N
  <2>9. \A i \in B : \A k, m \in DOMAIN M2(i) : M2(i)[k] = M2(i)[m] => k = m
    BY <1>3, <2>2, <2>3, <2>4 DEF N, one
  <2>10. \A i, j \in B : \A q \in Q :
            i < j /\ F(q) = C2(j) => \E p \in Q : F(p) = C2(i) /\ Before(p, q)
    BY <1>3, <1>4, <1>6, <1>7, <2>2, <2>4, <2>5 DEF N
  <2>11. \A i \in B : \A k, m \in DOMAIN M2(i) : \A q \in Q :
            k < m /\ F(q) = C2(i) /\ D(q) = M2(i)[m] =>
               \E p \in Q : F(p) = C2(i) /\ D(p) = M2(i)[k] /\ Before(p, q)
    BY <1>3, <1>6, <1>7, <2>2, <2>3, <2>4, <2>5 DEF N, one
  <2> QED
    BY <1>5, <2>6, <2>7, <2>8, <2>9, <2>10, <2>11 DEF new
<1>8. ASSUME NEW at \in A, C(at) = F(x),
             \E j \in DOMAIN M(at) : M(at)[j] = D(x),
             new = formats
      PROVE  InOrder(new, Q)
  <2>1. B = A /\ \A i \in A : C2(i) = C(i) /\ M2(i) = M(i)
    BY <1>8
  <2> HIDE DEF A, B, F, D, C, M, C2, M2, new, n
  <2>2. \A p \in Q : \E i \in B : \E m \in DOMAIN M2(i) :
           F(p) = C2(i) /\ D(p) = M2(i)[m]
    BY <1>3, <1>6, <1>8, <2>1
  <2>3. \A i \in B :
           /\ M2(i) # <<>>
           /\ \A m \in DOMAIN M2(i) :
                 \E p \in Q : F(p) = C2(i) /\ D(p) = M2(i)[m]
    BY <1>3, <2>1
  <2>4. \A i, j \in B : \A q \in Q :
           i < j /\ F(q) = C2(j) => \E p \in Q : F(p) = C2(i) /\ Before(p, q)
    BY <1>3, <1>4, <1>6, <2>1
  <2>5. \A i \in B : \A k, m \in DOMAIN M2(i) : \A q \in Q :
           k < m /\ F(q) = C2(i) /\ D(q) = M2(i)[m] =>
              \E p \in Q : F(p) = C2(i) /\ D(p) = M2(i)[k] /\ Before(p, q)
    BY <1>3, <1>6, <2>1
  <2> QED
    BY <1>3, <1>5, <2>1, <2>2, <2>3, <2>4, <2>5 DEF new
<1>9. ASSUME NEW at \in A, C(at) = F(x),
             \A j \in DOMAIN M(at) : M(at)[j] # D(x),
             new = [formats EXCEPT ![at] =
                      [code |-> F(x), modifiers |-> Append(M(at), D(x))]]
      PROVE  InOrder(new, Q)
  <2> DEFINE L == Len(M(at))
             longer == Append(M(at), D(x))
  <2>1. /\ L \in Nat /\ DOMAIN M(at) = 1..L
        /\ DOMAIN longer = 1..(L + 1)
        /\ \A m \in 1..L : longer[m] = M(at)[m]
        /\ longer[L + 1] = D(x)
    <3> DEFINE q == M(at)
    <3>1. q \in Seq(Modifiers)
      BY <1>2
    <3> HIDE DEF q
    <3>2. /\ Len(q) \in Nat /\ DOMAIN q = 1..Len(q)
          /\ DOMAIN Append(q, D(x)) = 1..(Len(q) + 1)
          /\ \A m \in 1..Len(q) : Append(q, D(x))[m] = q[m]
          /\ Append(q, D(x))[Len(q) + 1] = D(x)
      BY <3>1
    <3> QED
      BY <3>2 DEF q
  <2>2. /\ B = A
        /\ \A i \in A : i # at => C2(i) = C(i) /\ M2(i) = M(i)
        /\ C2(at) = C(at) /\ M2(at) = longer
    <3> HIDE DEF longer
    <3>1. new = [formats EXCEPT ![at] = [code |-> F(x), modifiers |-> longer]]
      BY <1>9 DEF longer
    <3> QED
      BY <1>9, <3>1
  <2>3. /\ \A m \in DOMAIN longer : m \in DOMAIN M(at) \/ m = L + 1
        /\ \A m \in DOMAIN M(at) : m \in DOMAIN longer /\ m # L + 1
                                   /\ longer[m] = M(at)[m] /\ ~(L + 1 < m)
        /\ L + 1 \in DOMAIN longer /\ longer # <<>> /\ ~(L + 1 < L + 1)
    <3> HIDE DEF longer, L
    <3>1. L + 1 \in DOMAIN longer /\ DOMAIN <<>> = {}
      BY <2>1
    <3>2. longer # <<>>
      BY <3>1
    <3> QED
      BY <2>1, <3>1, <3>2
  <2> DEFINE N == L + 1
  <2> HIDE DEF N, L, longer, A, B, F, D, C, M, C2, M2, new, n
  <2>4. \A p \in Q : \E i \in B : \E m \in DOMAIN M2(i) :
           F(p) = C2(i) /\ D(p) = M2(i)[m]
    BY <1>3, <1>6, <1>9, <2>1, <2>2, <2>3
  <2>5. \A i \in B :
           /\ M2(i) # <<>>
           /\ \A m \in DOMAIN M2(i) :
                 \E p \in Q : F(p) = C2(i) /\ D(p) = M2(i)[m]
    BY <1>3, <1>9, <2>1, <2>2, <2>3
  <2>6. \A i, j \in B : C2(i) = C2(j) => i = j
    BY <1>3, <2>2
  <2>7. \A i \in B : \A k, m \in DOMAIN M2(i) : M2(i)[k] = M2(i)[m] => k = m
    BY <1>3, <1>9, <2>1, <2>2, <2>3
  <2>8. \A i, j \in B : \A q \in Q :
           i < j /\ F(q) = C2(j) => \E p \in Q : F(p) = C2(i) /\ Before(p, q)
    BY <1>3, <1>4, <1>6, <2>2
  <2>9. \A i \in B : \A k, m \in DOMAIN M2(i) : \A q \in Q :
           k < m /\ F(q) = C2(i) /\ D(q) = M2(i)[m] =>
              \E p \in Q : F(p) = C2(i) /\ D(p) = M2(i)[k] /\ Before(p, q)
    <3> SUFFICES ASSUME NEW i \in B, NEW k \in DOMAIN M2(i),
                        NEW m \in DOMAIN M2(i), NEW q \in Q,
                        k < m, F(q) = C2(i), D(q) = M2(i)[m]
                 PROVE  \E p \in Q :
                           F(p) = C2(i) /\ D(p) = M2(i)[k] /\ Before(p, q)
      OBVIOUS
    <3>1. k \in DOMAIN M(i) /\ M2(i)[k] = M(i)[k] /\ C2(i) = C(i) /\ i \in A
      BY <2>1, <2>2, <2>3
    <3>2. CASE q = x
      BY <1>3, <3>1, <3>2
    <3>3. CASE q \in P /\ m \in DOMAIN M(i)
      <4>1. M2(i)[m] = M(i)[m]
        BY <2>2, <2>3, <3>3
      <4> QED
        BY <1>3, <3>1, <3>3, <4>1
    <3>4. CASE q \in P /\ m \notin DOMAIN M(i)
      <4>1. i = at /\ m = L + 1
        BY <2>2, <2>3, <3>4
      <4>2. F(q) = C(at) /\ D(q) = D(x)
        BY <2>1, <2>2, <4>1
      <4> QED
        BY <1>3, <1>9, <3>4, <4>2
    <3> QED
      BY <1>6, <3>2, <3>3, <3>4
  <2> QED
    BY <1>5, <2>4, <2>5, <2>6, <2>7, <2>8, <2>9 DEF new
<1> QED
  BY <1>7, <1>8, <1>9, AddModifierCases

(***************************************************************************)
(* The places of the first k tranches and of the first m indices of the    *)
(* next one.                                                               *)
(***************************************************************************)
PlacesUpTo(k, m) ==
    OfferPlaces(k)
        \cup {p \in {k + 1} \X (1..m) :
                 Usable(offer.table, offer.tranches[p[1]][p[2]])}

(***************************************************************************)
(* They grow with each index that can be used, by the place of that index, *)
(* until the whole tranche is among them.                                  *)
(***************************************************************************)
LEMMA PlacesGrow ==
    ASSUME offer \in Feedbacks, NEW k \in Nat, k < Len(offer.tranches)
    PROVE  LET indices == offer.tranches[k + 1]
           IN  /\ indices \in Tranche /\ Len(indices) \in Nat
               /\ PlacesUpTo(k, 0) = OfferPlaces(k)
               /\ PlacesUpTo(k, Len(indices)) = OfferPlaces(k + 1)
               /\ \A m \in 1..Len(indices) :
                     /\ PlacesUpTo(k, m) =
                           IF Usable(offer.table, indices[m])
                           THEN PlacesUpTo(k, m - 1) \cup {<<k + 1, m>>}
                           ELSE PlacesUpTo(k, m - 1)
                     /\ \A p \in PlacesUpTo(k, m - 1) : Before(p, <<k + 1, m>>)
<1> DEFINE T == offer.tranches
           L == Len(T[k + 1])
           U(p) == Usable(offer.table, T[p[1]][p[2]])
           All(n) == UNION {{t} \X DOMAIN T[t] : t \in 1..n}
           New(m) == {p \in {k + 1} \X (1..m) : U(p)}
<1>1. /\ T \in Seq(Tranche) /\ offer.table \in Seq(Entry)
      /\ offer.table # None
  BY FeedbackEventsAre, FeedbackAssumption DEF Entry
<1>2. /\ \A t \in 1..Len(T) : T[t] \in Tranche
      /\ k + 1 \in 1..Len(T) /\ T[k + 1] \in Tranche
  BY <1>1
<1>3. \A t \in 1..Len(T) : DOMAIN T[t] = 1..Len(T[t]) /\ Len(T[t]) \in Nat
  <2>1. \A q \in Tranche : DOMAIN q = 1..Len(q) /\ Len(q) \in Nat
    BY DEF Tranche
  <2> QED
    BY <1>2, <2>1
<1>4. L \in Nat /\ DOMAIN T[k + 1] = 1..L
  BY <1>2, <1>3
<1>5. \A n : OfferPlaces(n) = {p \in All(n) : U(p)}
  BY <1>1 DEF OfferPlaces, EntryAt, Usable
<1>6. \A m : PlacesUpTo(k, m) = OfferPlaces(k) \cup New(m)
  BY DEF PlacesUpTo
<1>7. \A p \in All(k) : p \in Nat \X Nat /\ p[1] <= k
  <2> TAKE p \in All(k)
  <2>1. PICK t \in 1..k : p \in {t} \X DOMAIN T[t]
    OBVIOUS
  <2>2. t \in 1..Len(T)
    BY <1>1
  <2>3. DOMAIN T[t] = 1..Len(T[t]) /\ Len(T[t]) \in Nat
    BY <1>3, <2>2
  <2> QED
    BY <2>1, <2>3
<1>8. All(k + 1) = All(k) \cup ({k + 1} \X (1..L))
  <2>1. 1..(k + 1) = (1..k) \cup {k + 1}
    OBVIOUS
  <2> HIDE DEF L
  <2> QED
    BY <1>4, <2>1
<1> HIDE DEF T, L, U, All
<1>9. New(0) = {}
  OBVIOUS
<1>10. OfferPlaces(k + 1) = OfferPlaces(k) \cup New(L)
  BY <1>5, <1>8
<1>11. ASSUME NEW m \in 1..L
       PROVE  /\ New(m) = IF U(<<k + 1, m>>)
                          THEN New(m - 1) \cup {<<k + 1, m>>} ELSE New(m - 1)
              /\ \A p \in OfferPlaces(k) \cup New(m - 1) : Before(p, <<k + 1, m>>)
  <2>1. 1..m = (1..(m - 1)) \cup {m} /\ m \in Nat
    BY <1>4
  <2>2. {k + 1} \X (1..m) = ({k + 1} \X (1..(m - 1))) \cup {<<k + 1, m>>}
    BY <2>1
  <2>3. ASSUME NEW p \in New(m - 1) PROVE Before(p, <<k + 1, m>>)
    <3>1. PICK j \in 1..(m - 1) : p = <<k + 1, j>>
      OBVIOUS
    <3> QED
      BY <2>1, <3>1 DEF Before, NotAfter
  <2>4. ASSUME NEW p \in OfferPlaces(k) PROVE Before(p, <<k + 1, m>>)
    BY <1>5, <1>7, <2>1 DEF Before, NotAfter
  <2> QED
    BY <2>2, <2>3, <2>4
<1>12. \A m \in 1..L : U(<<k + 1, m>>) = Usable(offer.table, T[k + 1][m])
  BY DEF U
<1> HIDE DEF New
<1>13. ASSUME NEW m \in 1..L
       PROVE  /\ PlacesUpTo(k, m) = IF Usable(offer.table, T[k + 1][m])
                                    THEN PlacesUpTo(k, m - 1) \cup {<<k + 1, m>>}
                                    ELSE PlacesUpTo(k, m - 1)
              /\ \A p \in PlacesUpTo(k, m - 1) : Before(p, <<k + 1, m>>)
  BY <1>6, <1>11, <1>12
<1>14. PlacesUpTo(k, 0) = OfferPlaces(k) /\ PlacesUpTo(k, L) = OfferPlaces(k + 1)
  BY <1>6, <1>9, <1>10
<1> QED
  BY <1>2, <1>4, <1>13, <1>14 DEF T, L

(***************************************************************************)
(* A tranche keeps the list in order.                                      *)
(***************************************************************************)
LEMMA TrancheInOrder ==
    ASSUME offer \in Feedbacks, NEW k \in Nat, k < Len(offer.tranches),
           NEW formats \in FormatLists, InOrder(formats, OfferPlaces(k))
    PROVE  InOrder(AddTranche(formats, offer.table, offer.tranches[k + 1]),
                   OfferPlaces(k + 1))
<1> DEFINE table == offer.table
           indices == offer.tranches[k + 1]
           N == Len(indices)
           place(m) == <<k + 1, m>>
<1>1. /\ indices \in Tranche /\ N \in Nat /\ table \in Tables
      /\ PlacesUpTo(k, 0) = OfferPlaces(k)
      /\ PlacesUpTo(k, N) = OfferPlaces(k + 1)
      /\ \A m \in 1..N :
            /\ PlacesUpTo(k, m) = IF Usable(table, indices[m])
                                  THEN PlacesUpTo(k, m - 1) \cup {place(m)}
                                  ELSE PlacesUpTo(k, m - 1)
            /\ \A p \in PlacesUpTo(k, m - 1) : Before(p, place(m))
  BY PlacesGrow, FeedbackEventsAre DEF Tables
<1>2. \A m \in 1..N : table[indices[m] + 1] = EntryAt(place(m))
  BY DEF EntryAt
<1> HIDE DEF table, indices
<1>3. PICK added :
         /\ AddTranche(formats, table, indices) = added[N]
         /\ added[0] = formats
         /\ \A m \in 0..N : added[m] \in FormatLists
         /\ \A m \in 1..N :
               added[m] = IF Usable(table, indices[m])
                          THEN AddModifier(added[m - 1], table[indices[m] + 1])
                          ELSE added[m - 1]
  BY <1>1, AddTrancheRecursion
<1> HIDE DEF N, place
<1> DEFINE S == {m \in Nat : m <= N => InOrder(added[m], PlacesUpTo(k, m))}
<1>4. 0 \in S
  BY <1>1, <1>3
<1>5. ASSUME NEW i \in Nat, i \in S PROVE i + 1 \in S
  <2> SUFFICES ASSUME i + 1 <= N
               PROVE  InOrder(added[i + 1], PlacesUpTo(k, i + 1))
    OBVIOUS
  <2> DEFINE m == i + 1
             before == added[i]
             P == PlacesUpTo(k, i)
             x == place(m)
  <2>1. /\ m \in 1..N /\ m - 1 = i /\ i \in 0..N
        /\ before \in FormatLists /\ InOrder(before, P)
    BY <1>1, <1>3, <1>5
  <2>2. /\ PlacesUpTo(k, m) = IF Usable(table, indices[m]) THEN P \cup {x} ELSE P
        /\ \A p \in P : Before(p, x)
        /\ added[m] = IF Usable(table, indices[m])
                      THEN AddModifier(before, EntryAt(x)) ELSE before
    BY <1>1, <1>2, <1>3, <2>1
  <2> HIDE DEF P, x, before, m
  <2>3. InOrder(AddModifier(before, EntryAt(x)), P \cup {x})
    BY <2>1, <2>2, AddInOrder
  <2>4. InOrder(added[m], PlacesUpTo(k, m))
    BY <2>1, <2>2, <2>3
  <2> QED
    BY <2>4 DEF m
<1>6. N \in S
  <2> HIDE DEF S
  <2> QED
    BY <1>1, <1>4, <1>5, SetInduction
<1> QED
  BY <1>1, <1>3, <1>6 DEF table, indices

(***************************************************************************)
(* Without a table a tranche adds nothing.                                 *)
(***************************************************************************)
LEMMA NothingWithoutTable ==
    ASSUME NEW formats \in FormatLists, NEW indices \in Tranche
    PROVE  AddTranche(formats, None, indices) = formats
<1> DEFINE N == Len(indices)
<1>1. N \in Nat /\ None \in Tables
  BY DEF Tranche, Tables
<1> HIDE DEF N
<1>2. \A index : ~Usable(None, index)
  BY DEF Usable
<1>3. PICK added :
         /\ AddTranche(formats, None, indices) = added[N]
         /\ added[0] = formats
         /\ \A m \in 1..N :
               added[m] = IF Usable(None, indices[m])
                          THEN AddModifier(added[m - 1], None[indices[m] + 1])
                          ELSE added[m - 1]
  BY <1>1, AddTrancheRecursion DEF N
<1> DEFINE S == {m \in Nat : m <= N => added[m] = formats}
<1>4. 0 \in S
  BY <1>3
<1>5. ASSUME NEW m \in Nat, m \in S PROVE m + 1 \in S
  <2>1. m + 1 <= N => m + 1 \in 1..N /\ (m + 1) - 1 = m
    BY <1>1
  <2> QED
    BY <1>1, <1>2, <1>3, <1>5, <2>1
<1>6. N \in S
  <2> HIDE DEF S
  <2> QED
    BY <1>1, <1>4, <1>5, SetInduction
<1> QED
  BY <1>1, <1>3, <1>6

(***************************************************************************)
(* The first of the messages left, and those after it.                     *)
(***************************************************************************)
LEMMA NextOfRest ==
    ASSUME NEW M, NEW s \in Seq(M), NEW n \in 0..Len(s),
           NEW h \in M, NEW t \in Seq(M),
           SubSeq(s, n + 1, Len(s)) = <<h>> \o t
    PROVE  /\ n + 1 \in 1..Len(s) /\ h = s[n + 1]
           /\ t = SubSeq(s, n + 2, Len(s))
<1> DEFINE rest == SubSeq(s, n + 1, Len(s))
           later == SubSeq(s, n + 2, Len(s))
           one == <<h>>
<1>1. /\ rest \in Seq(M) /\ Len(rest) = Len(s) - n
      /\ \A i \in 1..Len(rest) : rest[i] = s[n + i]
  OBVIOUS
<1>2. /\ Len(one \o t) = 1 + Len(t) /\ (one \o t)[1] = h
      /\ \A i \in 1..Len(t) : (one \o t)[i + 1] = t[i]
  OBVIOUS
<1>3. Len(s) \in Nat /\ Len(t) \in Nat /\ n \in Nat /\ rest = one \o t
  OBVIOUS
<1> HIDE DEF rest, one
<1>4. n + 1 <= Len(s) /\ Len(t) = Len(s) - (n + 1)
  <2>1. Len(s) - n = 1 + Len(t)
    BY <1>1, <1>2, <1>3
  <2> QED
    BY <1>3, <2>1
<1>5. /\ later \in Seq(M) /\ Len(later) = Len(s) - (n + 1)
      /\ \A i \in 1..Len(later) : later[i] = s[n + 1 + i]
  BY <1>4
<1> HIDE DEF later
<1>6. h = s[n + 1]
  BY <1>1, <1>2, <1>3, <1>4
<1>7. \A i \in 1..Len(t) : t[i] = later[i]
  <2> TAKE i \in 1..Len(t)
  <2>1. i + 1 \in 1..Len(rest)
    BY <1>1, <1>3, <1>4
  <2>2. rest[i + 1] = s[n + (i + 1)]
    BY <1>1, <2>1
  <2>3. rest[i + 1] = t[i] /\ n + (i + 1) = n + 1 + i
    BY <1>2, <1>3
  <2> QED
    BY <1>4, <1>5, <2>2, <2>3
<1>8. t = later
  BY <1>4, <1>5, <1>7, SeqEqual
<1> QED
  BY <1>3, <1>4, <1>6, <1>8 DEF later

(***************************************************************************)
(* While the offer stays, so do its places and what is said of them.       *)
(***************************************************************************)
LEMMA PlacesStay ==
    ASSUME offer' = offer, NEW k, InOrder(dmabuf_formats', OfferPlaces(k))
    PROVE  InOrder(dmabuf_formats, OfferPlaces(k))'
<1>1. OfferPlaces(k)' = OfferPlaces(k)
  BY DEF OfferPlaces, EntryAt
<1>2. \A p : EntryAt(p)' = EntryAt(p)
  BY DEF EntryAt
<1>3. \A p, i, m : Names(p, dmabuf_formats, i, m)'
                      <=> Names(p, dmabuf_formats', i, m)
  BY <1>2 DEF Names
<1> QED
  BY <1>1, <1>2, <1>3 DEF InOrder

(***************************************************************************)
(* The handler of an event of the feedback, after those before it.         *)
(***************************************************************************)
LEMMA HandledNext ==
    ASSUME StartupTypeOK, offer \in Feedbacks, offer' = offer,
           NEW n \in Nat, n + 1 <= Len(FeedbackEvents(offer)), Handled(n),
           OnFeedback(FeedbackEvents(offer)[n + 1])
    PROVE  Handled(n + 1)'
<1> DEFINE e == FeedbackEvents(offer)[n + 1]
<1>1. /\ dmabuf_formats \in FormatLists /\ format_table \in Tables
      /\ faults \in Nat
  BY StartupAssumption DEF StartupTypeOK, FeedbackTypeOK
<1>2. /\ offer.table \in Seq(Entry) /\ offer.table # None
      /\ Len(offer.tranches) \in Nat
      /\ Len(FeedbackEvents(offer)) = Len(offer.tranches) + 2
  BY FeedbackEventsAre, FeedbackAssumption DEF Entry
<1>3. CASE n = 0
  <2>1. e.type = "main_device" /\ e.arg = offer.device
    <3>1. e = FeedbackEvents(offer)[1]
      BY <1>3
    <3> HIDE DEF e
    <3>2. e = Message("main_device", offer.device)
      BY <3>1, FeedbackEventsAre
    <3> QED
      BY <3>2 DEF Message
  <2>2. OnMainDevice(offer.device)
    BY <2>1 DEF OnFeedback
  <2> QED
    BY <1>3, <2>2 DEF OnMainDevice, Handled
<1>4. CASE n = 1
  <2>1. e.type = "format_table" /\ e.arg = offer.table
    <3>1. e = FeedbackEvents(offer)[2]
      BY <1>4
    <3> HIDE DEF e
    <3>2. e = Message("format_table", offer.table)
      BY <3>1, FeedbackEventsAre
    <3> QED
      BY <3>2 DEF Message
  <2>2. /\ main_device' = main_device /\ dmabuf_formats' = <<>>
        /\ main_device = offer.device
        /\ \/ format_table' = offer.table
           \/ format_table' = None /\ faults' > 0
    BY <1>1, <1>4, <2>1
    DEF OnFeedback, OnFormatTable, OnFormatTableFails, Handled
  <2>3. InOrder(dmabuf_formats', OfferPlaces(0))
    <3>1. OfferPlaces(0) = {}
      BY DEF OfferPlaces
    <3> QED
      BY <2>2, <3>1 DEF InOrder
  <2>4. InOrder(dmabuf_formats, OfferPlaces(0))'
    BY <2>3, PlacesStay
  <2> QED
    BY <1>4, <2>2, <2>4 DEF Handled
<1>5. CASE n >= 2
  <2> DEFINE k == n - 2
  <2>1. /\ k \in Nat /\ k + 1 \in 1..Len(offer.tranches)
        /\ (k + 1) + 2 = n + 1 /\ (n + 1) - 2 = k + 1
    BY <1>2, <1>5
  <2>2. e.type = "tranche_formats" /\ e.arg = offer.tranches[k + 1]
    <3>1. e = FeedbackEvents(offer)[(k + 1) + 2]
      BY <2>1
    <3> HIDE DEF k, e
    <3>2. e = Message("tranche_formats", offer.tranches[k + 1])
      BY <2>1, <3>1, FeedbackEventsAre
    <3> QED
      BY <3>2 DEF Message
  <2>3. /\ dmabuf_formats' = AddTranche(dmabuf_formats, format_table,
                                        offer.tranches[k + 1])
        /\ UNCHANGED <<main_device, format_table, faults>>
    BY <2>2 DEF OnFeedback, OnTrancheFormats
  <2>4. /\ main_device' = offer.device
        /\ \/ format_table' = offer.table
           \/ format_table' = None /\ faults' > 0
    BY <1>5, <2>3 DEF Handled
  <2>5. CASE format_table = None
    <3>1. offer.tranches[k + 1] \in Tranche
      <4>1. offer.tranches \in Seq(Tranche)
        BY FeedbackEventsAre
      <4> QED
        BY <2>1, <4>1
    <3>2. dmabuf_formats' = <<>>
      BY <1>1, <2>3, <2>5, <3>1, NothingWithoutTable DEF Handled
    <3> QED
      BY <1>5, <2>3, <2>4, <2>5, <3>2 DEF Handled
  <2>6. CASE format_table # None
    <3>1. format_table = offer.table /\ InOrder(dmabuf_formats, OfferPlaces(k))
      BY <1>5, <2>6 DEF Handled
    <3>2. InOrder(dmabuf_formats', OfferPlaces(k + 1))
      <4>1. k < Len(offer.tranches)
        BY <1>2, <2>1
      <4> HIDE DEF k
      <4>2. InOrder(AddTranche(dmabuf_formats, offer.table,
                               offer.tranches[k + 1]), OfferPlaces(k + 1))
        BY <1>1, <2>1, <3>1, <4>1, TrancheInOrder
      <4> QED
        BY <2>3, <3>1, <4>2
    <3>3. InOrder(dmabuf_formats, OfferPlaces(k + 1))'
      BY <3>2, PlacesStay
    <3> QED
      BY <1>5, <2>1, <2>3, <2>4, <2>6, <3>3 DEF Handled
  <2> QED
    BY <2>5, <2>6
<1> QED
  BY <1>3, <1>4, <1>5

(***************************************************************************)
(* A table once mapped stays.                                              *)
(***************************************************************************)
LEMMA TableStays ==
    ASSUME offer \in Feedbacks,
           NEW n \in Nat, n + 1 <= Len(FeedbackEvents(offer)), Handled(n),
           OnFeedback(FeedbackEvents(offer)[n + 1]), format_table # None
    PROVE  format_table' = format_table
<1> DEFINE e == FeedbackEvents(offer)[n + 1]
           k == n - 2
<1>1. n >= 2
  <2>1. n < 2 => format_table = None
    BY Zenon DEF Handled
  <2> QED
    BY <2>1
<1>2. /\ k \in Nat /\ k + 1 \in 1..Len(offer.tranches)
      /\ n + 1 = (k + 1) + 2
  <2>1. /\ Len(FeedbackEvents(offer)) = Len(offer.tranches) + 2
        /\ Len(offer.tranches) \in Nat
    BY FeedbackEventsAre
  <2> QED
    BY <1>1, <2>1
<1>3. e.type = "tranche_formats"
  <2>1. e = FeedbackEvents(offer)[(k + 1) + 2]
    BY <1>2
  <2> HIDE DEF k, e
  <2>2. e = Message("tranche_formats", offer.tranches[k + 1])
    BY <1>2, <2>1, FeedbackEventsAre
  <2> QED
    BY <2>2 DEF Message
<1> QED
  BY <1>3 DEF OnFeedback, OnTrancheFormats

-----------------------------------------------------------------------------
(* The formats advertised.                                                 *)

(***************************************************************************)
(* With what the handlers have made of the events read so far.             *)
(***************************************************************************)
HandledInv == FeedbackInv /\ FeedbackHandled

(***************************************************************************)
(* Calls that have failed stay so.                                         *)
(***************************************************************************)
LEMMA FaultsGrow ==
    ASSUME StartupTypeOK, [Next]_vars
    PROVE  faults \in Nat /\ faults' >= faults
<1>1. faults \in Nat
  BY StartupAssumption DEF StartupTypeOK
<1>2. faults' \in {faults, faults + 1}
  <2>1. CASE HandleEvent
    BY <2>1 DEF HandleEvent, OnGlobal, OnFeedback
  <2>2. CASE StepFails
    BY <2>2 DEF StepFails
  <2>3. CASE NextRequest \/ LateGlobal \/ AtRest \/ UNCHANGED vars
    BY <2>3 DEF NextRequest, LateGlobal, AtRest, vars
  <2>4. CASE Flush \/ (\E n \in 1..Len(events) : Read(n)) \/ ReadError
               \/ RoundtripReturns
    BY <2>4 DEF Flush, Read, ReadError, RoundtripReturns
  <2>5. CASE ChooseDevice \/ NewRenderer \/ NegotiateFormat \/ ImportTimeline
               \/ InitWindow \/ BuildPipeline
    BY <2>5 DEF ChooseDevice, NewRenderer, NegotiateFormat, ImportTimeline,
       InitWindow, BuildPipeline
  <2> QED
    BY <2>1, <2>2, <2>3, <2>4, <2>5 DEF Next, Main
<1> QED
  BY <1>1, <1>2

(***************************************************************************)
(* Steps that do not touch the feedback.                                   *)
(***************************************************************************)
LEMMA HandledIdle ==
    ASSUME HandledInv, [Next]_vars, Unhandled' = Unhandled,
           UNCHANGED <<feedbackVars, offer>>
    PROVE  FeedbackHandled'
<1>1. /\ faults \in Nat /\ faults' >= faults /\ faults' \in Nat
  <2>1. StartupTypeOK /\ StartupTypeOK'
    BY FeedbackStep DEF HandledInv, FeedbackInv, RegistryInv
  <2> QED
    BY <2>1, FaultsGrow, StartupAssumption DEF StartupTypeOK
<1>2. UNCHANGED <<main_device, format_table, dmabuf_formats, offer>>
  BY DEF feedbackVars
<1>3. FeedbackEvents(offer)' = FeedbackEvents(offer)
  BY <1>2 DEF FeedbackEvents
<1>4. ASSUME NEW n, Handled(n) PROVE Handled(n)'
  <2>1. InOrder(dmabuf_formats, OfferPlaces(n - 2))
           => InOrder(dmabuf_formats, OfferPlaces(n - 2))'
    BY <1>2, PlacesStay
  <2> QED
    BY <1>1, <1>2, <1>4, <2>1 DEF Handled
<1> QED
  BY <1>2, <1>3, <1>4 DEF HandledInv, FeedbackHandled

(***************************************************************************)
(* The handler of the first event of the feedback that is left.            *)
(***************************************************************************)
LEMMA HandledFeedback ==
    ASSUME HandledInv, HandleEvent,
           OnFeedback(inbox[1]), inbox[1] \in EventMessage,
           Unhandled' \in Seq(EventMessage),
           Unhandled = <<inbox[1]>> \o Unhandled'
    PROVE  /\ FeedbackHandled'
           /\ format_table # None => format_table' = format_table
<1> DEFINE FE == FeedbackEvents(offer)
           h == inbox[1]
           t == Unhandled'
<1>1. FeedbackInv /\ FeedbackHandled /\ StartupTypeOK
  BY DEF HandledInv, FeedbackInv, RegistryInv
<1>2. /\ OnFeedback(h) /\ h \in EventMessage /\ t \in Seq(EventMessage)
      /\ Unhandled = <<h>> \o t
  OBVIOUS
<1>3. UNCHANGED offer
  BY DEF HandleEvent, compositorVars
<1> HIDE DEF h, t
<1>4. Unhandled # <<>>
  <2>1. <<h>> \o t # <<>>
    BY <1>2
  <2> QED
    BY <1>2, <2>1
<1>5. offer # None /\ offer \in Feedbacks
  BY <1>1, <1>4 DEF FeedbackInv, NothingYet, StartupTypeOK
<1>6. FE \in Seq(EventMessage)
  <2>1. FE \in Seq({e \in EventMessage : e.type \in FeedbackTypes})
    BY <1>5, FeedbackEventsAre
  <2>2. {e \in EventMessage : e.type \in FeedbackTypes} \subseteq EventMessage
    OBVIOUS
  <2> QED
    BY <2>1, <2>2, SeqMonotonic
<1>7. PICK n \in 0..Len(FE) :
         /\ Unhandled = SubSeq(FE, n + 1, Len(FE))
         /\ Handled(n)
  BY <1>1, <1>5 DEF FeedbackHandled
<1>8. /\ n + 1 \in 1..Len(FE) /\ h = FE[n + 1]
      /\ t = SubSeq(FE, n + 2, Len(FE))
  <2> HIDE DEF FE
  <2> QED
    BY <1>2, <1>6, <1>7, NextOfRest
<1>9. n \in Nat /\ n + 1 <= Len(FE) /\ (n + 1) + 1 = n + 2
      /\ n + 1 \in 0..Len(FE)
  BY <1>7, <1>8
<1>10. Handled(n + 1)'
  BY <1>1, <1>2, <1>3, <1>5, <1>7, <1>8, <1>9, HandledNext
<1>11. format_table # None => format_table' = format_table
  BY <1>2, <1>5, <1>7, <1>8, <1>9, TableStays
<1>12. FeedbackEvents(offer)' = FE
  BY <1>3 DEF FeedbackEvents
<1> DEFINE m == n + 1
<1>13. /\ m \in 0..Len(FE) /\ t = SubSeq(FE, m + 1, Len(FE))
       /\ Handled(m)'
  BY <1>8, <1>9, <1>10
<1> HIDE DEF m, FE
<1>14. FeedbackHandled'
  BY <1>12, <1>13 DEF FeedbackHandled, t
<1> QED
  BY <1>11, <1>14

(***************************************************************************)
(* The handlers have made of the feedback what the invariant says, and no  *)
(* step of the two sides disturbs it.                                      *)
(***************************************************************************)
LEMMA HandledStep ==
    ASSUME HandledInv, [Next]_vars
    PROVE  HandledInv'
<1> DEFINE FE == FeedbackEvents(offer)
<1>1. FeedbackInv' /\ FeedbackInv /\ FeedbackHandled /\ StartupTypeOK
  BY FeedbackStep DEF HandledInv, FeedbackInv, RegistryInv
<1>2. ASSUME HandleEvent,
             OnFeedback(inbox[1]), inbox[1] \in EventMessage,
             Unhandled' \in Seq(EventMessage),
             Unhandled = <<inbox[1]>> \o Unhandled'
      PROVE  HandledInv'
  BY <1>1, <1>2, HandledFeedback DEF HandledInv
<1>3. CASE NextRequest
  <2>1. CASE /\ offer = None /\ offer' \in Feedbacks
             /\ Unhandled' = FeedbackEvents(offer')
             /\ UNCHANGED feedbackVars
    <3> DEFINE FN == FeedbackEvents(offer)'
    <3>1. Handled(0)'
      BY <1>1, <2>1 DEF Handled, FeedbackInv, NothingYet, feedbackVars
    <3>2. FN = FeedbackEvents(offer')
      BY DEF FeedbackEvents
    <3>3. FN \in Seq({e \in EventMessage : e.type \in FeedbackTypes})
      BY <2>1, <3>2, FeedbackEventsAre
    <3> HIDE DEF FN
    <3>4. 0 \in 0..Len(FN) /\ SubSeq(FN, 0 + 1, Len(FN)) = FN
      BY <3>3
    <3>5. FeedbackHandled'
      BY <2>1, <3>1, <3>2, <3>4 DEF FeedbackHandled, FN
    <3> QED
      BY <1>1, <3>5 DEF HandledInv
  <2>2. CASE /\ Unhandled' = Unhandled
             /\ UNCHANGED <<feedbackVars, offer>>
    BY <1>1, <2>2, HandledIdle DEF HandledInv
  <2> QED
    BY <1>1, <1>3, <2>1, <2>2, FeedbackAnswer
<1>4. CASE HandleEvent
  <2>1. UNCHANGED offer
    BY <1>4 DEF HandleEvent, compositorVars
  <2>2. CASE UNCHANGED feedbackVars /\ Unhandled' = Unhandled
    BY <1>1, <2>1, <2>2, HandledIdle DEF HandledInv
  <2> QED
    BY <1>1, <1>2, <1>4, <2>2, HandleFeedback DEF FeedbackInv
<1>5. CASE OtherSteps
  BY <1>1, <1>5, HandledIdle, FeedbackOtherSteps DEF HandledInv, FeedbackInv
<1>6. CASE Flush \/ (\E n \in 1..Len(events) : Read(n)) \/ LateGlobal
              \/ UNCHANGED vars
  BY <1>1, <1>6, HandledIdle, FeedbackTransport DEF HandledInv, FeedbackInv
<1> QED
  BY <1>3, <1>4, <1>5, <1>6, StepCases

(***************************************************************************)
(* The order of places.                                                    *)
(***************************************************************************)
LEMMA BeforeTransitive ==
    ASSUME NEW p \in Nat \X Nat, NEW q \in Nat \X Nat, NEW r \in Nat \X Nat,
           NotAfter(p, q), Before(q, r)
    PROVE  Before(p, r)
<1>1. /\ p[1] \in Nat /\ p[2] \in Nat /\ p = <<p[1], p[2]>>
      /\ q[1] \in Nat /\ q[2] \in Nat /\ q = <<q[1], q[2]>>
      /\ r[1] \in Nat /\ r[2] \in Nat /\ r = <<r[1], r[2]>>
  OBVIOUS
<1>2. q[1] # r[1] \/ q[2] # r[2]
  BY <1>1 DEF Before
<1>3. NotAfter(p, r)
  BY <1>1 DEF Before, NotAfter
<1>4. p # r
  <2> SUFFICES ASSUME p = r PROVE FALSE
    OBVIOUS
  <2>1. p[1] = r[1] /\ p[2] = r[2]
    OBVIOUS
  <2> QED
    BY <1>1, <1>2, <2>1 DEF Before, NotAfter
<1> QED
  BY <1>3, <1>4 DEF Before

(***************************************************************************)
(* When each mention of one thing has one of another before it, the first  *)
(* mentions are in that order.                                             *)
(***************************************************************************)
LEMMA FirstsInOrder ==
    ASSUME NEW P \in SUBSET (Nat \X Nat), NEW Q \in SUBSET (Nat \X Nat),
           Q # {}, \A q \in Q : \E p \in P : Before(p, q)
    PROVE  Before(First(P), First(Q))
<1>1. First(Q) \in Q
  BY FirstMember
<1>2. PICK p \in P : Before(p, First(Q))
  BY <1>1
<1>3. First(P) \in P /\ NotAfter(First(P), p)
  BY <1>2, FirstMember
<1>4. First(P) \in Nat \X Nat /\ p \in Nat \X Nat /\ First(Q) \in Nat \X Nat
  BY <1>1, <1>3
<1> HIDE DEF First
<1> QED
  BY <1>2, <1>3, <1>4, BeforeTransitive

(***************************************************************************)
(* The places of an offer are pairs of numbers, and name entries.          *)
(***************************************************************************)
LEMMA OfferPlacesTyped ==
    ASSUME offer \in Feedbacks, NEW k \in 0..Len(offer.tranches)
    PROVE  /\ OfferPlaces(k) \in SUBSET (Nat \X Nat)
           /\ \A p \in OfferPlaces(k) :
                 /\ EntryAt(p) \in Entry
                 /\ EntryAt(p).format \in KnownFourccs
<1> DEFINE T == offer.tranches
<1>1. T \in Seq(Tranche) /\ offer.table \in Seq(Entry)
  BY FeedbackEventsAre
<1>2. ASSUME NEW p \in OfferPlaces(k)
      PROVE  /\ p \in Nat \X Nat
             /\ EntryAt(p) \in Entry /\ EntryAt(p).format \in KnownFourccs
  <2>1. PICK t \in 1..k : p \in {t} \X DOMAIN T[t]
    BY DEF OfferPlaces
  <2>2. T[t] \in Tranche /\ t \in Nat
    BY <1>1
  <2>3. /\ p = <<t, p[2]>> /\ p[2] \in DOMAIN T[t]
        /\ T[p[1]][p[2]] < Len(offer.table)
        /\ EntryAt(p).format \in KnownFourccs
    BY <2>1 DEF OfferPlaces
  <2>4. p[2] \in Nat /\ T[t][p[2]] \in Nat /\ p[1] = t
    BY <2>2, <2>3 DEF Tranche
  <2>5. T[p[1]][p[2]] + 1 \in 1..Len(offer.table)
    BY <1>1, <2>3, <2>4
  <2> DEFINE i == T[p[1]][p[2]] + 1
             table == offer.table
  <2>6. i \in DOMAIN table /\ table \in Seq(Entry) /\ EntryAt(p) = table[i]
    BY <1>1, <2>5 DEF EntryAt
  <2> HIDE DEF i, table
  <2>7. EntryAt(p) \in Entry
    BY <2>6
  <2>8. p \in Nat \X Nat
    BY <2>2, <2>3, <2>4
  <2> QED
    BY <2>3, <2>7, <2>8
<1> QED
  BY <1>2

(***************************************************************************)
(* A list in order lists the offers.                                       *)
(***************************************************************************)
LEMMA InOrderLists ==
    ASSUME StartupTypeOK, offer \in Feedbacks,
           NEW k \in 0..Len(offer.tranches),
           InOrder(dmabuf_formats, OfferPlaces(k))
    PROVE  Lists(k)
<1> DEFINE P == OfferPlaces(k)
           F == dmabuf_formats
           pair(i, m) == PairAt(F, <<i, m>>)
<1>1. /\ P \in SUBSET (Nat \X Nat)
      /\ \A p \in P : EntryAt(p) \in Entry
  BY OfferPlacesTyped
<1>2. F \in FormatLists
  BY DEF StartupTypeOK, FeedbackTypeOK
<1>3. \A p \in P : \A i, m : Names(p, F, i, m) <=> EntryAt(p) = pair(i, m)
  <2> TAKE p \in P
  <2> TAKE i, m
  <2>1. PICK f \in Fourccs, d \in Modifiers :
           EntryAt(p) = [format |-> f, modifier |-> d]
    BY <1>1 DEF Entry
  <2> QED
    BY <2>1 DEF Names, PairAt
<1>4. /\ \A p \in P : \E i \in DOMAIN F : \E m \in DOMAIN F[i].modifiers :
            EntryAt(p) = pair(i, m)
      /\ \A i \in DOMAIN F :
            /\ F[i].modifiers # <<>>
            /\ \A m \in DOMAIN F[i].modifiers :
                  \E p \in P : EntryAt(p) = pair(i, m)
      /\ \A i, j \in DOMAIN F : \A q \in P :
            i < j /\ EntryAt(q).format = F[j].code =>
               \E p \in P : EntryAt(p).format = F[i].code /\ Before(p, q)
      /\ \A i \in DOMAIN F : \A m, n \in DOMAIN F[i].modifiers : \A q \in P :
            m < n /\ EntryAt(q) = pair(i, n) =>
               \E p \in P : EntryAt(p) = pair(i, m) /\ Before(p, q)
  <2> HIDE DEF pair, P
  <2> QED
    BY <1>3 DEF InOrder, P
<1>5. \A i \in DOMAIN F : \E p \in P : EntryAt(p).format = F[i].code
  <2> TAKE i \in DOMAIN F
  <2> DEFINE ms == F[i].modifiers
  <2>1. ms \in Seq(Modifiers) /\ ms # <<>>
    BY <1>2, <1>4, FormatAt
  <2> HIDE DEF ms
  <2>2. 1 \in DOMAIN ms
    BY <2>1
  <2>3. PICK p \in P : EntryAt(p) = pair(i, 1)
    BY <1>4, <2>2 DEF ms
  <2> QED
    BY <2>3 DEF PairAt
<1>6. {PairAt(F, p) : p \in Places(F)} = {EntryAt(p) : p \in P}
  <2>1. \A p \in Places(F) : \E q \in P : PairAt(F, p) = EntryAt(q)
    <3> TAKE p \in Places(F)
    <3>1. PICK i \in DOMAIN F : p \in {i} \X DOMAIN F[i].modifiers
      BY DEF Places
    <3>2. PICK m \in DOMAIN F[i].modifiers : p = <<i, m>>
      BY <3>1
    <3> HIDE DEF P
    <3> QED
      BY <1>4, <3>2
  <2>2. \A q \in P : \E p \in Places(F) : EntryAt(q) = PairAt(F, p)
    <3> TAKE q \in P
    <3>1. PICK i \in DOMAIN F : \E m \in DOMAIN F[i].modifiers :
             EntryAt(q) = pair(i, m)
      BY <1>4
    <3>2. PICK m \in DOMAIN F[i].modifiers : EntryAt(q) = pair(i, m)
      BY <3>1
    <3>3. <<i, m>> \in Places(F)
      BY <3>2 DEF Places
    <3> QED
      BY <3>2, <3>3
  <2> HIDE DEF P, F
  <2> QED
    BY <2>1, <2>2
<1>7. ASSUME NEW i \in DOMAIN F, NEW j \in DOMAIN F, i < j
      PROVE  Before(FirstOfFormat(k, F[i].code), FirstOfFormat(k, F[j].code))
  <2> DEFINE A == {p \in P : EntryAt(p).format = F[i].code}
             B == {p \in P : EntryAt(p).format = F[j].code}
  <2>1. A \in SUBSET (Nat \X Nat) /\ B \in SUBSET (Nat \X Nat)
    BY <1>1
  <2>2. B # {} /\ \A q \in B : \E p \in A : Before(p, q)
    BY <1>4, <1>5, <1>7
  <2> HIDE DEF A, B
  <2>3. Before(First(A), First(B))
    BY <2>1, <2>2, FirstsInOrder
  <2> QED
    BY <2>3 DEF FirstOfFormat, A, B
<1>8. ASSUME NEW i \in DOMAIN F, NEW m \in DOMAIN F[i].modifiers,
             NEW n \in DOMAIN F[i].modifiers, m < n
      PROVE  Before(FirstOfPair(k, pair(i, m)), FirstOfPair(k, pair(i, n)))
  <2> DEFINE A == {p \in P : EntryAt(p) = pair(i, m)}
             B == {p \in P : EntryAt(p) = pair(i, n)}
  <2>1. A \in SUBSET (Nat \X Nat) /\ B \in SUBSET (Nat \X Nat)
    BY <1>1
  <2>2. B # {} /\ \A q \in B : \E p \in A : Before(p, q)
    BY <1>4, <1>8
  <2> HIDE DEF A, B
  <2>3. Before(First(A), First(B))
    BY <2>1, <2>2, FirstsInOrder
  <2> QED
    BY <2>3 DEF FirstOfPair, A, B
<1> QED
  BY <1>6, <1>7, <1>8, Zenon DEF Lists

(***************************************************************************)
(* Nothing is handled before the feedback is there.                        *)
(***************************************************************************)
LEMMA HandledStart ==
    ASSUME Init
    PROVE  HandledInv
BY FeedbackStart DEF HandledInv, FeedbackHandled, Init

(***************************************************************************)
(* The formats are those of the tranches handled so far.                   *)
(***************************************************************************)
LEMMA HandledSoFar ==
    ASSUME HandledInv, offer # None
    PROVE  /\ offer \in Feedbacks /\ StartupTypeOK
           /\ Len(offer.tranches) \in Nat
           /\ HandledTranches \in 0..Len(offer.tranches)
           /\ InOrder(dmabuf_formats, OfferPlaces(HandledTranches))
           /\ Lists(HandledTranches)
           /\ Unhandled = <<>> => /\ HandledTranches = AllTranches
                                  /\ main_device = offer.device
<1> DEFINE FE == FeedbackEvents(offer)
           T == Len(offer.tranches)
           k == HandledTranches
<1>1. StartupTypeOK /\ offer \in Feedbacks
  BY DEF HandledInv, FeedbackInv, RegistryInv, StartupTypeOK
<1>2. /\ FE \in Seq({e \in EventMessage : e.type \in FeedbackTypes})
      /\ T \in Nat /\ Len(FE) = T + 2
  BY <1>1, FeedbackEventsAre
<1>3. PICK n \in 0..Len(FE) :
         Unhandled = SubSeq(FE, n + 1, Len(FE)) /\ Handled(n)
  BY DEF HandledInv, FeedbackHandled
<1>4. /\ main_device = IF n >= 1 THEN offer.device ELSE None
      /\ n < 2 => format_table = None
      /\ IF format_table = None THEN dmabuf_formats = <<>>
         ELSE InOrder(dmabuf_formats, OfferPlaces(n - 2))
  BY Zenon, <1>3 DEF Handled
<1>5. Len(Unhandled) = Len(FE) - n /\ (Unhandled = <<>> => n = Len(FE))
  <2> HIDE DEF FE
  <2>1. Len(SubSeq(FE, n + 1, Len(FE))) = Len(FE) - n
    BY <1>2, <1>3
  <2>2. Unhandled = <<>> => Len(Unhandled) = 0
    OBVIOUS
  <2> QED
    BY <1>2, <1>3, <2>1, <2>2
<1> HIDE DEF FE, T, k
<1>6. /\ k \in 0..T
      /\ InOrder(dmabuf_formats, OfferPlaces(k))
      /\ Unhandled = <<>> => k = AllTranches
  <2>1. CASE format_table = None
    <3>1. k = 0 /\ AllTranches = 0
      BY <2>1 DEF k, HandledTranches, AllTranches
    <3>2. OfferPlaces(0) = {}
      BY DEF OfferPlaces
    <3>3. InOrder(dmabuf_formats, OfferPlaces(0))
      BY <1>4, <2>1, <3>2 DEF InOrder
    <3> QED
      BY <1>2, <3>1, <3>3
  <2>2. CASE format_table # None
    <3>1. ~(n < 2)
      BY <1>4, <2>2
    <3>2. k = T - Len(Unhandled) /\ AllTranches = T
      BY <2>2 DEF k, HandledTranches, AllTranches, T
    <3>3. k = n - 2 /\ k \in 0..T /\ (n = Len(FE) => k = T)
      BY <1>2, <1>3, <1>5, <3>1, <3>2
    <3>4. InOrder(dmabuf_formats, OfferPlaces(n - 2))
      BY <1>4, <2>2
    <3> QED
      BY <1>5, <3>2, <3>3, <3>4
  <2> QED
    BY <2>1, <2>2
<1>7. Unhandled = <<>> => main_device = offer.device
  <2>1. n = Len(FE) => n >= 1
    BY <1>2, <1>3
  <2> QED
    BY <1>4, <1>5, <2>1
<1>8. Lists(k)
  BY <1>1, <1>6, InOrderLists DEF T
<1> QED
  BY <1>1, <1>2, <1>6, <1>7, <1>8 DEF T, k

(***************************************************************************)
(* Their number, in any state.                                             *)
(***************************************************************************)
LEMMA HandledNumber ==
    HandledInv /\ offer # None => HandledTranches \in Nat
BY HandledSoFar

(***************************************************************************)
(* Only a handler adds to them.                                            *)
(***************************************************************************)
LEMMA HandledGrows ==
    ASSUME HandledInv, [Next]_vars, offer # None
    PROVE  /\ offer' = offer
           /\ HandledTranches <= HandledTranches'
           /\ ~HandleEvent => /\ HandledTranches' = HandledTranches
                              /\ UNCHANGED feedbackVars
<1> DEFINE k == HandledTranches
           T == Len(offer.tranches)
<1>1. RegistryInv /\ FeedbackInv
  BY DEF HandledInv, FeedbackInv
<1>2. k \in Nat
  BY HandledSoFar
<1>3. ASSUME Unhandled' = Unhandled, UNCHANGED <<feedbackVars, offer>>
      PROVE  offer' = offer /\ k' = k /\ UNCHANGED feedbackVars
  BY <1>3 DEF HandledTranches, feedbackVars
<1>4. CASE HandleEvent
  <2>1. offer' = offer
    BY <1>4 DEF HandleEvent, compositorVars
  <2>2. k' \in Nat /\ T \in Nat
    <3>1. HandledInv' /\ offer' # None
      BY <2>1, HandledStep
    <3>2. (HandledInv /\ offer # None => HandledTranches \in Nat)'
      BY HandledNumber, PTL
    <3> QED
      BY <3>1, <3>2, HandledSoFar
  <2>3. CASE /\ OnFeedback(inbox[1]) /\ inbox[1] \in EventMessage
             /\ Unhandled' \in Seq(EventMessage)
             /\ Unhandled = <<inbox[1]>> \o Unhandled'
    <3>1. format_table # None => format_table' = format_table
      BY <1>4, <2>3, HandledFeedback
    <3>2. Len(Unhandled) = 1 + Len(Unhandled') /\ Len(Unhandled') \in Nat
      <4> DEFINE h == inbox[1]
                 t == Unhandled'
      <4>1. /\ h \in EventMessage /\ t \in Seq(EventMessage)
            /\ Unhandled = <<h>> \o t
        BY <2>3
      <4> HIDE DEF h, t
      <4>2. Len(Unhandled) = 1 + Len(t) /\ Len(t) \in Nat
        BY <4>1
      <4> QED
        BY <4>2 DEF t
    <3>3. CASE format_table = None
      <4>1. k = 0
        BY <3>3 DEF HandledTranches
      <4> HIDE DEF k
      <4> QED
        BY <1>4, <2>1, <2>2, <4>1 DEF k
    <3>4. CASE format_table # None
      <4>1. k = T - Len(Unhandled) /\ k' = T - Len(Unhandled')
        BY <2>1, <3>1, <3>4 DEF HandledTranches
      <4> HIDE DEF k, T
      <4>2. k <= k'
        BY <2>2, <3>2, <4>1
      <4> QED
        BY <1>4, <2>1, <4>2 DEF k
    <3> QED
      BY <3>3, <3>4
  <2>4. CASE UNCHANGED feedbackVars /\ Unhandled' = Unhandled
    <3>1. offer' = offer /\ k' = k
      BY <1>3, <2>1, <2>4
    <3> HIDE DEF k
    <3>2. k <= k'
      BY <1>2, <3>1
    <3> QED
      BY <1>4, <3>1, <3>2 DEF k
  <2> QED
    BY <1>1, <1>4, <2>3, <2>4, HandleFeedback
<1>5. CASE ~HandleEvent
  <2>1. Unhandled' = Unhandled /\ UNCHANGED <<feedbackVars, offer>>
    <3>1. CASE NextRequest
      BY <1>1, <3>1, FeedbackAnswer
    <3>2. CASE Flush \/ (\E n \in 1..Len(events) : Read(n)) \/ LateGlobal
                  \/ UNCHANGED vars
      BY <1>1, <3>2, FeedbackTransport
    <3>3. CASE OtherSteps
      BY <1>1, <3>3, FeedbackOtherSteps
    <3> QED
      BY <1>5, <3>1, <3>2, <3>3, StepCases
  <2>2. offer' = offer /\ k' = k /\ UNCHANGED feedbackVars
    BY <1>3, <2>1
  <2> HIDE DEF k
  <2>3. k <= k'
    BY <1>2, <2>2
  <2> QED
    BY <2>2, <2>3 DEF k
<1> QED
  BY <1>4, <1>5

(***************************************************************************)
(* The formats advertised are, in tranche order (dmabuf.rs:80), those of   *)
(* exactly the tranches handled so far, however these repeat entries,      *)
(* point past the table or name unknown formats (add_wayland_modifier);    *)
(* without a table there are none.                                         *)
(***************************************************************************)
THEOREM TrancheOrder == Spec => []AdvertisesInTrancheOrder
<1>1. Init => HandledInv
  BY HandledStart
<1>2. HandledInv /\ [Next]_vars => HandledInv'
  BY HandledStep
<1>3. HandledInv => AdvertisesInTrancheOrder
  <2> SUFFICES ASSUME HandledInv PROVE AdvertisesInTrancheOrder
    OBVIOUS
  <2>1. CASE offer = None
    BY <2>1 DEF AdvertisesInTrancheOrder, HandledInv, FeedbackInv, NothingYet
  <2>2. CASE offer # None
    BY <2>2, HandledSoFar DEF AdvertisesInTrancheOrder
  <2> QED
    BY <2>1, <2>2
<1> QED
  BY <1>1, <1>2, <1>3, PTL DEF Spec

-----------------------------------------------------------------------------
(* The roundtrips.                                                         *)

(***************************************************************************)
(* Counting the messages of a type.                                        *)
(***************************************************************************)
LEMMA CountOf ==
    ASSUME NEW M, NEW s \in Seq(M), NEW t \in Seq(M), NEW type
    PROVE  /\ Count(s, type) \in Nat /\ Count(t, type) \in Nat
           /\ Count(s \o t, type) = Count(s, type) + Count(t, type)
           /\ HasType(s, type) <=> Count(s, type) > 0
<1> DEFINE K == {m \in M : m.type \in {type}}
           a == OfType(s, {type})
           b == OfType(t, {type})
<1>1. a \in Seq(K) /\ b \in Seq(K)
  BY OfTypeKeeps
<1>2. OfType(s \o t, {type}) = a \o b
  BY OfTypeConcat
<1>3. HasType(s, type) <=> a # <<>>
  BY HasTypeFilter
<1> HIDE DEF K, a, b
<1>4. /\ Len(a) \in Nat /\ Len(b) \in Nat /\ Len(a \o b) = Len(a) + Len(b)
  BY <1>1
<1>5. a # <<>> <=> Len(a) > 0
  BY <1>1, <1>4, EmptySeq
<1> QED
  BY <1>2, <1>3, <1>4, <1>5 DEF Count, a, b

(***************************************************************************)
(* One message.                                                            *)
(***************************************************************************)
LEMMA CountOne ==
    ASSUME NEW x, NEW type
    PROVE  Count(<<x>>, type) = IF x.type = type THEN 1 ELSE 0
<1>1. OfType(<<x>>, {type}) = IF x.type \in {type} THEN <<x>> ELSE <<>>
  BY OfTypeOne
<1>2. Len(<<x>>) = 1 /\ Len(<<>>) = 0
  OBVIOUS
<1> QED
  BY <1>1, <1>2 DEF Count

(***************************************************************************)
(* What the handlers send, and leave alone.                                *)
(***************************************************************************)
LEMMA HandleSends ==
    ASSUME RegistryInv, HandleEvent
    PROVE  /\ inbox # <<>> /\ inbox' = Tail(inbox)
           /\ UNCHANGED <<requests, events, stage, done, compositorVars>>
           /\ bound \subseteq bound'
           /\ inbox[1].type = "global" => inbox[1].arg \in bound'
           /\ \E sent \in Seq(RequestMessage) :
                 /\ sendbuf' = sendbuf \o sent
                 /\ ~HasType(sent, "sync")
<1>1. /\ inbox # <<>> /\ inbox' = Tail(inbox) /\ MessagesOK
      /\ UNCHANGED <<requests, events, stage, done, compositorVars>>
  BY DEF HandleEvent, RegistryInv
<1> DEFINE h == inbox[1]
<1>2. h \in EventMessage
  BY <1>1, HandleMoves
<1> HIDE DEF h
<1>3. CASE OnFeedback(h)
  <2>1. h.type # "global" /\ UNCHANGED <<bound, sendbuf>>
    BY <1>3 DEF OnFeedback
  <2>2. /\ <<>> \in Seq(RequestMessage) /\ ~HasType(<<>>, "sync")
    BY DEF HasType
  <2>3. sendbuf \o <<>> = sendbuf
    BY <1>1, QueuesTyped, ConcatEmptySeq
  <2> QED
    BY <1>1, <2>1, <2>2, <2>3 DEF h
<1>4. CASE h.type = "global" /\ OnGlobal(h.arg)
  <2> DEFINE g == h.arg
             bind(v) == Bind(g, v)
             ask == Message("get_default_feedback", None)
             sent == IF g = Dmabuf THEN <<bind(5), ask>> ELSE <<bind(1)>>
  <2>1. g \in Globals
    BY <1>2, <1>4, EventFields
  <2>2. /\ bind(1) \in RequestMessage /\ bind(5) \in RequestMessage
        /\ ask \in RequestMessage
        /\ bind(1).type = "bind" /\ bind(5).type = "bind"
        /\ ask.type = "get_default_feedback"
    BY <2>1, RequestFields DEF PlainRequests, Bind, Message
  <2>3. sendbuf' = sendbuf \o sent /\ bound' = bound \cup {g}
    BY <1>4 DEF OnGlobal, Dmabuf
  <2> HIDE DEF bind, ask
  <2>4. sent \in Seq(RequestMessage)
    BY <2>2
  <2>5. \A i \in DOMAIN sent : sent[i].type # "sync"
    BY <2>2
  <2> HIDE DEF sent
  <2>6. ~HasType(sent, "sync")
    BY <2>5 DEF HasType
  <2> QED
    BY <1>1, <2>3, <2>4, <2>6 DEF h
<1> QED
  BY <1>3, <1>4 DEF HandleEvent, h

(***************************************************************************)
(* A late global is an event at the end.                                   *)
(***************************************************************************)
LEMMA LateSends ==
    ASSUME RegistryInv, LateGlobal
    PROVE  /\ UNCHANGED <<requests, sendbuf, inbox, stage, done, bound, offer,
                          early>>
           /\ \E g \in Globals :
                 /\ events' = events \o <<Message("global", g)>>
                 /\ Message("global", g) \in EventMessage
<1>1. PICK g \in Globals \ announced :
         events' = Append(events, Message("global", g))
  BY DEF LateGlobal
<1> DEFINE e == Message("global", g)
<1>2. e \in EventMessage
  BY EventsTyped
<1>3. events \in Seq(EventMessage)
  BY QueuesTyped DEF RegistryInv
<1> HIDE DEF e
<1>4. Append(events, e) = events \o <<e>>
  BY <1>2, <1>3
<1> QED
  BY <1>1, <1>2, <1>4 DEF e, LateGlobal, mainVars

(***************************************************************************)
(* A roundtrip has its one answer.                                         *)
(***************************************************************************)
LEMMA OneAnswerStep ==
    ASSUME RegistryInv, OneAnswer, [Next]_vars
    PROVE  OneAnswer'
<1> DEFINE U == Count(Up, "sync")
           E == Count(events, "done")
<1>1. /\ MessagesOK /\ StartupTypeOK
      /\ Up \in Seq(RequestMessage) /\ events \in Seq(EventMessage)
  BY QueuesTyped DEF RegistryInv
<1>2. U \in Nat /\ E \in Nat
  BY <1>1, CountOf
<1>3. ASSUME UNCHANGED <<stage, done>>, Up' = Up, events' = events
      PROVE  OneAnswer'
  BY <1>3 DEF OneAnswer, InRoundtrip
<1>4. CASE Flush
  <2>1. Up' = Up
    BY <1>1, <1>4, FlushMoves DEF Flush
  <2> QED
    BY <1>3, <1>4, <2>1 DEF Flush, mainVars
<1>5. ASSUME NEW n \in 1..Len(events), Read(n) PROVE OneAnswer'
  <2>1. PICK batch \in Seq(EventMessage) :
           /\ events = batch \o events'
           /\ done' = (done \/ HasType(batch, "done"))
           /\ MessagesOK' /\ Up' = Up
    BY <1>1, <1>5, ReadMoves
  <2> DEFINE rest == events'
             b == Count(batch, "done")
             c == Count(rest, "done")
  <2>2. rest \in Seq(EventMessage)
    BY <2>1 DEF MessagesOK
  <2>3. events = batch \o rest
    BY <2>1
  <2> HIDE DEF rest
  <2>4. /\ E = b + c /\ b \in Nat /\ c \in Nat
        /\ HasType(batch, "done") <=> b > 0
    BY <2>2, <2>3, CountOf
  <2>5. stage' = stage /\ (InRoundtrip => ~done)
    BY <1>5 DEF Read, Dispatching, InRoundtrip
  <2> HIDE DEF U, E, b, c
  <2>6. InRoundtrip => U + c = IF done' THEN 0 ELSE 1
    <3> SUFFICES ASSUME InRoundtrip PROVE U + c = IF done' THEN 0 ELSE 1
      OBVIOUS
    <3>1. U + E = 1 /\ ~done
      BY <2>5 DEF OneAnswer, U, E
    <3>2. done' <=> b > 0
      BY <2>1, <2>4, <3>1
    <3>3. U + c = IF b > 0 THEN 0 ELSE 1
      BY <1>2, <2>4, <3>1
    <3> QED
      BY <3>2, <3>3
  <2> QED
    BY <2>1, <2>5, <2>6 DEF OneAnswer, InRoundtrip, U, c, rest
<1>6. ASSUME NEW sent \in Seq(RequestMessage), sendbuf' = sendbuf \o sent,
             UNCHANGED <<requests, events>>
      PROVE  Up' = Up \o sent /\ Count(Up', "sync") = U + Count(sent, "sync")
  <2>1. Up' = Up \o sent
    <3>1. UNCHANGED requests
      BY <1>6
    <3> QED
      BY <1>1, <1>6, <3>1, SendMoves
  <2> DEFINE u == Up
  <2>2. u \in Seq(RequestMessage) /\ Up' = u \o sent
    BY <1>1, <2>1
  <2> HIDE DEF u
  <2>3. Count(u \o sent, "sync") = Count(u, "sync") + Count(sent, "sync")
    BY <2>2, CountOf
  <2> QED
    BY <2>2, <2>3 DEF u
<1>7. ASSUME NEW sent \in Seq(RequestMessage), sendbuf' = sendbuf \o sent,
             UNCHANGED <<requests, events, stage, done>>, ~HasType(sent, "sync")
      PROVE  OneAnswer'
  <2>1. Count(sent, "sync") = 0
    BY <1>7, CountOf
  <2>2. Count(Up', "sync") = U + Count(sent, "sync")
    <3>1. UNCHANGED <<requests, events>>
      BY <1>7
    <3> QED
      BY <1>6, <1>7, <3>1
  <2> HIDE DEF U
  <2>3. Count(Up', "sync") = U
    BY <1>2, <2>1, <2>2
  <2> QED
    BY <1>7, <2>3 DEF OneAnswer, InRoundtrip, U
<1>8. CASE HandleEvent
  BY <1>7, <1>8, HandleSends
<1>9. CASE OtherSteps
  <2>1. PICK sent \in Seq(RequestMessage) :
           /\ sendbuf' = sendbuf \o sent
           /\ RoundtripReturns /\ stage = "globals" => sent = <<Sync>>
    BY <1>1, <1>9, OtherStepsSend
  <2>2. UNCHANGED <<requests, events>>
    BY <1>1, <1>9, OtherStepsTyped
  <2>3. InRoundtrip' =>
           RoundtripReturns /\ stage = "globals" /\ stage' = "feedback"
    BY <1>9 DEF OtherSteps, ReadError, RoundtripReturns, ChooseDevice,
       NewRenderer, NegotiateFormat, ImportTimeline, InitWindow,
       BuildPipeline, StepFails, Step, InRoundtrip
  <2>4. CASE InRoundtrip'
    <3>1. done /\ ~done' /\ InRoundtrip
      BY <2>3, <2>4 DEF RoundtripReturns
    <3>2. Count(sent, "sync") = 1
      BY <2>1, <2>3, <2>4, CountOne DEF Sync, Message
    <3>3. Count(Up', "sync") = U + 1
      BY <1>6, <2>1, <2>2, <3>2
    <3>4. U + E = 0
      BY <3>1 DEF OneAnswer
    <3> HIDE DEF U, E
    <3>5. U = 0 /\ E = 0
      BY <1>2, <3>4
    <3> QED
      BY <2>2, <3>1, <3>3, <3>5 DEF OneAnswer, E
  <2> QED
    BY <2>4 DEF OneAnswer
<1>10. CASE NextRequest
  <2> DEFINE r == requests[1]
             later == Up'
             one == <<r>>
  <2>1. /\ requests # <<>> /\ requests' = Tail(requests)
        /\ UNCHANGED sendbuf /\ UNCHANGED <<stage, done>>
    BY <1>10 DEF NextRequest, mainVars
  <2>2. /\ r \in RequestMessage /\ Up = one \o later
        /\ later \in Seq(RequestMessage)
    BY <1>1, <2>1, RequestMoves
  <2>3. PICK sent \in Seq(EventMessage) :
           /\ events' = events \o sent
           /\ IF r.type = "sync"
              THEN sent = <<Message("done", None)>>
              ELSE OfType(sent, {"done"}) = <<>>
    BY <1>1, <1>10, AnswerSends
  <2>4. one \in Seq(RequestMessage)
    BY <2>2
  <2> HIDE DEF later, one, r
  <2>5. /\ U = Count(one, "sync") + Count(later, "sync")
        /\ Count(later, "sync") \in Nat
    BY <2>2, <2>4, CountOf
  <2>6. Count(one, "sync") = IF r.type = "sync" THEN 1 ELSE 0
    BY CountOne DEF one
  <2>7. /\ Count(events \o sent, "done") = E + Count(sent, "done")
    BY <1>1, CountOf
  <2>8. Count(sent, "done") = IF r.type = "sync" THEN 1 ELSE 0
    <3>1. CASE r.type = "sync"
      BY <2>3, <3>1, CountOne DEF Message
    <3>2. CASE r.type # "sync"
      <4>1. Len(<<>>) = 0
        OBVIOUS
      <4> QED
        BY <2>3, <3>2, <4>1 DEF Count
    <3> QED
      BY <3>1, <3>2
  <2>9. Count(Up', "sync") + Count(events', "done") = U + E
    BY <1>2, <2>3, <2>5, <2>6, <2>7, <2>8 DEF later
  <2> QED
    BY <2>1, <2>9 DEF OneAnswer, InRoundtrip
<1>11. CASE LateGlobal
  <2>1. PICK g \in Globals : /\ events' = events \o <<Message("global", g)>>
                             /\ Message("global", g) \in EventMessage
    BY <1>11, LateSends
  <2> DEFINE sent == <<Message("global", g)>>
  <2>2. sent \in Seq(EventMessage) /\ events' = events \o sent
    BY <2>1
  <2>3. Count(sent, "done") = 0
    BY CountOne DEF Message
  <2> HIDE DEF sent
  <2>4. Count(events \o sent, "done") = E + Count(sent, "done")
    BY <1>1, <2>2, CountOf
  <2>5. Count(events', "done") = E
    BY <1>2, <2>2, <2>3, <2>4
  <2>6. Up' = Up /\ UNCHANGED <<stage, done>>
    BY <1>11, LateSends DEF Up
  <2> QED
    BY <2>5, <2>6 DEF OneAnswer, InRoundtrip
<1>12. CASE UNCHANGED vars
  BY <1>3, <1>12 DEF vars, mainVars, Up
<1> QED
  BY <1>4, <1>5, <1>8, <1>9, <1>10, <1>11, <1>12, StepCases

(***************************************************************************)
(* The messages of two queues in a row.                                    *)
(***************************************************************************)
LEMMA JoinedAt ==
    ASSUME NEW M, NEW s \in Seq(M), NEW t \in Seq(M)
    PROVE  /\ s \o t \in Seq(M) /\ Len(s) \in Nat
           /\ \A i \in DOMAIN s : /\ i \in DOMAIN (s \o t) /\ (s \o t)[i] = s[i]
                                  /\ i \in Nat /\ i <= Len(s) /\ s[i] \in M
                                  /\ \A j \in 1..(i - 1) : j \in DOMAIN s
           /\ \A i \in DOMAIN t : /\ Len(s) + i \in DOMAIN (s \o t)
                                  /\ (s \o t)[Len(s) + i] = t[i]
                                  /\ i \in Nat /\ i >= 1 /\ t[i] \in M
           /\ \A i \in DOMAIN (s \o t) :
                 /\ i \in Nat
                 /\ \/ i \in DOMAIN s
                    \/ \E j \in DOMAIN t : i = Len(s) + j
<1> DEFINE q == s \o t
<1>1. /\ q \in Seq(M) /\ Len(q) = Len(s) + Len(t)
      /\ Len(s) \in Nat /\ Len(t) \in Nat
      /\ DOMAIN s = 1..Len(s) /\ DOMAIN t = 1..Len(t)
      /\ DOMAIN q = 1..Len(q)
  OBVIOUS
<1>2. /\ \A i \in 1..Len(s) : q[i] = s[i] /\ s[i] \in M
      /\ \A i \in 1..Len(t) : q[Len(s) + i] = t[i] /\ t[i] \in M
  OBVIOUS
<1> HIDE DEF q
<1>3. \A i \in DOMAIN q : i \in DOMAIN s \/ \E j \in DOMAIN t : i = Len(s) + j
  <2> TAKE i \in DOMAIN q
  <2>1. CASE i <= Len(s)
    BY <1>1, <2>1
  <2>2. CASE i > Len(s)
    <3>1. i - Len(s) \in DOMAIN t /\ i = Len(s) + (i - Len(s))
      BY <1>1, <2>2
    <3> QED
      BY <3>1
  <2> QED
    BY <1>1, <2>1, <2>2
<1>4. \A i \in DOMAIN s : /\ i \in DOMAIN q /\ i \in Nat /\ i <= Len(s)
                         /\ \A j \in 1..(i - 1) : j \in DOMAIN s
  BY <1>1
<1>5. \A i \in DOMAIN t : Len(s) + i \in DOMAIN q /\ i \in Nat /\ i >= 1
  BY <1>1
<1>6. \A i \in DOMAIN q : i \in Nat
  BY <1>1
<1> QED
  BY <1>1, <1>2, <1>3, <1>4, <1>5, <1>6 DEF q

(***************************************************************************)
(* A message ahead of all of a type stays so when more are sent.           *)
(***************************************************************************)
LEMMA AheadSent ==
    ASSUME NEW M, NEW s \in Seq(M), NEW t \in Seq(M), NEW m, NEW type,
           Ahead(s, m, type)
    PROVE  Ahead(s \o t, m, type)
<1>1. PICK i \in DOMAIN s : /\ s[i] = m
                            /\ \A j \in 1..(i - 1) : s[j].type # type
  BY DEF Ahead
<1>2. /\ i \in DOMAIN (s \o t) /\ (s \o t)[i] = m
      /\ \A j \in 1..(i - 1) : j \in DOMAIN s
  BY <1>1, JoinedAt
<1>3. \A j \in 1..(i - 1) : (s \o t)[j] = s[j]
  BY <1>2, JoinedAt
<1> QED
  BY <1>1, <1>2, <1>3 DEF Ahead

(***************************************************************************)
(* It is taken with the first of them, or stays ahead.                     *)
(***************************************************************************)
LEMMA AheadTaken ==
    ASSUME NEW M, NEW s \in Seq(M), NEW t \in Seq(M), NEW m, NEW type,
           Ahead(s \o t, m, type)
    PROVE  \/ \E i \in DOMAIN s : s[i] = m
           \/ ~HasType(s, type) /\ Ahead(t, m, type)
<1> DEFINE q == s \o t
           n == Len(s)
<1>1. PICK i \in DOMAIN q : /\ q[i] = m
                            /\ \A j \in 1..(i - 1) : q[j].type # type
  BY DEF Ahead
<1>2. CASE i \in DOMAIN s
  BY <1>1, <1>2, JoinedAt
<1>3. CASE i \notin DOMAIN s
  <2>1. PICK k \in DOMAIN t : i = n + k
    BY <1>3, JoinedAt
  <2>2. /\ n \in Nat /\ k \in Nat /\ k >= 1 /\ t[k] = m
    BY <1>1, <2>1, JoinedAt
  <2>3. \A j \in DOMAIN s : j \in 1..(i - 1) /\ q[j] = s[j]
    <3>1. DOMAIN s = 1..n
      OBVIOUS
    <3>2. \A j \in DOMAIN s : q[j] = s[j]
      BY JoinedAt
    <3> HIDE DEF q, n
    <3> QED
      BY <2>1, <2>2, <3>1, <3>2
  <2>4. \A j \in 1..(k - 1) : n + j \in 1..(i - 1) /\ q[n + j] = t[j]
    <3>1. \A j \in 1..(k - 1) : j \in DOMAIN t
      <4>1. DOMAIN t = 1..Len(t) /\ Len(t) \in Nat
        OBVIOUS
      <4> QED
        BY <2>2, <4>1
    <3>2. \A j \in DOMAIN t : q[n + j] = t[j]
      <4>1. \A j \in 1..Len(t) : q[n + j] = t[j]
        OBVIOUS
      <4>2. DOMAIN t = 1..Len(t)
        OBVIOUS
      <4> QED
        BY <4>1, <4>2
    <3> HIDE DEF q, n
    <3> QED
      BY <2>1, <2>2, <3>1, <3>2
  <2> HIDE DEF q, n
  <2>5. ~HasType(s, type)
    BY <1>1, <2>3 DEF HasType
  <2>6. \A j \in 1..(k - 1) : t[j].type # type
    BY <1>1, <2>4
  <2> QED
    BY <2>2, <2>5, <2>6 DEF Ahead
<1> QED
  BY <1>2, <1>3

(***************************************************************************)
(* Without any of the type every message is ahead of them.                 *)
(***************************************************************************)
LEMMA AheadOfNone ==
    ASSUME NEW M, NEW s \in Seq(M), NEW type, ~HasType(s, type),
           NEW i \in DOMAIN s
    PROVE  Ahead(s, s[i], type)
<1>1. \A j \in 1..(i - 1) : j \in DOMAIN s
  BY JoinedAt
<1> QED
  BY <1>1 DEF Ahead, HasType

(***************************************************************************)
(* A message is what it is of and what it carries.                         *)
(***************************************************************************)
LEMMA MessageIs ==
    /\ \A e \in EventMessage : e = Message(e.type, e.arg)
    /\ \A r \in RequestMessage : r.type \in PlainRequests =>
                                    r = Message(r.type, None)
<1>1. ASSUME NEW T, NEW A, NEW e \in [type : T, arg : A]
      PROVE  e = Message(e.type, e.arg)
  <2>1. PICK t \in T, a \in A : e = [type |-> t, arg |-> a]
    OBVIOUS
  <2> QED
    BY <2>1 DEF Message
<1>2. \A e \in EventMessage : e = Message(e.type, e.arg)
  <2> TAKE e \in EventMessage
  <2>1. CASE e \in [type : {"global"}, arg : Globals]
    BY <1>1, <2>1
  <2>2. CASE e \in [type : {"main_device"}, arg : Devices]
    BY <1>1, <2>2
  <2>3. CASE e \in [type : {"format_table"}, arg : Seq(Entry)]
    BY <1>1, <2>3
  <2>4. CASE e \in [type : {"tranche_formats"}, arg : Seq(Nat)]
    BY <1>1, <2>4
  <2>5. CASE e \in [type : {"done", "error"}, arg : {None}]
    BY <1>1, <2>5
  <2> QED
    BY <2>1, <2>2, <2>3, <2>4, <2>5 DEF EventMessage
<1>3. \A r \in RequestMessage : r.type \in PlainRequests =>
                                   r = Message(r.type, None)
  <2> TAKE r \in RequestMessage
  <2>1. CASE r \in [type : PlainRequests, arg : {None}]
    <3>1. r = Message(r.type, r.arg) /\ r.arg = None
      BY <1>1, <2>1
    <3> QED
      BY <3>1
  <2>2. CASE r \in [type : {"bind"}, arg : [global : Globals, version : Nat]]
    BY <2>2 DEF PlainRequests
  <2> QED
    BY <2>1, <2>2 DEF RequestMessage
<1> QED
  BY <1>2, <1>3

(***************************************************************************)
(* Before get_registry is read nothing has been sent.                      *)
(***************************************************************************)
LEMMA RegistryUnread ==
    ASSUME RegistryInv, [Next]_vars, RegistryRead', ~RegistryRead
    PROVE  /\ NextRequest /\ requests[1].type = "get_registry"
           /\ events = <<>> /\ ~done
<1>1. MessagesOK /\ HasType(Up, "get_registry") /\ ~HasType(Up', "get_registry")
  BY DEF RegistryInv, RegistryRead
<1>2. ~ (Up' = Up)
  BY <1>1
<1>3. ASSUME NEW sent \in Seq(RequestMessage), sendbuf' = sendbuf \o sent,
             requests' = requests
      PROVE  FALSE
  BY <1>1, <1>3, SendMoves
<1>4. NextRequest
  <2>1. ~Flush
    BY <1>1, <1>2, FlushMoves DEF Flush
  <2>2. ASSUME NEW n \in 1..Len(events), Read(n) PROVE FALSE
    BY <1>1, <1>2, <2>2, ReadMoves
  <2>3. ~HandleEvent
    BY <1>3, HandleSends
  <2>4. ~OtherSteps
    <3> SUFFICES ASSUME OtherSteps PROVE FALSE
      OBVIOUS
    <3>1. requests' = requests
      BY OtherStepsTyped DEF RegistryInv
    <3> QED
      BY <1>1, <1>3, <3>1, OtherStepsSend
  <2>5. ~LateGlobal /\ ~UNCHANGED vars
    BY <1>2, LateSends DEF Up, vars
  <2> QED
    BY <2>1, <2>2, <2>3, <2>4, <2>5, StepCases
<1>5. requests[1].type = "get_registry"
  <2>1. requests # <<>> /\ requests' = Tail(requests) /\ UNCHANGED sendbuf
    BY <1>4 DEF NextRequest
  <2> QED
    BY <1>1, <2>1, RequestMoves
<1>6. events = <<>> /\ ~done
  BY ReadByThen
<1> QED
  BY <1>4, <1>5, <1>6

(***************************************************************************)
(* The roundtrips come one after the other, each once.                     *)
(***************************************************************************)
LEMMA StagesAdvance ==
    ASSUME StartupTypeOK, [Next]_vars
    PROVE  /\ early' = early
           /\ OtherSteps \/ stage' = stage
           /\ stage' = "globals" => stage = "globals" /\ ~OtherSteps
           /\ stage' = "feedback" =>
                 \/ stage = "feedback" /\ ~OtherSteps
                 \/ /\ stage = "globals" /\ RoundtripReturns
                    /\ done /\ ~done' /\ inbox = <<>>
<1>1. CASE OtherSteps
  <2>1. early' = early
    BY <1>1, OtherStepsTyped DEF compositorVars
  <2>2. /\ stage' # "globals"
        /\ stage' = "feedback" => /\ stage = "globals" /\ RoundtripReturns
                                  /\ done /\ ~done' /\ inbox = <<>>
    BY <1>1 DEF OtherSteps, ReadError, RoundtripReturns, ChooseDevice,
       NewRenderer, NegotiateFormat, ImportTimeline, InitWindow,
       BuildPipeline, StepFails, Step, InRoundtrip
  <2> QED
    BY <1>1, <2>1, <2>2
<1>2. CASE ~OtherSteps
  <2>1. stage' = stage /\ early' = early
    <3>1. CASE Flush
      BY <3>1 DEF Flush, mainVars, compositorVars
    <3>2. CASE \E n \in 1..Len(events) : Read(n)
      BY <3>2 DEF Read, compositorVars
    <3>3. CASE HandleEvent
      BY <3>3 DEF HandleEvent, compositorVars
    <3>4. CASE NextRequest \/ LateGlobal
      BY <3>4 DEF NextRequest, LateGlobal, mainVars
    <3>5. CASE UNCHANGED vars
      BY <3>5 DEF vars, mainVars, compositorVars
    <3> QED
      BY <1>2, <3>1, <3>2, <3>3, <3>4, <3>5, StepCases
  <2> QED
    BY <1>2, <2>1
<1> QED
  BY <1>1, <1>2

(***************************************************************************)
(* The globals there at first are announced before the first roundtrip     *)
(* comes back.                                                             *)
(***************************************************************************)
LEMMA GlobalInTimeStep ==
    ASSUME RegistryInv, GlobalInTime, [Next]_vars
    PROVE  GlobalInTime'
<1> SUFFICES ASSUME RegistryRead', stage' = "globals", NEW g \in early'
             PROVE  \/ g \in bound'
                    \/ \E i \in DOMAIN inbox' : inbox'[i] = Message("global", g)
                    \/ /\ ~done'
                       /\ Ahead(events', Message("global", g), "done")
  BY DEF GlobalInTime, Ahead
<1> DEFINE G == Message("global", g)
           Here(q) == \E i \in DOMAIN q : q[i] = G
<1> SUFFICES \/ g \in bound'
             \/ Here(inbox')
             \/ ~done' /\ Ahead(events', G, "done")
  OBVIOUS
<1>1. /\ MessagesOK /\ StartupTypeOK
      /\ g \in early /\ stage = "globals" /\ ~OtherSteps
      /\ events \in Seq(EventMessage) /\ inbox \in Seq(EventMessage)
  BY StagesAdvance, QueuesTyped DEF RegistryInv
<1>2. CASE ~RegistryRead
  <2>1. /\ NextRequest /\ requests[1].type = "get_registry"
        /\ events = <<>> /\ ~done
    BY <1>2, RegistryUnread
  <2>2. PICK sent \in Seq(EventMessage) :
           /\ events' = events \o sent
           /\ OfType(sent, {"global"}) = sent
           /\ ListsOnce(sent, early)
    BY <1>1, <2>1, AnswerSends
  <2>3. events' = sent
    BY <2>1, <2>2, ConcatEmptySeq
  <2>4. PICK i \in DOMAIN sent : sent[i].arg = g
    BY <1>1, <2>2 DEF ListsOnce
  <2>5. \A j \in DOMAIN sent : sent[j] \in EventMessage /\ sent[j].type = "global"
    <3> DEFINE K == {e \in EventMessage : e.type \in {"global"}}
    <3>1. sent \in Seq(K)
      BY <2>2, OfTypeKeeps
    <3>2. \A e \in K : e \in EventMessage /\ e.type = "global"
      OBVIOUS
    <3> HIDE DEF K
    <3>3. \A j \in DOMAIN sent : sent[j] \in K
      BY <3>1
    <3> QED
      BY <3>2, <3>3
  <2>6. sent[i] = G
    BY <2>4, <2>5, MessageIs
  <2>7. ~HasType(sent, "done")
    BY <2>5 DEF HasType
  <2>8. Ahead(sent, G, "done")
    BY <2>2, <2>6, <2>7, AheadOfNone
  <2>9. done' = done
    BY <2>1 DEF NextRequest, mainVars
  <2> QED
    BY <2>1, <2>3, <2>8, <2>9
<1>3. CASE RegistryRead
  <2>1. \/ g \in bound
        \/ Here(inbox)
        \/ ~done /\ Ahead(events, G, "done")
    BY <1>1, <1>3 DEF GlobalInTime
  <2> HIDE DEF G
  <2>2. ASSUME UNCHANGED <<bound, inbox, done>>,
               NEW sent \in Seq(EventMessage), events' = events \o sent
        PROVE  \/ g \in bound'
               \/ Here(inbox')
               \/ ~done' /\ Ahead(events', G, "done")
    BY <1>1, <2>1, <2>2, AheadSent
  <2>3. events \o <<>> = events /\ <<>> \in Seq(EventMessage)
    BY <1>1, ConcatEmptySeq
  <2>4. CASE Flush \/ UNCHANGED vars
    BY <2>2, <2>3, <2>4 DEF Flush, vars, mainVars
  <2>5. ASSUME NEW n \in 1..Len(events), Read(n)
        PROVE  \/ g \in bound'
               \/ Here(inbox')
               \/ ~done' /\ Ahead(events', G, "done")
    <3>1. PICK batch \in Seq(EventMessage) :
             /\ events = batch \o events'
             /\ inbox = <<>> /\ inbox' = OfType(batch, EventTypes)
             /\ done' = (done \/ HasType(batch, "done"))
             /\ MessagesOK'
      BY <1>1, <2>5, ReadMoves
    <3>2. bound' = bound
      BY <2>5 DEF Read
    <3>3. CASE g \in bound
      BY <3>2, <3>3
    <3>4. CASE ~done /\ Ahead(events, G, "done")
      <4> DEFINE rest == events'
      <4>1. rest \in Seq(EventMessage) /\ events = batch \o rest
        BY <3>1 DEF MessagesOK
      <4> HIDE DEF rest
      <4>2. \/ Here(batch)
            \/ ~HasType(batch, "done") /\ Ahead(rest, G, "done")
        BY <3>4, <4>1, AheadTaken
      <4>3. CASE Here(batch)
        <5>1. PICK i \in DOMAIN batch : batch[i] = G
          BY <4>3
        <5>2. batch[i].type \in EventTypes
          BY <5>1 DEF G, Message, EventTypes
        <5>3. \E j \in DOMAIN OfType(batch, EventTypes) :
                 OfType(batch, EventTypes)[j] = batch[i]
          BY <5>2, OfTypeFinds
        <5> QED
          BY <3>1, <5>1, <5>3
      <4>4. CASE ~HasType(batch, "done") /\ Ahead(rest, G, "done")
        <5>1. ~done'
          BY <3>1, <3>4, <4>4
        <5> QED
          BY <4>4, <5>1 DEF rest
      <4> QED
        BY <4>2, <4>3, <4>4
    <3> QED
      BY <2>1, <3>1, <3>3, <3>4
  <2>6. CASE HandleEvent
    <3>1. /\ inbox # <<>> /\ inbox' = Tail(inbox)
          /\ UNCHANGED <<events, done>> /\ bound \subseteq bound'
          /\ inbox[1].type = "global" => inbox[1].arg \in bound'
      BY <2>6, HandleSends
    <3>2. ASSUME NEW i \in DOMAIN inbox, inbox[i] = G
          PROVE  g \in bound' \/ Here(inbox')
      <4>1. CASE i = 1
        BY <3>1, <3>2, <4>1 DEF G, Message
      <4>2. CASE i # 1
        <5>1. i - 1 \in DOMAIN Tail(inbox) /\ Tail(inbox)[i - 1] = inbox[i]
          BY <1>1, <3>1, <3>2, <4>2
        <5> QED
          BY <3>1, <3>2, <5>1
      <4> QED
        BY <4>1, <4>2
    <3>3. Ahead(events', G, "done") = Ahead(events, G, "done")
      BY <3>1
    <3> QED
      BY <2>1, <3>1, <3>2, <3>3
  <2>7. CASE NextRequest
    <3>1. \E sent \in Seq(EventMessage) : events' = events \o sent
      BY <1>1, <2>7, AnswerSends
    <3> QED
      BY <2>2, <2>7, <3>1 DEF NextRequest, mainVars
  <2>8. CASE LateGlobal
    <3>1. UNCHANGED <<bound, inbox, done>>
      BY <2>8, LateSends
    <3>2. PICK late \in Globals :
             /\ events' = events \o <<Message("global", late)>>
             /\ Message("global", late) \in EventMessage
      BY <2>8, LateSends
    <3>3. <<Message("global", late)>> \in Seq(EventMessage)
      BY <3>2
    <3> QED
      BY <2>2, <3>1, <3>2, <3>3
  <2> QED
    BY <1>1, <2>4, <2>5, <2>6, <2>7, <2>8, StepCases
<1> QED
  BY <1>2, <1>3

(***************************************************************************)
(* So they are bound when it comes back.                                   *)
(***************************************************************************)
LEMMA EarlyBoundStep ==
    ASSUME RegistryInv, GlobalInTime, EarlyBound, [Next]_vars
    PROVE  EarlyBound'
<1> SUFFICES ASSUME stage' \notin {"globals", "exited"}
             PROVE  early' \subseteq bound'
  BY DEF EarlyBound
<1>1. /\ early' = early /\ StartupTypeOK
      /\ OtherSteps \/ stage' = stage
  BY StagesAdvance DEF RegistryInv
<1>2. bound \subseteq bound'
  <2>1. CASE HandleEvent
    BY <2>1, HandleSends
  <2>2. CASE OtherSteps
    BY <1>1, <2>2, OtherStepsTyped
  <2>3. CASE Flush \/ (\E n \in 1..Len(events) : Read(n))
    BY <2>3 DEF Flush, Read, mainVars
  <2>4. CASE NextRequest \/ LateGlobal \/ UNCHANGED vars
    BY <2>4 DEF NextRequest, LateGlobal, vars, mainVars
  <2> QED
    BY <2>1, <2>2, <2>3, <2>4, StepCases
<1>3. CASE stage \notin {"globals", "exited"}
  BY <1>1, <1>2, <1>3 DEF EarlyBound
<1>4. CASE stage \in {"globals", "exited"}
  <2>1. OtherSteps
    BY <1>1, <1>4
  <2>2. stage = "globals" /\ RoundtripReturns
    BY <1>4, <2>1 DEF OtherSteps, ReadError, RoundtripReturns, ChooseDevice,
       NewRenderer, NegotiateFormat, ImportTimeline, InitWindow,
       BuildPipeline, StepFails, Step, InRoundtrip, Dispatching
  <2>3. done /\ inbox = <<>>
    BY <2>2 DEF RoundtripReturns
  <2>4. RegistryRead
    BY <2>3, ReadByThen
  <2>5. DOMAIN inbox = {}
    BY <2>3
  <2>6. early \subseteq bound
    BY <2>2, <2>3, <2>4, <2>5 DEF GlobalInTime
  <2> QED
    BY <1>1, <1>2, <2>6
<1> QED
  BY <1>3, <1>4

(***************************************************************************)
(* The compositor hangs up on a version of dmabuf it has not before it     *)
(* reads the request for the feedback.                                     *)
(***************************************************************************)
LEMMA VersionStep ==
    ASSUME FeedbackInv, VersionBound, [Next]_vars
    PROVE  VersionBound'
<1> DEFINE B == Bind(Dmabuf, 5)
           Ask == Message("get_default_feedback", None)
           type == "get_default_feedback"
<1>1. /\ RegistryInv /\ MessagesOK /\ StartupTypeOK /\ FeedbackOnce
      /\ Up \in Seq(RequestMessage) /\ sendbuf \in Seq(RequestMessage)
      /\ events \in Seq(EventMessage)
  BY QueuesTyped DEF FeedbackInv, RegistryInv
<1>2. version' = version
  <2>1. CASE OtherSteps
    BY <1>1, <2>1, OtherStepsTyped DEF compositorVars
  <2>2. CASE Flush \/ (\E n \in 1..Len(events) : Read(n)) \/ HandleEvent
    BY <2>2 DEF Flush, Read, HandleEvent, compositorVars
  <2>3. CASE NextRequest \/ LateGlobal \/ UNCHANGED vars
    BY <2>3 DEF NextRequest, LateGlobal, vars, compositorVars
  <2> QED
    BY <2>1, <2>2, <2>3, StepCases
<1>3. B \in RequestMessage /\ Ask \in RequestMessage
      /\ B.type = "bind" /\ Ask.type = type
  BY RequestFields DEF PlainRequests, Bind, Message, Globals, Dmabuf
<1>4. /\ offer # None => version >= 5
      /\ Asked # <<>> => version >= 5 \/ HungUp \/ Ahead(Up, B, type)
  BY DEF VersionBound
<1>5. /\ offer' # None => version >= 5
      /\ Asked' # <<>> => version >= 5 \/ HungUp' \/ Ahead(Up', B, type)
      => VersionBound'
  BY <1>2 DEF VersionBound, HungUp, HasType, Ahead
<1>6. ASSUME NEW sent \in Seq(RequestMessage), sendbuf' = sendbuf \o sent,
             UNCHANGED <<requests, offer>>, Asked' = Asked,
             HungUp => HungUp'
      PROVE  VersionBound'
  <2>1. UNCHANGED requests
    BY <1>6
  <2>2. Up' = Up \o sent
    BY <1>1, <1>6, <2>1, SendMoves
  <2> HIDE DEF B
  <2>3. Ahead(Up, B, type) => Ahead(Up \o sent, B, type)
    BY <1>1, AheadSent
  <2> QED
    BY <1>4, <1>5, <1>6, <2>2, <2>3
<1>7. ASSUME Up' = Up, UNCHANGED offer, Asked' = Asked, HungUp => HungUp'
      PROVE  VersionBound'
  BY <1>4, <1>5, <1>7
<1> HIDE DEF B
<1>8. CASE Flush \/ LateGlobal \/ UNCHANGED vars
  <2>1. Up' = Up
    BY <1>1, <1>8, FlushMoves, LateSends DEF Flush, vars, Up
  <2>2. Asked' = Asked /\ UNCHANGED offer
    BY <1>1, <1>8, FeedbackTransport
  <2>3. HungUp => HungUp'
    BY <1>8 DEF HungUp, Flush, LateGlobal, vars
  <2> QED
    BY <1>7, <2>1, <2>2, <2>3
<1>9. ASSUME NEW n \in 1..Len(events), Read(n) PROVE VersionBound'
  <2>1. PICK batch \in Seq(EventMessage) :
           /\ events = batch \o events' /\ ~HasType(batch, "error")
           /\ MessagesOK' /\ Up' = Up
    BY <1>1, <1>9, ReadMoves
  <2>2. Asked' = Asked /\ UNCHANGED offer
    BY <1>1, <1>9, FeedbackTransport
  <2> DEFINE rest == events'
  <2>3. rest \in Seq(EventMessage) /\ events = batch \o rest
    BY <2>1 DEF MessagesOK
  <2> HIDE DEF rest
  <2>4. HasType(events, "error") => HasType(rest, "error")
    BY <2>1, <2>3, HasTypeConcat
  <2>5. HungUp => HungUp'
    BY <2>4 DEF HungUp, rest, HasType
  <2> QED
    BY <1>7, <2>1, <2>2, <2>5
<1>10. CASE OtherSteps
  <2>1. PICK sent \in Seq(RequestMessage) : sendbuf' = sendbuf \o sent
    BY <1>1, <1>10, OtherStepsSend
  <2>2. UNCHANGED <<requests, events, offer>> /\ Asked' = Asked
    BY <1>1, <1>10, OtherStepsTyped, FeedbackOtherSteps DEF compositorVars
  <2>3. HungUp => HungUp'
    BY <2>2 DEF HungUp, HasType
  <2> QED
    BY <1>6, <2>1, <2>2, <2>3
<1>11. CASE HandleEvent
  <2>1. UNCHANGED <<requests, events, offer>>
    BY <1>11 DEF HandleEvent, compositorVars
  <2>2. HungUp => HungUp'
    BY <2>1 DEF HungUp, HasType
  <2>3. PICK sent \in Seq(RequestMessage) : sendbuf' = sendbuf \o sent
    BY <1>1, <1>11, HandleSends
  <2>4. CASE Asked' = Asked
    BY <1>6, <2>1, <2>2, <2>3, <2>4
  <2>5. CASE /\ Dmabuf \notin bound /\ Dmabuf \in bound'
    <3>1. OnGlobal(Dmabuf)
      <4>1. \/ OnGlobal(inbox[1].arg) \/ OnFeedback(inbox[1])
        BY <1>11 DEF HandleEvent
      <4>2. ~OnFeedback(inbox[1])
        BY <2>5 DEF OnFeedback
      <4>3. OnGlobal(inbox[1].arg) => inbox[1].arg = Dmabuf
        BY <2>5 DEF OnGlobal
      <4> QED
        BY <4>1, <4>2, <4>3
    <3> DEFINE two == <<B, Ask>>
    <3>2. sendbuf' = sendbuf \o two
      BY <3>1 DEF OnGlobal, Dmabuf, B
    <3> HIDE DEF Ask
    <3>3. /\ two \in Seq(RequestMessage) /\ DOMAIN two = 1..2
          /\ two[1] = B
      BY <1>3
    <3> HIDE DEF two
    <3>4. UNCHANGED requests
      BY <2>1
    <3>5. Up' = Up \o two
      BY <1>1, <3>2, <3>3, <3>4, SendMoves
    <3>6. \A j \in DOMAIN Up : Up[j].type # type
      <4>1. Asked = <<>>
        BY <1>1, <2>5 DEF FeedbackOnce
      <4>2. \A j \in DOMAIN Up : Up[j].type \notin {type}
        BY <1>1, <4>1, OfTypeLeavesNone DEF Asked
      <4> QED
        BY <4>2
    <3> DEFINE u == Up
               at == Len(u) + 1
    <3>7. u \in Seq(RequestMessage)
      BY <1>1
    <3>8. /\ at \in DOMAIN (u \o two) /\ (u \o two)[at] = B
          /\ \A j \in 1..(at - 1) : j \in DOMAIN u /\ (u \o two)[j] = u[j]
      <4> HIDE DEF u
      <4>1. 1 \in DOMAIN two
        BY <3>3
      <4>2. Len(u) \in Nat /\ at - 1 = Len(u)
        BY <3>7
      <4>3. \A j \in 1..Len(u) : j \in DOMAIN u /\ (u \o two)[j] = u[j]
        BY <3>3, <3>7
      <4>4. at \in DOMAIN (u \o two) /\ (u \o two)[at] = two[1]
        BY <3>3, <3>7, <4>1, JoinedAt
      <4> QED
        BY <3>3, <4>2, <4>3, <4>4
    <3>9. Ahead(u \o two, B, type)
      <4> HIDE DEF at
      <4>1. \A j \in 1..(at - 1) : (u \o two)[j].type # type
        BY <3>6, <3>8 DEF u
      <4> HIDE DEF u
      <4> QED
        BY <3>8, <4>1 DEF Ahead
    <3> QED
      BY <1>4, <1>5, <2>1, <3>5, <3>9 DEF u
  <2> QED
    BY <1>1, <1>11, <2>4, <2>5, HandleFeedback
<1>12. CASE NextRequest
  <2> DEFINE r == requests[1]
             later == Up'
             one == <<r>>
  <2>1. /\ requests # <<>> /\ requests' = Tail(requests)
        /\ UNCHANGED sendbuf /\ ~HungUp /\ Answer(r)
    BY <1>12 DEF NextRequest
  <2>2. /\ r \in RequestMessage /\ Up = one \o later
        /\ later \in Seq(RequestMessage)
    BY <1>1, <2>1, RequestMoves
  <2>3. /\ one \in Seq(RequestMessage) /\ DOMAIN one = {1} /\ one[1] = r
    BY <2>2
  <2> HIDE DEF later, one, r
  <2>4. ASSUME Asked # <<>>, ~(version >= 5)
        PROVE  r = B \/ (r.type # type /\ Ahead(later, B, type))
    <3>1. Ahead(one \o later, B, type)
      BY <1>4, <2>1, <2>2, <2>4
    <3>2. \/ \E i \in DOMAIN one : one[i] = B
          \/ ~HasType(one, type) /\ Ahead(later, B, type)
      BY <2>2, <2>3, <3>1, AheadTaken
    <3> QED
      BY <2>3, <3>2 DEF HasType
  <2>5. r.type # type => UNCHANGED offer
    BY <2>1 DEF Answer
  <2>6. ASSUME r = B, ~(version >= 5) PROVE HungUp'
    <3> DEFINE error == Message("error", None)
    <3>1. /\ r.type = "bind" /\ r.arg.global = Dmabuf /\ r.arg.version = 5
      BY <2>6 DEF B, Bind, Message
    <3>2. 5 > version
      <4>1. version \in Nat
        BY <1>1, StartupAssumption DEF StartupTypeOK
      <4> QED
        BY <2>6, <4>1
    <3>3. events' = Append(events, error)
      BY <2>1, <3>1, <3>2 DEF Answer, Dmabuf
    <3>4. error \in EventMessage /\ error.type = "error"
      BY EventsTyped DEF Message
    <3> HIDE DEF error
    <3>5. /\ Len(events) + 1 \in DOMAIN Append(events, error)
          /\ Append(events, error)[Len(events) + 1] = error
      BY <1>1, <3>4
    <3> QED
      BY <3>3, <3>4, <3>5 DEF HungUp, HasType
  <2>7. CASE Asked # <<>> /\ Asked' = <<>> /\ offer = None /\ offer' \in Feedbacks
    <3>1. r.type = type
      BY <2>5, <2>7, StartupAssumption
    <3>2. r # B
      BY <1>3, <3>1
    <3>3. version >= 5
      BY <2>4, <2>7, <3>1, <3>2
    <3> QED
      BY <1>5, <3>3
  <2>8. CASE Asked' = Asked /\ UNCHANGED offer
    <3>1. Asked # <<>> => version >= 5 \/ HungUp' \/ Ahead(Up', B, type)
      BY <2>4, <2>6 DEF later
    <3> QED
      BY <1>4, <1>5, <2>8, <3>1
  <2> QED
    BY <1>12, <2>7, <2>8, FeedbackAnswer
<1> QED
  BY <1>8, <1>9, <1>10, <1>11, <1>12, StepCases

(***************************************************************************)
(* The answer last: of queues in a row.                                    *)
(***************************************************************************)
LEMMA AnswerLastParts ==
    ASSUME NEW M, NEW s \in Seq(M), NEW t \in Seq(M), AnswerLast(s \o t)
    PROVE  /\ AnswerLast(t)
           /\ HasType(s, "done") => OfType(t, FeedbackTypes) = <<>>
<1> DEFINE q == s \o t
           n == Len(s)
<1>1. /\ n \in Nat
      /\ \A i \in DOMAIN s : /\ i \in DOMAIN q /\ q[i] = s[i]
                             /\ i \in Nat /\ i <= n
      /\ \A i \in DOMAIN t : /\ n + i \in DOMAIN q /\ q[n + i] = t[i]
                             /\ i \in Nat /\ i >= 1
  BY SMTT(20), JoinedAt
<1> HIDE DEF q, n
<1>2. AnswerLast(q)
  BY DEF q
<1>3. AnswerLast(t)
  <2> SUFFICES ASSUME NEW i \in DOMAIN t, NEW j \in DOMAIN t,
                      t[i].type = "done", t[j].type \in FeedbackTypes
               PROVE  j < i
    BY DEF AnswerLast
  <2>1. n + j < n + i
    BY <1>1, <1>2 DEF AnswerLast
  <2> QED
    BY <1>1, <2>1
<1>4. ASSUME HasType(s, "done"), NEW j \in DOMAIN t
      PROVE  t[j].type \notin FeedbackTypes
  <2>1. PICK i \in DOMAIN s : s[i].type = "done"
    BY <1>4 DEF HasType
  <2>2. ~(n + j < i)
    BY <1>1
  <2>3. ~(q[n + j].type \in FeedbackTypes)
    BY <1>1, <1>2, <2>1, <2>2 DEF AnswerLast
  <2> QED
    BY <1>1, <2>3
<1> QED
  BY <1>3, <1>4, OfTypeLeavesNone

(***************************************************************************)
(* It stays last while no feedback follows.                                *)
(***************************************************************************)
LEMMA AnswerLastSent ==
    ASSUME NEW M, NEW s \in Seq(M), NEW t \in Seq(M), AnswerLast(s),
           OfType(t, FeedbackTypes) = <<>>
    PROVE  AnswerLast(s \o t)
<1> DEFINE q == s \o t
           n == Len(s)
<1>1. /\ n \in Nat
      /\ \A i \in DOMAIN s : q[i] = s[i] /\ i \in Nat /\ i <= n
      /\ \A i \in DOMAIN t : q[n + i] = t[i] /\ i \in Nat /\ i >= 1
      /\ \A i \in DOMAIN q : \/ i \in DOMAIN s
                             \/ \E j \in DOMAIN t : i = n + j
  BY SMTT(20), JoinedAt
<1>2. \A j \in DOMAIN t : t[j].type \notin FeedbackTypes
  BY OfTypeLeavesNone
<1> HIDE DEF q, n
<1> SUFFICES ASSUME NEW i \in DOMAIN q, NEW j \in DOMAIN q,
                    q[i].type = "done", q[j].type \in FeedbackTypes
             PROVE  j < i
  BY DEF AnswerLast, q
<1>3. j \in DOMAIN s
  BY <1>1, <1>2
<1>4. CASE i \in DOMAIN s
  BY <1>1, <1>3, <1>4 DEF AnswerLast
<1>5. CASE \E k \in DOMAIN t : i = n + k
  BY <1>1, <1>3, <1>5
<1> QED
  BY <1>1, <1>4, <1>5

(***************************************************************************)
(* Before the answer is sent it is last.                                   *)
(***************************************************************************)
LEMMA AnswerLastOpen ==
    ASSUME NEW s, ~HasType(s, "done")
    PROVE  AnswerLast(s)
BY DEF AnswerLast, HasType

(***************************************************************************)
(* The second roundtrip does not come back before the feedback is sent.    *)
(***************************************************************************)
LEMMA FeedbackInTimeStep ==
    ASSUME FeedbackInv, OneAnswer, GlobalInTime, FeedbackInTime, [Next]_vars
    PROVE  FeedbackInTime'
<1> DEFINE Ask == Message("get_default_feedback", None)
           Open(u, e, d) == /\ ~d
                            /\ ~HasType(e, "done")
                            /\ Ahead(u, Ask, "sync")
           Sent(o, e, d) == /\ o # None
                            /\ d => OfType(e, FeedbackTypes) = <<>>
                            /\ AnswerLast(e)
           Goal == /\ Dmabuf \in bound'
                   /\ Open(Up', events', done') \/ Sent(offer', events', done')
<1> SUFFICES ASSUME Dmabuf \in early', stage' = "feedback" PROVE Goal
  BY DEF FeedbackInTime, Ahead, AnswerLast
<1>1. /\ MessagesOK /\ StartupTypeOK /\ FeedbackOnce /\ Dmabuf \in early
      /\ Up \in Seq(RequestMessage) /\ sendbuf \in Seq(RequestMessage)
      /\ events \in Seq(EventMessage) /\ inbox \in Seq(EventMessage)
  BY StagesAdvance, QueuesTyped DEF FeedbackInv, RegistryInv
<1>2. ASSUME NEW r \in RequestMessage, r.type = "get_default_feedback"
      PROVE  r = Ask
  <2>1. r.type \in PlainRequests
    BY <1>2 DEF PlainRequests
  <2> QED
    BY <1>2, <2>1, MessageIs
<1>3. CASE /\ stage = "globals" /\ RoundtripReturns
           /\ done /\ ~done' /\ inbox = <<>>
  <2>1. /\ UNCHANGED <<events, offer, bound, requests>>
        /\ sendbuf' = Append(sendbuf, Sync)
    BY <1>3 DEF RoundtripReturns, compositorVars
  <2>2. RegistryRead
    BY <1>3, ReadByThen DEF FeedbackInv
  <2>3. Dmabuf \in bound
    BY <1>1, <1>3, <2>2 DEF GlobalInTime
  <2>4. ~HasType(Up, "sync") /\ ~HasType(events, "done")
    <3>1. Count(Up, "sync") + Count(events, "done") = 0
      BY <1>3 DEF OneAnswer, InRoundtrip
    <3>2. /\ Count(Up, "sync") \in Nat /\ Count(events, "done") \in Nat
          /\ HasType(Up, "sync") <=> Count(Up, "sync") > 0
          /\ HasType(events, "done") <=> Count(events, "done") > 0
      BY <1>1, CountOf
    <3> QED
      BY <3>1, <3>2
  <2>5. CASE offer # None
    BY <1>3, <2>1, <2>3, <2>4, <2>5, AnswerLastOpen
  <2>6. CASE offer = None
    <3>1. Asked # <<>>
      BY <1>1, <2>3, <2>6 DEF FeedbackOnce
    <3>2. PICK i \in DOMAIN Up : Up[i].type = "get_default_feedback"
      BY <1>1, <3>1, OfTypeLeavesNone DEF Asked
    <3>3. Up[i] \in RequestMessage
      BY <1>1
    <3>4. Up[i] = Ask
      BY <1>2, <3>2, <3>3
    <3>5. Ahead(Up, Ask, "sync")
      BY <1>1, <2>4, <3>4, AheadOfNone
    <3>6. <<Sync>> \in Seq(RequestMessage) /\ sendbuf' = sendbuf \o <<Sync>>
      <4>1. Sync \in RequestMessage
        BY RequestFields DEF Sync, PlainRequests
      <4> QED
        BY <1>1, <2>1, <4>1
    <3>7. Up' = Up \o <<Sync>>
      <4>1. UNCHANGED requests
        BY <2>1
      <4> QED
        BY <1>1, <3>6, <4>1, SendMoves
    <3>8. Ahead(Up \o <<Sync>>, Ask, "sync")
      BY <1>1, <3>5, <3>6, AheadSent
    <3> QED
      BY <1>3, <2>1, <2>3, <2>4, <3>7, <3>8
  <2> QED
    BY <2>5, <2>6
<1>4. CASE stage = "feedback" /\ ~OtherSteps
  <2>1. /\ Dmabuf \in bound
        /\ Open(Up, events, done) \/ Sent(offer, events, done)
    BY <1>1, <1>4 DEF FeedbackInTime
  <2>2. CASE Flush \/ UNCHANGED vars
    <3>1. Up' = Up /\ UNCHANGED <<events, done, offer, bound>>
      BY <1>1, <2>2, FlushMoves DEF Flush, vars, mainVars, compositorVars, Up
    <3> QED
      BY <2>1, <3>1
  <2>3. ASSUME NEW n \in 1..Len(events), Read(n) PROVE Goal
    <3>1. PICK batch \in Seq(EventMessage) :
             /\ events = batch \o events'
             /\ done' = (done \/ HasType(batch, "done"))
             /\ MessagesOK' /\ Up' = Up
      BY <1>1, <2>3, ReadMoves
    <3>2. UNCHANGED <<bound, offer>>
      BY <2>3 DEF Read, compositorVars
    <3> DEFINE rest == events'
    <3>3. rest \in Seq(EventMessage) /\ events = batch \o rest
      BY <3>1 DEF MessagesOK
    <3> HIDE DEF rest
    <3>4. HasType(events, "done")
             <=> HasType(batch, "done") \/ HasType(rest, "done")
      BY <3>3, HasTypeConcat
    <3>5. CASE Open(Up, events, done)
      <4>1. ~done' /\ ~HasType(rest, "done")
        BY <3>1, <3>4, <3>5
      <4> QED
        BY <2>1, <3>1, <3>2, <3>5, <4>1 DEF rest
    <3>6. CASE Sent(offer, events, done)
      <4>1. ~done
        BY <1>4, <2>3 DEF Read, Dispatching, InRoundtrip
      <4>2. /\ AnswerLast(rest)
            /\ HasType(batch, "done") => OfType(rest, FeedbackTypes) = <<>>
        BY <3>3, <3>6, AnswerLastParts
      <4> QED
        BY <2>1, <3>1, <3>2, <3>6, <4>1, <4>2 DEF rest
    <3> QED
      BY <2>1, <3>5, <3>6
  <2>4. CASE HandleEvent
    <3>1. /\ UNCHANGED <<events, done, offer>> /\ bound \subseteq bound'
          /\ UNCHANGED requests
      BY <2>4, HandleSends DEF FeedbackInv, compositorVars
    <3>2. PICK sent \in Seq(RequestMessage) : sendbuf' = sendbuf \o sent
      BY <2>4, HandleSends DEF FeedbackInv
    <3>3. Up' = Up \o sent
      BY <1>1, <3>1, <3>2, SendMoves
    <3>4. Ahead(Up, Ask, "sync") => Ahead(Up \o sent, Ask, "sync")
      BY <1>1, AheadSent
    <3> QED
      BY <2>1, <3>1, <3>3, <3>4
  <2>5. CASE NextRequest
    <3> DEFINE r == requests[1]
               later == Up'
               one == <<r>>
    <3>1. /\ requests # <<>> /\ requests' = Tail(requests)
          /\ UNCHANGED sendbuf /\ UNCHANGED <<done, bound>>
      BY <2>5 DEF NextRequest, mainVars
    <3>2. /\ r \in RequestMessage /\ Up = one \o later
          /\ later \in Seq(RequestMessage)
      BY <1>1, <3>1, RequestMoves
    <3>3. PICK sent \in Seq(EventMessage) :
             /\ events' = events \o sent
             /\ IF r.type = "get_default_feedback"
                THEN offer' \in Feedbacks
                ELSE /\ offer' = offer
                     /\ OfType(sent, FeedbackTypes) = <<>>
             /\ r.type # "sync" => OfType(sent, {"done"}) = <<>>
      BY <1>1, <2>5, AnswerSends
    <3>4. HasType(events', "done")
             <=> HasType(events, "done") \/ HasType(sent, "done")
      <4>1. HasType(events \o sent, "done")
               <=> HasType(events, "done") \/ HasType(sent, "done")
        BY <1>1, HasTypeConcat
      <4> QED
        BY <3>3, <4>1
    <3>5. r.type # "sync" => ~HasType(sent, "done")
      BY <3>3, HasTypeFilter
    <3>6. one \in Seq(RequestMessage)
      BY <3>2
    <3>7. /\ DOMAIN one = {1} /\ one[1] = r
      OBVIOUS
    <3> HIDE DEF later, one
    <3>8. CASE Open(Up, events, done)
      <4>1. \/ \E i \in DOMAIN one : one[i] = Ask
            \/ ~HasType(one, "sync") /\ Ahead(later, Ask, "sync")
        BY <3>2, <3>6, <3>8, AheadTaken
      <4>2. CASE \E i \in DOMAIN one : one[i] = Ask
        <5>1. r = Ask
          BY <3>7, <4>2
        <5>2. r.type = "get_default_feedback"
          BY <5>1 DEF Message
        <5>3. offer' # None /\ ~HasType(events', "done")
          BY <3>3, <3>4, <3>5, <3>8, <5>2, StartupAssumption
        <5>4. AnswerLast(events')
          BY <5>3, AnswerLastOpen
        <5> QED
          BY <2>1, <3>1, <3>8, <5>3, <5>4
      <4>3. CASE ~HasType(one, "sync") /\ Ahead(later, Ask, "sync")
        <5>1. r.type # "sync"
          BY <3>7, <4>3 DEF HasType
        <5> QED
          BY <2>1, <3>1, <3>4, <3>5, <3>8, <4>3, <5>1 DEF later
      <4> QED
        BY <4>1, <4>2, <4>3
    <3>9. CASE Sent(offer, events, done)
      <4>1. Asked = <<>>
        BY <1>1, <3>9 DEF FeedbackOnce
      <4>2. 1 \in DOMAIN Up /\ Up[1] = r
        BY <3>2, <3>6, <3>7, JoinedAt
      <4>3. r.type # "get_default_feedback"
        BY <1>1, <4>1, <4>2, OfTypeLeavesNone DEF Asked
      <4>4. offer' = offer /\ OfType(sent, FeedbackTypes) = <<>>
        BY <3>3, <4>3
      <4>5. AnswerLast(events \o sent)
        BY <1>1, <3>9, <4>4, AnswerLastSent
      <4>6. done => OfType(events \o sent, FeedbackTypes) = <<>>
        BY <1>1, <3>9, <4>4, OfTypeConcat, ConcatEmptySeq
      <4> QED
        BY <2>1, <3>1, <3>3, <3>9, <4>4, <4>5, <4>6
    <3> QED
      BY <2>1, <3>8, <3>9
  <2>6. CASE LateGlobal
    <3>1. /\ UNCHANGED <<bound, offer, done>> /\ Up' = Up
      BY <2>6, LateSends DEF FeedbackInv, Up
    <3>2. PICK g \in Globals : /\ events' = events \o <<Message("global", g)>>
                               /\ Message("global", g) \in EventMessage
      BY <2>6, LateSends DEF FeedbackInv
    <3> DEFINE sent == <<Message("global", g)>>
    <3>3. /\ sent \in Seq(EventMessage) /\ events' = events \o sent
          /\ DOMAIN sent = {1} /\ sent[1].type = "global"
      BY <3>2 DEF Message
    <3> HIDE DEF sent
    <3>4. OfType(sent, FeedbackTypes) = <<>>
      <4>1. \A i \in DOMAIN sent : sent[i].type \notin FeedbackTypes
        BY <3>3 DEF FeedbackTypes
      <4> QED
        BY <3>3, <4>1, OfTypeLeavesNone
    <3>5. ~HasType(sent, "done")
      BY <3>3 DEF HasType
    <3>6. HasType(events \o sent, "done") => HasType(events, "done")
      BY <1>1, <3>3, <3>5, HasTypeConcat
    <3>7. AnswerLast(events) => AnswerLast(events \o sent)
      BY <1>1, <3>3, <3>4, AnswerLastSent
    <3>8. OfType(events, FeedbackTypes) = <<>>
             => OfType(events \o sent, FeedbackTypes) = <<>>
      BY <1>1, <3>3, <3>4, OfTypeConcat, ConcatEmptySeq
    <3> QED
      BY <2>1, <3>1, <3>3, <3>6, <3>7, <3>8
  <2> QED
    BY <1>4, <2>2, <2>3, <2>4, <2>5, <2>6, StepCases
<1> QED
  BY <1>1, <1>3, <1>4, StagesAdvance

(***************************************************************************)
(* Once all of the feedback is handled nothing of it changes.              *)
(***************************************************************************)
LEMMA NothingLeft ==
    ASSUME FeedbackInv, [Next]_vars, offer # None, Unhandled = <<>>
    PROVE  Unhandled' = <<>> /\ UNCHANGED <<feedbackVars, offer>>
<1>1. RegistryInv
  BY DEF FeedbackInv
<1>2. CASE HandleEvent
  <2>1. UNCHANGED offer
    BY <1>2 DEF HandleEvent, compositorVars
  <2>2. ~(/\ Unhandled' \in Seq(EventMessage) /\ inbox[1] \in EventMessage
          /\ Unhandled = <<inbox[1]>> \o Unhandled')
    <3> DEFINE t == Unhandled'
               h == inbox[1]
    <3> SUFFICES ASSUME t \in Seq(EventMessage), h \in EventMessage,
                        Unhandled = <<h>> \o t
                 PROVE  FALSE
      OBVIOUS
    <3> HIDE DEF t, h
    <3>1. <<h>> \o t # <<>>
      OBVIOUS
    <3> QED
      BY <3>1
  <2> QED
    BY <1>1, <1>2, <2>1, <2>2, HandleFeedback
<1>3. CASE NextRequest
  BY <1>3, FeedbackAnswer
<1>4. CASE Flush \/ (\E n \in 1..Len(events) : Read(n)) \/ LateGlobal
              \/ UNCHANGED vars
  BY <1>1, <1>4, FeedbackTransport
<1>5. CASE OtherSteps
  BY <1>1, <1>5, FeedbackOtherSteps
<1> QED
  BY <1>2, <1>3, <1>4, <1>5, StepCases

(***************************************************************************)
(* The start-up goes past the roundtrips with nothing of the feedback left.*)
(***************************************************************************)
LEMMA FeedbackCompleteStep ==
    ASSUME FeedbackInv, FeedbackInTime, FeedbackComplete, [Next]_vars
    PROVE  FeedbackComplete'
<1> DEFINE Past(s) == s \notin {"globals", "feedback"} \cup Stopped
<1> SUFFICES ASSUME Dmabuf \in early', Past(stage')
             PROVE  offer' # None /\ Unhandled' = <<>>
  BY DEF FeedbackComplete
<1>1. /\ Dmabuf \in early /\ MessagesOK /\ RegistryInv /\ StartupTypeOK
      /\ Past(stage) => offer # None /\ Unhandled = <<>>
  BY StagesAdvance DEF FeedbackComplete, FeedbackInv, RegistryInv
<1>2. offer # None /\ Unhandled = <<>>
  <2>1. CASE Past(stage)
    BY <1>1, <2>1
  <2>2. CASE stage = "feedback" /\ done /\ inbox = <<>>
    <3>1. offer # None /\ OfType(events, FeedbackTypes) = <<>>
      BY <1>1, <2>2 DEF FeedbackInTime
    <3>2. Down = events
      BY <1>1, <2>2, QueuesTyped, ConcatEmptySeq DEF Down
    <3> QED
      BY <3>1, <3>2 DEF Unhandled, Down
  <2>3. CASE OtherSteps
    <3>1. \/ Past(stage)
          \/ stage = "feedback" /\ RoundtripReturns /\ done /\ inbox = <<>>
      BY <2>3 DEF OtherSteps, ReadError, RoundtripReturns, ChooseDevice,
         NewRenderer, NegotiateFormat, ImportTimeline, InitWindow,
         BuildPipeline, StepFails, Step, InRoundtrip, Stopped
    <3> QED
      BY <2>1, <2>2, <3>1
  <2> QED
    BY <1>1, <2>1, <2>3, StagesAdvance
<1> QED
  BY <1>2, NothingLeft

(***************************************************************************)
(* With the answers and what comes before them.                            *)
(***************************************************************************)
RoundtripInv ==
    /\ HandledInv
    /\ VersionBound
    /\ OneAnswer
    /\ GlobalInTime
    /\ EarlyBound
    /\ FeedbackInTime
    /\ FeedbackComplete

(***************************************************************************)
(* At first the sync request is under way.                                 *)
(***************************************************************************)
LEMMA RoundtripStart ==
    ASSUME Init
    PROVE  RoundtripInv
<1> DEFINE first == Message("get_registry", None)
           one == <<first>>
           two == <<Sync>>
<1>1. HandledInv /\ RegistryInv
  BY HandledStart DEF HandledInv, FeedbackInv
<1>2. /\ first \in RequestMessage /\ Sync \in RequestMessage
      /\ first.type = "get_registry" /\ Sync.type = "sync"
  BY RequestFields DEF Sync, PlainRequests, Message
<1>3. Up = <<first, Sync>> /\ events = <<>> /\ done = FALSE /\ stage = "globals"
  <2>1. <<>> \o sendbuf = sendbuf
    BY <1>1, QueuesTyped, ConcatEmptySeq DEF RegistryInv
  <2> QED
    BY <2>1 DEF Init, Up
<1> HIDE DEF first
<1>4. /\ one \in Seq(RequestMessage) /\ two \in Seq(RequestMessage)
      /\ <<first, Sync>> = one \o two
  BY <1>2
<1>5. Count(one, "sync") = 0 /\ Count(two, "sync") = 1
  BY <1>2, CountOne
<1> HIDE DEF one, two
<1>6. Count(one \o two, "sync") = Count(one, "sync") + Count(two, "sync")
  BY <1>4, CountOf
<1>7. Count(<<>>, "done") = 0
  <2>1. Len(<<>>) = 0
    OBVIOUS
  <2> QED
    BY <2>1, OfTypeEmpty DEF Count
<1>8. Count(Up, "sync") + Count(events, "done") = 1
  <2>1. Count(Up, "sync") = 0 + 1
    BY <1>3, <1>4, <1>5, <1>6
  <2>2. Count(events, "done") = 0
    BY <1>3, <1>7
  <2> QED
    BY <2>1, <2>2
<1>9. OneAnswer
  BY <1>3, <1>8 DEF OneAnswer
<1>10. HasType(<<first, Sync>>, "get_registry")
  <2>1. 1 \in DOMAIN <<first, Sync>> /\ <<first, Sync>>[1] = first
    OBVIOUS
  <2> QED
    BY <1>2, <2>1 DEF HasType
<1>11. GlobalInTime
  BY <1>3, <1>10 DEF GlobalInTime, RegistryRead
<1>12. EarlyBound /\ FeedbackInTime /\ FeedbackComplete
  BY <1>3 DEF EarlyBound, FeedbackInTime, FeedbackComplete
<1>13. VersionBound
  <2>1. \A i \in DOMAIN Up : Up[i].type \notin {"get_default_feedback"}
    BY <1>2, <1>3
  <2>2. Asked = <<>>
    BY <1>1, <2>1, QueuesTyped, OfTypeLeavesNone DEF Asked, RegistryInv
  <2> QED
    BY <2>2 DEF VersionBound, Init
<1> QED
  BY <1>1, <1>9, <1>11, <1>12, <1>13 DEF RoundtripInv

(***************************************************************************)
(* Every step keeps all of it.                                             *)
(***************************************************************************)
LEMMA RoundtripStep ==
    ASSUME RoundtripInv, [Next]_vars
    PROVE  RoundtripInv'
BY HandledStep, VersionStep, OneAnswerStep, GlobalInTimeStep, EarlyBoundStep,
   FeedbackInTimeStep, FeedbackCompleteStep
   DEF RoundtripInv, HandledInv, FeedbackInv

(***************************************************************************)
(* main does not go past the roundtrips (wayvek.rs) before it has handled  *)
(* the whole feedback, when dmabuf is among the globals announced at       *)
(* first; a table that cannot be mapped leaves it with no format.          *)
(***************************************************************************)
THEOREM WholeFeedback == Spec => []WholeFeedbackNegotiated
<1>1. Init => RoundtripInv
  BY RoundtripStart
<1>2. RoundtripInv /\ [Next]_vars => RoundtripInv'
  BY RoundtripStep
<1>3. RoundtripInv => WholeFeedbackNegotiated
  <2> SUFFICES ASSUME RoundtripInv, Dmabuf \in early,
                      stage \notin {"globals", "feedback"} \cup Stopped
               PROVE  /\ offer # None
                      /\ main_device = offer.device
                      /\ Lists(AllTranches)
    BY DEF WholeFeedbackNegotiated, Dmabuf
  <2>1. offer # None /\ Unhandled = <<>> /\ HandledInv
    BY DEF RoundtripInv, FeedbackComplete
  <2> QED
    BY <2>1, HandledSoFar
<1> QED
  BY <1>1, <1>2, <1>3, PTL DEF Spec

-----------------------------------------------------------------------------
(* The negotiation.                                                        *)

(***************************************************************************)
(* Places are in one order.                                                *)
(***************************************************************************)
LEMMA BeforeOneWay ==
    ASSUME NEW p \in Nat \X Nat, NEW q \in Nat \X Nat, Before(p, q)
    PROVE  ~Before(q, p)
<1>1. /\ p[1] \in Nat /\ p[2] \in Nat /\ p = <<p[1], p[2]>>
      /\ q[1] \in Nat /\ q[2] \in Nat /\ q = <<q[1], q[2]>>
  OBVIOUS
<1>2. p[1] # q[1] \/ p[2] # q[2]
  BY <1>1 DEF Before
<1> QED
  BY <1>1, <1>2 DEF Before, NotAfter

(***************************************************************************)
(* Precedes(k, _, _) is the order of the list: no pair precedes one that   *)
(* the list has at an earlier or the same place.                           *)
(***************************************************************************)
LEMMA ListOrder ==
    ASSUME StartupTypeOK, offer \in Feedbacks,
           NEW k \in 0..Len(offer.tranches),
           InOrder(dmabuf_formats, OfferPlaces(k)),
           NEW p \in OfferPlaces(k), NEW q \in OfferPlaces(k),
           NEW a \in Places(dmabuf_formats), NEW b \in Places(dmabuf_formats),
           EntryAt(p) = PairAt(dmabuf_formats, a),
           EntryAt(q) = PairAt(dmabuf_formats, b),
           NotAfter(a, b)
    PROVE  ~Precedes(k, q, p)
<1> DEFINE F == dmabuf_formats
           P == OfferPlaces(k)
           fmt(c) == FirstOfFormat(k, c)
           one(e) == FirstOfPair(k, e)
<1>1. F \in FormatLists
  BY DEF StartupTypeOK, FeedbackTypeOK
<1>2. P \in SUBSET (Nat \X Nat) /\ Lists(k)
  BY <1>1, OfferPlacesTyped, InOrderLists
<1>3. ASSUME NEW x \in P
      PROVE  /\ fmt(EntryAt(x).format) \in Nat \X Nat
             /\ one(EntryAt(x)) \in Nat \X Nat
  <2> DEFINE A == {y \in P : EntryAt(y).format = EntryAt(x).format}
             B == {y \in P : EntryAt(y) = EntryAt(x)}
  <2>1. /\ A \in SUBSET (Nat \X Nat) /\ x \in A
        /\ B \in SUBSET (Nat \X Nat) /\ x \in B
    BY <1>2
  <2> HIDE DEF A, B
  <2>2. First(A) \in A /\ First(B) \in B
    BY <2>1, FirstMember
  <2>3. First(A) \in Nat \X Nat /\ First(B) \in Nat \X Nat
    BY <2>1, <2>2
  <2>4. fmt(EntryAt(x).format) = First(A)
    BY DEF FirstOfFormat, A
  <2>5. one(EntryAt(x)) = First(B)
    BY DEF FirstOfPair, B
  <2>6. fmt(EntryAt(x).format) \in Nat \X Nat
    BY <2>3, <2>4, Zenon
  <2>7. one(EntryAt(x)) \in Nat \X Nat
    BY <2>3, <2>5, Zenon
  <2> QED
    BY <2>6, <2>7
<1>4. PICK i \in DOMAIN F : \E m \in DOMAIN F[i].modifiers : a = <<i, m>>
  BY DEF Places
<1>5. PICK m \in DOMAIN F[i].modifiers : a = <<i, m>>
  BY <1>4
<1>6. PICK j \in DOMAIN F : \E n \in DOMAIN F[j].modifiers : b = <<j, n>>
  BY DEF Places
<1>7. PICK n \in DOMAIN F[j].modifiers : b = <<j, n>>
  BY <1>6
<1>8. /\ EntryAt(p).format = F[i].code /\ EntryAt(q).format = F[j].code
      /\ EntryAt(p) = PairAt(F, <<i, m>>) /\ EntryAt(q) = PairAt(F, <<j, n>>)
  BY <1>5, <1>7 DEF PairAt
<1>9. /\ i \in Nat /\ j \in Nat /\ m \in Nat /\ n \in Nat
      /\ i < j \/ (i = j /\ m <= n)
  <2>1. i \in Nat /\ j \in Nat
    BY <1>1, FormatAt
  <2>2. F[i].modifiers \in Seq(Modifiers) /\ F[j].modifiers \in Seq(Modifiers)
    BY <1>1, FormatAt
  <2>3. m \in Nat /\ n \in Nat
    BY <2>2
  <2>4. a[1] = i /\ a[2] = m /\ b[1] = j /\ b[2] = n
    BY <1>5, <1>7
  <2> QED
    BY <2>1, <2>3, <2>4 DEF NotAfter
<1> SUFFICES ASSUME Precedes(k, q, p) PROVE FALSE
  OBVIOUS
<1>10. IF EntryAt(q).format = EntryAt(p).format
      THEN Before(one(EntryAt(q)), one(EntryAt(p)))
      ELSE Before(fmt(EntryAt(q).format), fmt(EntryAt(p).format))
  BY DEF Precedes
<1>11. CASE i < j
  <2>1. Before(fmt(F[i].code), fmt(F[j].code))
    BY <1>2, <1>11 DEF Lists
  <2>2. F[i].code # F[j].code
    BY <1>9, <1>11 DEF InOrder
  <2>3. Before(fmt(F[j].code), fmt(F[i].code))
    BY <1>8, <1>10, <2>2
  <2>4. fmt(F[i].code) \in Nat \X Nat /\ fmt(F[j].code) \in Nat \X Nat
    BY <1>3, <1>8
  <2> HIDE DEF fmt
  <2> QED
    BY <2>1, <2>3, <2>4, BeforeOneWay
<1>12. CASE i = j /\ m < n
  <2>1. Before(one(PairAt(F, <<i, m>>)), one(PairAt(F, <<j, n>>)))
    BY <1>2, <1>12, Zenon DEF Lists
  <2>2. Before(one(EntryAt(q)), one(EntryAt(p)))
    BY <1>8, <1>10, <1>12
  <2>3. one(EntryAt(p)) \in Nat \X Nat /\ one(EntryAt(q)) \in Nat \X Nat
    BY <1>3
  <2>4. Before(one(EntryAt(p)), one(EntryAt(q)))
    BY <1>8, <2>1
  <2> HIDE DEF one
  <2> QED
    BY <2>2, <2>3, <2>4, BeforeOneWay
<1>13. CASE i = j /\ m = n
  <2>1. EntryAt(p) = EntryAt(q)
    BY <1>8, <1>13
  <2> QED
    BY <1>10, <2>1 DEF Before
<1> QED
  BY <1>9, <1>11, <1>12, <1>13

(***************************************************************************)
(* What negotiate takes is the best pair of the tranches handled so far.   *)
(***************************************************************************)
LEMMA NegotiatedPair ==
    ASSUME HandledInv, offer # None
    PROVE  IF Negotiate(dmabuf_formats) = None
           THEN Common(HandledTranches) = {}
           ELSE Best(HandledTranches, Negotiate(dmabuf_formats))
<1> DEFINE F == dmabuf_formats
           best == Negotiate(F)
           k == HandledTranches
           P == OfferPlaces(k)
           common == {p \in Places(F) : Supported(PairAt(F, p))}
           tiled == {p \in common : Tiled(PairAt(F, p))}
<1>1. /\ offer \in Feedbacks /\ StartupTypeOK /\ k \in 0..Len(offer.tranches)
      /\ InOrder(F, P) /\ Lists(k)
  BY HandledSoFar
<1>2. F \in FormatLists
  BY <1>1 DEF StartupTypeOK, FeedbackTypeOK
<1>3. IF common = {} THEN best = None
      ELSE \E p \in common :
              /\ best = PairAt(F, p)
              /\ tiled # {} => p \in tiled
              /\ \A q \in IF tiled # {} THEN tiled ELSE common : NotAfter(p, q)
  BY <1>2, NegotiateGives
<1> HIDE DEF k
<1>4. {PairAt(F, p) : p \in Places(F)} = {EntryAt(p) : p \in P}
  BY <1>1 DEF Lists
<1>5. Common(k) = {p \in P : Supported(EntryAt(p))}
  BY DEF Common
<1>6. ASSUME best # None PROVE Best(k, best)
  <2>1. PICK a \in common :
           /\ best = PairAt(F, a)
           /\ tiled # {} => a \in tiled
           /\ \A b \in IF tiled # {} THEN tiled ELSE common : NotAfter(a, b)
    BY <1>3, <1>6
  <2>2. PICK p \in P : EntryAt(p) = PairAt(F, a)
    <3>1. a \in Places(F)
      BY <2>1
    <3> HIDE DEF F, P, common
    <3> QED
      BY <1>4, <3>1
  <2>3. p \in Common(k)
    BY <1>5, <2>1, <2>2
  <2>4. ASSUME NEW q \in Common(k)
        PROVE  /\ Tiled(EntryAt(q)) => Tiled(EntryAt(p))
               /\ Tiled(EntryAt(q)) = Tiled(EntryAt(p)) => ~Precedes(k, q, p)
    <3>1. PICK b \in Places(F) : EntryAt(q) = PairAt(F, b)
      <4>1. q \in P
        BY <1>5
      <4> HIDE DEF F, P, common
      <4> QED
        BY <1>4, <4>1
    <3>2. b \in common /\ q \in P
      BY <1>5, <3>1
    <3>3. Tiled(EntryAt(q)) => b \in tiled
      BY <3>1, <3>2
    <3>4. a \in tiled => Tiled(EntryAt(p))
      BY <2>2
    <3>5. Tiled(EntryAt(p)) => a \in tiled
      BY <2>2
    <3>6. Tiled(EntryAt(q)) = Tiled(EntryAt(p)) => NotAfter(a, b)
      <4> HIDE DEF tiled, common, F, P
      <4>1. CASE tiled # {}
        <5>1. a \in tiled /\ Tiled(EntryAt(p))
          BY <2>1, <3>4, <4>1
        <5>2. Tiled(EntryAt(q)) => NotAfter(a, b)
          BY <2>1, <3>3, <4>1
        <5> QED
          BY <5>1, <5>2
      <4>2. CASE tiled = {}
        BY <2>1, <3>2, <4>2
      <4> QED
        BY <4>1, <4>2
    <3>7. a \in Places(F)
      BY <2>1
    <3>8. NotAfter(a, b) => ~Precedes(k, q, p)
      <4> HIDE DEF common, tiled, best
      <4> QED
        BY <1>1, <2>2, <3>1, <3>2, <3>7, ListOrder
    <3> HIDE DEF common, tiled, best, F, P
    <3> QED
      BY <2>1, <3>3, <3>4, <3>6, <3>8
  <2> HIDE DEF best, P
  <2> QED
    BY <2>1, <2>2, <2>3, <2>4 DEF Best
<1>7. ASSUME best = None PROVE Common(k) = {}
  <2>1. common = {}
    <3> SUFFICES ASSUME common # {} PROVE FALSE
      OBVIOUS
    <3>1. PICK a \in common : best = PairAt(F, a)
      BY <1>3
    <3>2. PairAt(F, a) \in [format : KnownFourccs, modifier : Modifiers]
      BY <1>2, <3>1, PlacesTyped
    <3>3. PairAt(F, a) \in Entry
      BY <3>2, FeedbackAssumption DEF Entry
    <3> QED
      BY <1>7, <3>1, <3>3, NegotiationAssumption
  <2>2. ASSUME NEW p \in Common(k) PROVE FALSE
    <3>1. PICK b \in Places(F) : EntryAt(p) = PairAt(F, b)
      <4>1. p \in P
        BY <1>5, <2>2
      <4> HIDE DEF F, P, common
      <4> QED
        BY <1>4, <4>1
    <3>2. b \in common
      BY <1>5, <2>2, <3>1
    <3> QED
      BY <2>1, <3>2
  <2> QED
    BY <2>2
<1> QED
  BY <1>6, <1>7 DEF k

(***************************************************************************)
(* While the offer and the device stay, so does what is best.              *)
(***************************************************************************)
LEMMA BestStays ==
    ASSUME offer' = offer, device_mods' = device_mods, NEW k
    PROVE  /\ Common(k)' = Common(k)
           /\ Best(k, buffer_fmt)' <=> Best(k, buffer_fmt')
<1>1. \A p : EntryAt(p)' = EntryAt(p)
  BY DEF EntryAt
<1>2. OfferPlaces(k)' = OfferPlaces(k)
  BY DEF OfferPlaces, EntryAt
<1>3. Common(k)' = Common(k)
  BY <1>1, <1>2 DEF Common, Supported, SupportedModifiers, VulkanModifiers
<1>4. \A p, q : Precedes(k, p, q)' <=> Precedes(k, p, q)
  BY <1>1, <1>2 DEF Precedes, FirstOfFormat, FirstOfPair
<1> QED
  BY <1>1, <1>3, <1>4 DEF Best

(***************************************************************************)
(* All of SInv.                                                            *)
(***************************************************************************)
NegotiatedInv == RoundtripInv /\ StepsInOrder /\ WindowMade /\ Negotiated

(***************************************************************************)
(* main has its window when it comes to the pipeline.                      *)
(***************************************************************************)
LEMMA WindowMadeStep ==
    ASSUME StartupTypeOK, EarlyBound, StepsInOrder, WindowMade, [Next]_vars
    PROVE  WindowMade'
<1>1. early' = early /\ (OtherSteps \/ stage' = stage)
  BY StagesAdvance
<1>2. CASE stage' = stage /\ surface' = surface
  BY <1>1, <1>2 DEF WindowMade
<1>3. CASE ~OtherSteps
  <2>1. surface' = surface
    <3>1. CASE Flush \/ (\E n \in 1..Len(events) : Read(n)) \/ HandleEvent
      BY <3>1 DEF Flush, Read, HandleEvent, mainVars, windowVars
    <3>2. CASE NextRequest \/ LateGlobal \/ UNCHANGED vars
      BY <3>2 DEF NextRequest, LateGlobal, vars, mainVars, windowVars
    <3> QED
      BY <1>3, <3>1, <3>2, StepCases
  <2> QED
    BY <1>1, <1>2, <1>3, <2>1
<1>4. CASE InitWindow
  <2>1. stage = "window" /\ early \subseteq bound
    BY <1>4 DEF InitWindow, Step, EarlyBound
  <2>2. stage' \in {"pipeline", "panicked"}
    BY <1>4 DEF InitWindow, Step
  <2>3. stage' = "pipeline" /\ WindowGlobals \subseteq bound => surface'
    BY <1>4 DEF InitWindow, Step, WindowGlobals
  <2>4. stage' = "panicked" => SyncobjManager \notin bound
    BY <1>4 DEF InitWindow, Step, SyncobjManager
  <2> QED
    BY <1>1, <2>1, <2>2, <2>3, <2>4 DEF WindowMade
<1>5. CASE BuildPipeline
  <2>1. stage = "pipeline" /\ surface' = surface /\ stage' = "loop"
    BY <1>5 DEF BuildPipeline, Step, StepsInOrder, LateStages, windowVars
  <2> QED
    BY <1>1, <2>1 DEF WindowMade
<1>6. CASE OtherSteps /\ ~InitWindow /\ ~BuildPipeline
  <2>1. stage' \notin {"pipeline", "loop", "panicked"}
    BY <1>6 DEF OtherSteps, ReadError, RoundtripReturns, ChooseDevice,
       NewRenderer, NegotiateFormat, ImportTimeline, StepFails, Step
  <2> QED
    BY <2>1 DEF WindowMade
<1> QED
  BY <1>3, <1>4, <1>5, <1>6

(***************************************************************************)
(* Steps that do not negotiate leave the choice and its reasons.           *)
(***************************************************************************)
LEMMA ChoiceKept ==
    ASSUME NegotiatedInv, [Next]_vars, UNCHANGED negotiationVars,
           stage \in {"loop", "exited"} => stage' \in {"loop", "exited"},
           stage' = "exited" /\ stage # "exited" =>
              device_mods = None \/ buffer_fmt # None,
           stage' \in EarlyStages => stage \in EarlyStages,
           stage' = "negotiate" => stage \in EarlyStages \cup {"negotiate"}
    PROVE  Negotiated'
<1>1. /\ HandledInv /\ FeedbackInv /\ StartupTypeOK /\ StepsInOrder
      /\ Negotiated /\ early' = early
      /\ device_mods' = device_mods /\ buffer_fmt' = buffer_fmt
  BY StagesAdvance DEF NegotiatedInv, RoundtripInv, HandledInv, FeedbackInv,
     RegistryInv, negotiationVars
<1>2. /\ stage' \in EarlyStages => device_mods' = None
      /\ stage' \in EarlyStages \cup {"negotiate"} => buffer_fmt' = None
  BY <1>1 DEF Negotiated
<1> SUFFICES ASSUME device_mods # None
             PROVE  /\ offer' # None
                    /\ Dmabuf \in early' => Unhandled' = <<>>
                    /\ NegotiatesBestOffer'
  BY <1>1, <1>2 DEF Negotiated, NegotiatesBestOffer
<1>3. /\ offer # None /\ (Dmabuf \in early => Unhandled = <<>>)
      /\ stage \notin EarlyStages
  BY <1>1 DEF Negotiated
<1>4. /\ offer' = offer /\ HandledTranches <= HandledTranches'
      /\ ~HandleEvent => HandledTranches' = HandledTranches
      /\ HandledTranches \in Nat
  BY <1>1, <1>3, HandledGrows, HandledSoFar
<1>5. Dmabuf \in early => Unhandled' = <<>> /\ AllTranches' = AllTranches
  <2>1. Dmabuf \in early => Unhandled' = <<>> /\ UNCHANGED <<feedbackVars, offer>>
    BY <1>1, <1>3, NothingLeft
  <2> QED
    BY <2>1 DEF AllTranches, feedbackVars
<1>6. HandleEvent => stage = "loop" /\ stage' = "loop" /\ buffer_fmt # None
  <2>1. HandleEvent => inbox # <<>> /\ stage' = stage
    BY DEF HandleEvent
  <2> QED
    BY <1>1, <1>3, <2>1 DEF StepsInOrder, LateStages, EarlyStages
<1>7. PICK k \in Negotiable :
         /\ buffer_fmt # None => Best(k, buffer_fmt)
         /\ stage = "exited" /\ buffer_fmt = None => Common(k) = {}
  BY <1>1 DEF Negotiated, NegotiatesBestOffer
<1>8. /\ k \in 0..HandledTranches
      /\ Dmabuf \in early => k = AllTranches
      /\ stage \notin {"loop", "exited"} \/ buffer_fmt = None
            => k = HandledTranches
  BY <1>7 DEF Negotiable, Dmabuf
<1>9. /\ k \in 0..HandledTranches'
      /\ Dmabuf \in early' => k = AllTranches'
      /\ stage' \notin {"loop", "exited"} \/ buffer_fmt' = None
            => k = HandledTranches'
  <2>1. k \in 0..HandledTranches'
    <3>1. HandledTranches' \in Nat
      <4>1. (HandledInv /\ offer # None => HandledTranches \in Nat)'
        BY HandledNumber, PTL
      <4> QED
        BY <1>1, <1>3, <1>4, <4>1, HandledStep
    <3> QED
      BY <1>4, <1>8, <3>1
  <2>2. Dmabuf \in early' => k = AllTranches'
    BY <1>1, <1>5, <1>8
  <2>3. stage' \notin {"loop", "exited"} \/ buffer_fmt' = None
           => k = HandledTranches'
    BY <1>1, <1>4, <1>6, <1>8
  <2> QED
    BY <2>1, <2>2, <2>3
<1>10. k \in Negotiable'
  BY <1>9 DEF Negotiable, Dmabuf
<1>11. buffer_fmt' # None => Best(k, buffer_fmt)'
  <2>1. Best(k, buffer_fmt)' <=> Best(k, buffer_fmt')
    BY <1>1, <1>4, BestStays
  <2>2. buffer_fmt' = buffer_fmt
    BY <1>1
  <2>3. buffer_fmt' # None => Best(k, buffer_fmt')
    BY <1>7, <2>2
  <2> QED
    BY <2>1, <2>3
<1>12. stage' = "exited" /\ buffer_fmt' = None => Common(k)' = {}
  <2>1. Common(k)' = Common(k)
    BY <1>1, <1>4, BestStays
  <2> QED
    BY <1>1, <1>7, <2>1
<1>13. NegotiatesBestOffer'
  BY <1>10, <1>11, <1>12 DEF NegotiatesBestOffer
<1> QED
  BY <1>1, <1>3, <1>4, <1>5, <1>13

(***************************************************************************)
(* Only main's own steps negotiate.                                        *)
(***************************************************************************)
LEMMA NegotiatedStep ==
    ASSUME NegotiatedInv, [Next]_vars
    PROVE  NegotiatedInv'
<1>1. /\ HandledInv /\ FeedbackInv /\ StartupTypeOK /\ StepsInOrder
      /\ Negotiated /\ FeedbackComplete /\ early' = early
  BY StagesAdvance DEF NegotiatedInv, RoundtripInv, HandledInv, FeedbackInv,
     RegistryInv
<1>2. RoundtripInv' /\ StepsInOrder'
  BY RoundtripStep, StepsStep
     DEF NegotiatedInv, RoundtripInv, HandledInv, StepsInv
<1>3. WindowMade'
  BY <1>1, WindowMadeStep DEF NegotiatedInv, RoundtripInv
<1>4. ASSUME OtherSteps, offer # None,
             Dmabuf \in early => Unhandled = <<>>
      PROVE  /\ offer' = offer /\ Unhandled' = Unhandled
             /\ UNCHANGED feedbackVars
             /\ HandledTranches' = HandledTranches
             /\ HandledTranches \in 0..HandledTranches
             /\ Dmabuf \in early => HandledTranches = AllTranches
             /\ HandledTranches \in Negotiable'
  <2> DEFINE k == HandledTranches
  <2>1. Unhandled' = Unhandled /\ UNCHANGED <<feedbackVars, offer>>
    BY <1>1, <1>4, FeedbackOtherSteps DEF FeedbackInv
  <2>2. k \in Nat /\ (Dmabuf \in early => k = AllTranches)
    BY <1>1, <1>4, HandledSoFar
  <2>3. k' = k /\ AllTranches' = AllTranches
    BY <2>1 DEF HandledTranches, AllTranches, feedbackVars
  <2> HIDE DEF k
  <2>4. k \in 0..k
    BY <2>2
  <2>5. k \in Negotiable'
    BY <1>1, <2>2, <2>3, <2>4 DEF Negotiable, Dmabuf, k
  <2> QED
    BY <2>1, <2>2, <2>3, <2>4, <2>5 DEF k
<1>5. CASE NewRenderer
  <2>1. /\ stage = "renderer" /\ stage' = "negotiate"
        /\ buffer_fmt' = buffer_fmt /\ buffer_fmt = None
    BY <1>1, <1>5 DEF NewRenderer, Step, Negotiated, EarlyStages
  <2>2. offer # None
    <3>1. main_device # None
      BY <1>1, <2>1 DEF StepsInOrder, LateStages
    <3> QED
      BY <1>1, <3>1 DEF FeedbackInv, NothingYet
  <2>3. Dmabuf \in early => Unhandled = <<>>
    BY <1>1, <2>1 DEF FeedbackComplete, Stopped
  <2>4. /\ offer' = offer /\ Unhandled' = Unhandled
        /\ HandledTranches \in Negotiable'
    BY <1>4, <1>5, <2>2, <2>3 DEF OtherSteps
  <2>5. NegotiatesBestOffer'
    BY <2>1, <2>4 DEF NegotiatesBestOffer
  <2>6. Negotiated'
    BY <1>1, <2>1, <2>2, <2>3, <2>4, <2>5 DEF Negotiated, EarlyStages
  <2> QED
    BY <1>2, <1>3, <2>6 DEF NegotiatedInv
<1>6. CASE NegotiateFormat
  <2> DEFINE pair == Negotiate(dmabuf_formats)
             k == HandledTranches
  <2>1. /\ stage = "negotiate" /\ device_mods' = device_mods
        /\ buffer_fmt = None
        /\ \/ pair = None /\ stage' = "exited" /\ UNCHANGED buffer_fmt
           \/ /\ pair # None /\ stage' = "syncobj"
              /\ buffer_fmt' = IF pair.format \in KnownFourccs THEN pair
                                                              ELSE buffer_fmt
    BY <1>1, <1>6 DEF NegotiateFormat, Step, SetBufferFormat, Negotiated,
       EarlyStages, negotiationVars
  <2>2. pair # None => pair.format \in KnownFourccs
    <3>1. dmabuf_formats \in FormatLists
      BY <1>1 DEF StartupTypeOK, FeedbackTypeOK
    <3> HIDE DEF pair
    <3>2. pair # None => pair \in [format : KnownFourccs, modifier : Modifiers]
      BY <3>1, NegotiateTyped DEF pair
    <3> QED
      BY <3>2
  <2>3. \/ pair = None /\ stage' = "exited" /\ buffer_fmt' = None
        \/ pair # None /\ stage' = "syncobj" /\ buffer_fmt' = pair
    BY <2>1, <2>2
  <2>4. ASSUME device_mods # None
        PROVE  /\ offer' # None /\ (Dmabuf \in early => Unhandled' = <<>>)
               /\ NegotiatesBestOffer'
    <3>1. offer # None /\ (Dmabuf \in early => Unhandled = <<>>)
      BY <1>1, <2>4 DEF Negotiated
    <3>2. /\ offer' = offer /\ Unhandled' = Unhandled /\ k \in Negotiable'
      BY <1>4, <1>6, <3>1 DEF OtherSteps
    <3>3. IF pair = None THEN Common(k) = {} ELSE Best(k, pair)
      BY <1>1, <3>1, NegotiatedPair
    <3> HIDE DEF pair
    <3>4. PICK c : c = k
      OBVIOUS
    <3> HIDE DEF k
    <3>5. /\ Common(c)' = Common(c)
          /\ Best(c, buffer_fmt)' <=> Best(c, buffer_fmt')
      BY <2>1, <3>2, BestStays
    <3>6. IF pair = None THEN Common(c) = {} ELSE Best(c, pair)
      BY <3>3, <3>4
    <3>7. buffer_fmt' # None => Best(c, buffer_fmt)'
      <4>1. buffer_fmt' # None => pair # None /\ buffer_fmt' = pair
        BY <2>3
      <4>2. buffer_fmt' # None => Best(c, buffer_fmt')
        BY <3>6, <4>1
      <4> QED
        BY <3>5, <4>2
    <3>8. stage' = "exited" /\ buffer_fmt' = None => Common(c)' = {}
      <4>1. stage' = "exited" => pair = None
        BY <2>3
      <4> QED
        BY <3>5, <3>6, <4>1
    <3>9. c \in Negotiable'
      BY <3>2, <3>4
    <3>10. NegotiatesBestOffer'
      BY <3>7, <3>8, <3>9 DEF NegotiatesBestOffer
    <3> QED
      BY <3>1, <3>2, <3>10
  <2> HIDE DEF pair
  <2>5. stage' \in {"exited", "syncobj"}
    BY <2>3
  <2>6. device_mods' = None => NegotiatesBestOffer'
    BY DEF NegotiatesBestOffer
  <2>7. Negotiated'
    BY <1>1, <2>1, <2>4, <2>5, <2>6 DEF Negotiated, EarlyStages
  <2> QED
    BY <1>2, <1>3, <2>7 DEF NegotiatedInv
<1>7. CASE StepFails
  <2>1. /\ UNCHANGED negotiationVars /\ stage' = "exited"
        /\ stage \in {"globals", "feedback", "renderer", "syncobj", "pipeline"}
    BY <1>7 DEF StepFails, Step, InRoundtrip
  <2>2. device_mods = None \/ buffer_fmt # None
    BY <1>1, <2>1 DEF Negotiated, StepsInOrder, LateStages, EarlyStages
  <2> QED
    BY <1>2, <1>3, <2>1, <2>2, ChoiceKept DEF NegotiatedInv, EarlyStages
<1>8. CASE ReadError
  <2>1. /\ UNCHANGED negotiationVars /\ stage' = "exited"
        /\ stage \in {"globals", "feedback", "loop"}
    BY <1>8 DEF ReadError, Dispatching, InRoundtrip
  <2>2. device_mods = None \/ buffer_fmt # None
    BY <1>1, <2>1 DEF Negotiated, StepsInOrder, LateStages, EarlyStages
  <2> QED
    BY <1>2, <1>3, <2>1, <2>2, ChoiceKept DEF NegotiatedInv, EarlyStages
<1>9. CASE RoundtripReturns
  <2>1. /\ UNCHANGED negotiationVars /\ stage \in {"globals", "feedback"}
        /\ stage' \in {"feedback", "device"}
    BY <1>9 DEF RoundtripReturns
  <2> QED
    BY <1>2, <1>3, <2>1, ChoiceKept DEF NegotiatedInv, EarlyStages
<1>10. CASE ChooseDevice
  <2>1. /\ UNCHANGED negotiationVars /\ stage = "device"
        /\ stage' \in {"exited", "renderer"}
    BY <1>10 DEF ChooseDevice, Step
  <2>2. device_mods = None
    BY <1>1, <2>1 DEF Negotiated, EarlyStages
  <2> QED
    BY <1>2, <1>3, <2>1, <2>2, ChoiceKept DEF NegotiatedInv, EarlyStages
<1>11. CASE ImportTimeline \/ InitWindow \/ BuildPipeline
  <2>1. /\ UNCHANGED negotiationVars
        /\ stage \in {"syncobj", "window", "pipeline"}
        /\ stage' \in {"window", "pipeline", "panicked", "loop"}
    BY <1>11 DEF ImportTimeline, InitWindow, BuildPipeline, Step
  <2> QED
    BY <1>2, <1>3, <2>1, ChoiceKept DEF NegotiatedInv, EarlyStages
<1>12. CASE ~OtherSteps
  <2>1. stage' = stage
    BY <1>1, <1>12, StagesAdvance
  <2>2. UNCHANGED negotiationVars
    <3>1. CASE Flush
      BY <3>1 DEF Flush
    <3>2. CASE \E n \in 1..Len(events) : Read(n)
      BY <3>2 DEF Read
    <3>3. CASE HandleEvent
      BY <3>3 DEF HandleEvent
    <3>4. CASE NextRequest \/ LateGlobal
      BY <3>4 DEF NextRequest, LateGlobal
    <3>5. CASE UNCHANGED vars
      BY <3>5 DEF vars
    <3> QED
      BY <1>12, <3>1, <3>2, <3>3, <3>4, <3>5, StepCases
  <2> QED
    BY <1>2, <1>3, <2>1, <2>2, ChoiceKept DEF NegotiatedInv
<1> QED
  BY <1>5, <1>6, <1>7, <1>8, <1>9, <1>10, <1>11, <1>12 DEF OtherSteps

(***************************************************************************)
(* The strengthened invariant holds in every reachable state of start-up.  *)
(***************************************************************************)
THEOREM StartupInvariance == Spec => []SInv
<1>1. Init => NegotiatedInv
  <2> SUFFICES ASSUME Init PROVE NegotiatedInv
    OBVIOUS
  <2>1. RoundtripInv /\ StepsInOrder
    BY RoundtripStart, StepsStart DEF StepsInv
  <2>2. stage = "globals" /\ device_mods = None /\ buffer_fmt = None
    BY DEF Init, NegotiationInit
  <2> QED
    BY <2>1, <2>2
       DEF NegotiatedInv, WindowMade, Negotiated, NegotiatesBestOffer
<1>2. NegotiatedInv /\ [Next]_vars => NegotiatedInv'
  BY NegotiatedStep
<1>3. NegotiatedInv => SInv
  BY DEF NegotiatedInv, RoundtripInv, HandledInv, FeedbackInv, SInv
<1> QED
  BY <1>1, <1>2, <1>3, PTL DEF Spec

(***************************************************************************)
(* main gets past "no main DRM device" only with a compositor whose dmabuf *)
(* is of version 5 (it binds no other), and when the loop starts the       *)
(* renderer has a format its device supports and there is a dmabuf global  *)
(* to wrap images with.  The window is made unless one of its globals was  *)
(* not among the first, and has its synchronization object and an imported *)
(* timeline, without which the Created handler would drop every frame      *)
(* (mod.rs:372-387); main panics only when the syncobj manager was not     *)
(* among the first.                                                        *)
(***************************************************************************)
THEOREM LoopReady == Spec => []LoopStartsReady
<1>1. SInv => LoopStartsReady
  <2> SUFFICES ASSUME SInv PROVE LoopStartsReady
    OBVIOUS
  <2>1. main_device # None => version >= 5
    BY DEF SInv, NothingYet, VersionBound
  <2>2. main_device # None => Dmabuf \in bound
    BY DEF SInv, NothingYet, FeedbackOnce
  <2>3. StepsInOrder /\ WindowMade
    BY DEF SInv
  <2> QED
    BY <2>1, <2>2, <2>3 DEF LoopStartsReady, StepsInOrder, LateStages,
       WindowMade, Dmabuf, SyncobjManager
<1> QED
  BY <1>1, StartupInvariance, PTL

(***************************************************************************)
(* negotiate takes the best pair of the tranches handled so far: of those  *)
(* both sides have a tiled one if there is any, and of these the first     *)
(* (lib.rs:54-56).  It fails only when there is none in common, whether    *)
(* the table was lost, the dmabuf global came late, or neither.            *)
(***************************************************************************)
THEOREM BestOffer == Spec => []NegotiatesBestOffer
<1>1. SInv => NegotiatesBestOffer
  BY DEF SInv, Negotiated
<1> QED
  BY <1>1, StartupInvariance, PTL
=============================================================================
