----------------------------- MODULE QueueProofs -----------------------------
(***************************************************************************)
(* Induction over the natural numbers, stated with sets and functions in   *)
(* place of operators, and what the recursion that filters a queue         *)
(* computes.                                                               *)
(***************************************************************************)
EXTENDS Queues, WellFoundedInduction, TLAPS

-----------------------------------------------------------------------------
(* Induction.                                                              *)

(***************************************************************************)
(* A set of numbers that is not empty has a least member.                  *)
(***************************************************************************)
LEMMA LeastNumber ==
    ASSUME NEW T \in SUBSET Nat, T # {}
    PROVE  \E x \in T : \A y \in T : x <= y
<1> DEFINE R == {ss \in Nat \X Nat : ss[1] < ss[2]}
<1>1. IsWellFoundedOn(R, Nat)
  BY NatLessThanWellFounded DEF OpToRel
<1> HIDE DEF R
<1>2. PICK x \in T : \A y \in T : ~ (<<y, x>> \in R)
  BY <1>1, WFMin
<1>3. \A y \in T : y < x => <<y, x>> \in R
  BY DEF R
<1>4. \A y \in T : ~ (y < x)
  BY <1>2, <1>3
<1> QED
  BY <1>4

(***************************************************************************)
(* A set of which 0 is a member, and each successor of a member, has every *)
(* natural number.                                                         *)
(***************************************************************************)
LEMMA SetInduction ==
    ASSUME NEW T, 0 \in T, \A n \in Nat : n \in T => n + 1 \in T
    PROVE  Nat \subseteq T
<1> DEFINE Rest == Nat \ T
<1>1. CASE Rest # {}
  <2>1. PICK x \in Rest : \A y \in Rest : x <= y
    BY <1>1, LeastNumber
  <2>2. x # 0 /\ x - 1 \in Nat /\ ~ (x <= x - 1) /\ (x - 1) + 1 = x
    OBVIOUS
  <2>3. x - 1 \in T
    BY <2>1, <2>2
  <2> QED
    BY <2>2, <2>3
<1> QED
  BY <1>1

(***************************************************************************)
(* A set of queues that has the empty one, and with a queue each longer by *)
(* one message, has every queue.                                           *)
(***************************************************************************)
LEMMA QueueInduction ==
    ASSUME NEW M, NEW T, <<>> \in T,
           \A s \in Seq(M) : s \in T => \A x \in M : Append(s, x) \in T
    PROVE  Seq(M) \subseteq T
<1> DEFINE L == {n \in Nat : \A s \in Seq(M) : Len(s) = n => s \in T}
<1>1. 0 \in L
  <2>1. \A s \in Seq(M) : Len(s) = 0 => s = <<>>
    OBVIOUS
  <2> QED
    BY <2>1
<1>2. ASSUME NEW n \in Nat, n \in L PROVE n + 1 \in L
  <2> SUFFICES ASSUME NEW s \in Seq(M), Len(s) = n + 1 PROVE s \in T
    OBVIOUS
  <2> DEFINE r == [i \in 1..n |-> s[i]]
             x == s[n + 1]
  <2>1. \A i \in 1..(n + 1) : s[i] \in M
    OBVIOUS
  <2>2. r \in Seq(M) /\ Len(r) = n /\ x \in M
    BY <2>1
  <2>3. s = Append(r, x)
    OBVIOUS
  <2> HIDE DEF r, x
  <2>4. r \in T
    BY <1>2, <2>2
  <2> QED
    BY <2>2, <2>3, <2>4
<1>3. Nat \subseteq L
  BY <1>1, <1>2, SetInduction
<1> QED
  BY <1>3

(***************************************************************************)
(* A recursion with one value per step is satisfied by a function.         *)
(***************************************************************************)
LEMMA RecursionExists ==
    ASSUME NEW S, NEW base \in S, NEW N \in Nat,
           NEW step \in [1..N -> [S -> S]]
    PROVE  \E f \in [0..N -> S] :
              /\ f[0] = base
              /\ \A n \in 1..N : f[n] = step[n][f[n - 1]]
<1> DEFINE Solves(f, m) == /\ f[0] = base
                           /\ \A n \in 1..m : f[n] = step[n][f[n - 1]]
           T == {m \in Nat : m <= N => \E f \in [0..m -> S] : Solves(f, m)}
<1>1. 0 \in T
  <2>1. [n \in 0..0 |-> base] \in [0..0 -> S]
    OBVIOUS
  <2>2. Solves([n \in 0..0 |-> base], 0)
    OBVIOUS
  <2> QED
    BY <2>1, <2>2
<1>2. ASSUME NEW m \in Nat, m \in T PROVE m + 1 \in T
  <2> SUFFICES ASSUME m + 1 <= N
               PROVE  \E f \in [0..(m + 1) -> S] : Solves(f, m + 1)
    OBVIOUS
  <2>1. PICK f \in [0..m -> S] : Solves(f, m)
    BY <1>2
  <2> DEFINE v == step[m + 1][f[m]]
             g == [n \in 0..(m + 1) |-> IF n = m + 1 THEN v ELSE f[n]]
  <2>2. v \in S
    OBVIOUS
  <2>3. g \in [0..(m + 1) -> S]
    BY <2>2
  <2>4. \A n \in 0..m : g[n] = f[n]
    OBVIOUS
  <2>5. ASSUME NEW n \in 1..(m + 1)
        PROVE  g[n] = step[n][g[n - 1]]
    <3>1. CASE n = m + 1
      BY <2>4, <3>1
    <3>2. CASE n # m + 1
      <4>1. n \in 1..m /\ n \in 0..m /\ n - 1 \in 0..m
        BY <3>2
      <4> QED
        BY <2>1, <2>4, <4>1
    <3> QED
      BY <3>1, <3>2
  <2>6. Solves(g, m + 1)
    BY <2>1, <2>4, <2>5
  <2> QED
    BY <2>3, <2>6
<1>3. N \in T
  BY <1>1, <1>2, SetInduction
<1> QED
  BY <1>3

(***************************************************************************)
(* Values that follow such a recursion stay in its set.                    *)
(***************************************************************************)
LEMMA RecursionTyped ==
    ASSUME NEW S, NEW base \in S, NEW N \in Nat,
           NEW step \in [1..N -> [S -> S]],
           NEW g, g[0] = base,
           \A n \in 1..N : g[n - 1] \in S => g[n] = step[n][g[n - 1]]
    PROVE  \A n \in 0..N : g[n] \in S
<1> DEFINE T == {n \in Nat : n <= N => g[n] \in S}
<1>1. 0 \in T
  OBVIOUS
<1>2. ASSUME NEW n \in Nat, n \in T PROVE n + 1 \in T
  <2> SUFFICES ASSUME n + 1 <= N PROVE g[n + 1] \in S
    OBVIOUS
  <2>1. g[n] \in S /\ n + 1 \in 1..N /\ (n + 1) - 1 = n
    BY <1>2
  <2>2. g[n + 1] = step[n + 1][g[n]]
    BY <2>1
  <2> QED
    BY <2>1, <2>2
<1>3. Nat \subseteq T
  BY <1>1, <1>2, SetInduction
<1> QED
  BY <1>3

-----------------------------------------------------------------------------
(* Filtered queues.                                                        *)

(***************************************************************************)
(* The recursion behind OfType has a solution, which is what it says.      *)
(***************************************************************************)
LEMMA OfTypeRecursion ==
    ASSUME NEW M, NEW s \in Seq(M), NEW types
    PROVE  \E kept :
              /\ OfType(s, types) = kept[Len(s)]
              /\ kept[0] = <<>>
              /\ \A i \in 0..Len(s) : kept[i] \in Seq(M)
              /\ \A i \in 1..Len(s) :
                    kept[i] = IF s[i].type \in types
                              THEN Append(kept[i - 1], s[i])
                              ELSE kept[i - 1]
<1> DEFINE Def(f) ==
              [i \in 0..Len(s) |->
                 IF i = 0 THEN <<>>
                 ELSE IF s[i].type \in types THEN Append(f[i - 1], s[i])
                 ELSE f[i - 1]]
           step == [i \in 1..Len(s) |-> [v \in Seq(M) |->
                      IF s[i].type \in types THEN Append(v, s[i]) ELSE v]]
           P == CHOOSE g : g = Def(g)
<1>1. Len(s) \in Nat /\ <<>> \in Seq(M) /\ \A i \in 1..Len(s) : s[i] \in M
  OBVIOUS
<1>2. step \in [1..Len(s) -> [Seq(M) -> Seq(M)]]
  BY <1>1
<1>3. \A i \in 1..Len(s) : \A v \in Seq(M) :
         step[i][v] = IF s[i].type \in types THEN Append(v, s[i]) ELSE v
  OBVIOUS
<1>4. /\ \A i \in 1..Len(s) : i # 0 /\ i \in 0..Len(s) /\ i - 1 \in 0..Len(s)
      /\ \A i \in 0..Len(s) : i = 0 \/ i \in 1..Len(s)
  BY <1>1
<1>5. \A f : \A i \in 0..Len(s) :
         Def(f)[i] = IF i = 0 THEN <<>>
                     ELSE IF s[i].type \in types THEN Append(f[i - 1], s[i])
                     ELSE f[i - 1]
  OBVIOUS
<1>6. \A f : Def(f) = [i \in 0..Len(s) |-> Def(f)[i]]
  OBVIOUS
<1> HIDE DEF step
<1>7. \E f \in [0..Len(s) -> Seq(M)] :
              /\ f[0] = <<>>
              /\ \A i \in 1..Len(s) : f[i] = step[i][f[i - 1]]
  <2> DEFINE S == Seq(M)
             N == Len(s)
             base == <<>>
  <2>1. step \in [1..N -> [S -> S]] /\ base \in S /\ N \in Nat
    BY <1>1, <1>2
  <2> HIDE DEF S, N, base, Def
  <2>2. \E f \in [0..N -> S] : /\ f[0] = base
                               /\ \A n \in 1..N : f[n] = step[n][f[n - 1]]
    BY <2>1, RecursionExists
  <2> QED
    BY <2>2 DEF S, N, base
<1>8. PICK f \in [0..Len(s) -> Seq(M)] :
              /\ f[0] = <<>>
              /\ \A i \in 1..Len(s) : f[i] = step[i][f[i - 1]]
  BY <1>7
<1>9. \A i \in 1..Len(s) : f[i] = IF s[i].type \in types
                                  THEN Append(f[i - 1], s[i])
                                  ELSE f[i - 1]
  BY <1>3, <1>4, <1>8
<1> HIDE DEF Def
<1>10. \A i \in 0..Len(s) : f[i] = Def(f)[i]
  BY <1>4, <1>5, <1>8, <1>9
<1>11. f = Def(f)
  <2>1. f = [i \in 0..Len(s) |-> f[i]]
    BY <1>8
  <2> QED
    BY <2>1, <1>6, <1>10
<1>12. P = Def(P)
  BY <1>11
<1>13. OfType(s, types) = P[Len(s)]
  BY DEF OfType, Def
<1> HIDE DEF P
<1>14. /\ P[0] = <<>>
       /\ \A i \in 1..Len(s) : P[i] = IF s[i].type \in types
                                      THEN Append(P[i - 1], s[i])
                                      ELSE P[i - 1]
  BY <1>1, <1>4, <1>5, <1>12
<1>15. \A i \in 1..Len(s) : P[i - 1] \in Seq(M) => P[i] = step[i][P[i - 1]]
  BY <1>3, <1>14
<1>16. \A i \in 0..Len(s) : P[i] \in Seq(M)
  <2> DEFINE S == Seq(M)
             N == Len(s)
             base == <<>>
  <2>1. /\ step \in [1..N -> [S -> S]] /\ base \in S /\ N \in Nat
        /\ P[0] = base
        /\ \A i \in 1..N : P[i - 1] \in S => P[i] = step[i][P[i - 1]]
    BY <1>1, <1>2, <1>14, <1>15
  <2> HIDE DEF S, N, base
  <2>2. \A i \in 0..N : P[i] \in S
    BY <2>1, RecursionTyped
  <2> QED
    BY <2>2 DEF S, N
<1> QED
  BY <1>13, <1>14, <1>16

(***************************************************************************)
(* Filtering from the back.                                                *)
(***************************************************************************)
LEMMA OfTypeEmpty ==
    ASSUME NEW types
    PROVE  OfType(<<>>, types) = <<>>
<1>1. ASSUME NEW M, NEW e \in Seq(M), Len(e) = 0
      PROVE  OfType(e, types) = <<>>
  <2>1. PICK kept : OfType(e, types) = kept[Len(e)] /\ kept[0] = <<>>
    BY OfTypeRecursion
  <2> QED
    BY <1>1, <2>1
<1>2. <<>> \in Seq({}) /\ Len(<<>>) = 0
  OBVIOUS
<1> QED
  BY <1>1, <1>2

(***************************************************************************)
(* A message at the end stays when it is of the types.                     *)
(***************************************************************************)
LEMMA OfTypeAppend ==
    ASSUME NEW M, NEW s \in Seq(M), NEW x \in M, NEW types
    PROVE  OfType(Append(s, x), types)
              = IF x.type \in types THEN Append(OfType(s, types), x)
                                    ELSE OfType(s, types)
<1> DEFINE t == Append(s, x)
           n == Len(s)
<1>1. /\ t \in Seq(M) /\ Len(t) = n + 1 /\ n \in Nat
      /\ \A i \in 1..n : t[i] = s[i]
      /\ t[n + 1] = x
  OBVIOUS
<1> HIDE DEF t
<1>2. PICK S : /\ OfType(s, types) = S[n]
               /\ S[0] = <<>>
               /\ \A i \in 1..n : S[i] = IF s[i].type \in types
                                         THEN Append(S[i - 1], s[i])
                                         ELSE S[i - 1]
  BY OfTypeRecursion
<1>3. PICK U : /\ OfType(t, types) = U[n + 1]
               /\ U[0] = <<>>
               /\ \A i \in 1..(n + 1) : U[i] = IF t[i].type \in types
                                               THEN Append(U[i - 1], t[i])
                                               ELSE U[i - 1]
  <2>1. \E U : /\ OfType(t, types) = U[Len(t)]
               /\ U[0] = <<>>
               /\ \A i \in 1..Len(t) : U[i] = IF t[i].type \in types
                                              THEN Append(U[i - 1], t[i])
                                              ELSE U[i - 1]
    <3>1. t \in Seq(M)
      BY <1>1
    <3> QED
      BY <3>1, OfTypeRecursion
  <2> QED
    BY <1>1, <2>1
<1> HIDE DEF n
<1> DEFINE A == {i \in Nat : i <= n => U[i] = S[i]}
<1>4. 0 \in A
  BY <1>2, <1>3
<1>5. ASSUME NEW i \in Nat, i \in A PROVE i + 1 \in A
  <2> SUFFICES ASSUME i + 1 <= n PROVE U[i + 1] = S[i + 1]
    OBVIOUS
  <2>1. /\ i + 1 \in 1..n /\ i + 1 \in 1..(n + 1) /\ (i + 1) - 1 = i
        /\ U[i] = S[i]
    BY <1>1, <1>5
  <2>2. U[i + 1] = IF s[i + 1].type \in types
                   THEN Append(U[i], s[i + 1]) ELSE U[i]
    BY <2>1, <1>1, <1>3
  <2>3. S[i + 1] = IF s[i + 1].type \in types
                   THEN Append(S[i], s[i + 1]) ELSE S[i]
    BY <2>1, <1>2
  <2> QED
    BY <2>1, <2>2, <2>3
<1>6. U[n] = S[n]
  <2> HIDE DEF A
  <2>1. n \in A
    BY <1>1, <1>4, <1>5, SetInduction
  <2>2. n <= n
    BY <1>1
  <2> USE DEF A
  <2> QED
    BY <2>1, <2>2
<1>7. n + 1 \in 1..(n + 1) /\ (n + 1) - 1 = n
  BY <1>1
<1>8. U[n + 1] = IF x.type \in types THEN Append(U[n], x) ELSE U[n]
  BY <1>1, <1>3, <1>7
<1> QED
  BY <1>2, <1>3, <1>6, <1>8 DEF t

(***************************************************************************)
(* What is kept are messages of the queue, of the types asked for.         *)
(***************************************************************************)
LEMMA OfTypeKeeps ==
    ASSUME NEW M, NEW s \in Seq(M), NEW types
    PROVE  OfType(s, types) \in Seq({m \in M : m.type \in types})
<1> DEFINE K == {m \in M : m.type \in types}
           T == {q \in Seq(M) : OfType(q, types) \in Seq(K)}
<1>1. <<>> \in T
  <2>1. <<>> \in Seq(M) /\ <<>> \in Seq(K)
    OBVIOUS
  <2> QED
    BY <2>1, OfTypeEmpty
<1>2. ASSUME NEW q \in Seq(M), q \in T, NEW x \in M
      PROVE  Append(q, x) \in T
  <2>1. OfType(Append(q, x), types)
           = IF x.type \in types THEN Append(OfType(q, types), x)
                                 ELSE OfType(q, types)
    BY OfTypeAppend
  <2>2. x.type \in types => x \in K
    OBVIOUS
  <2> HIDE DEF K
  <2>3. \A v \in Seq(K), y \in K : Append(v, y) \in Seq(K)
    OBVIOUS
  <2>4. Append(q, x) \in Seq(M) /\ OfType(q, types) \in Seq(K)
    BY <1>2
  <2>5. OfType(Append(q, x), types) \in Seq(K)
    BY <2>1, <2>2, <2>3, <2>4
  <2> QED
    BY <2>4, <2>5
<1>3. Seq(M) \subseteq T
  BY <1>1, <1>2, QueueInduction
<1> QED
  BY <1>3

(***************************************************************************)
(* Joined queues are filtered each on its own.                             *)
(***************************************************************************)
LEMMA OfTypeConcat ==
    ASSUME NEW M, NEW s \in Seq(M), NEW t \in Seq(M), NEW types
    PROVE  OfType(s \o t, types) = OfType(s, types) \o OfType(t, types)
<1> DEFINE F(q) == OfType(q, types)
           T == {q \in Seq(M) : F(s \o q) = F(s) \o F(q)}
<1>1. \A q \in Seq(M) : F(q) \in Seq(M)
  <2> TAKE q \in Seq(M)
  <2>1. F(q) \in Seq({m \in M : m.type \in types})
    BY OfTypeKeeps
  <2> QED
    BY <2>1
<1>2. <<>> \in T
  <2>1. s \o <<>> = s /\ F(s) \o <<>> = F(s) /\ <<>> \in Seq(M)
    BY <1>1
  <2>2. F(<<>>) = <<>>
    BY OfTypeEmpty
  <2> HIDE DEF F
  <2> QED
    BY <2>1, <2>2
<1>3. ASSUME NEW q \in Seq(M), q \in T, NEW x \in M
      PROVE  Append(q, x) \in T
  <2>1. s \o Append(q, x) = Append(s \o q, x) /\ s \o q \in Seq(M)
    OBVIOUS
  <2>2. F(s) \o Append(F(q), x) = Append(F(s) \o F(q), x)
    BY <1>1
  <2>3. F(Append(q, x)) = IF x.type \in types THEN Append(F(q), x) ELSE F(q)
    BY OfTypeAppend
  <2>4. F(Append(s \o q, x))
           = IF x.type \in types THEN Append(F(s \o q), x) ELSE F(s \o q)
    <3> DEFINE both == s \o q
    <3>1. both \in Seq(M)
      BY <2>1
    <3> HIDE DEF both
    <3>2. F(Append(both, x))
             = IF x.type \in types THEN Append(F(both), x) ELSE F(both)
      BY <3>1, OfTypeAppend
    <3> QED
      BY <3>2 DEF both
  <2>5. F(s \o q) = F(s) \o F(q) /\ Append(q, x) \in Seq(M)
    BY <1>3
  <2> HIDE DEF F
  <2>6. F(s \o Append(q, x)) = F(s) \o F(Append(q, x))
    BY <2>1, <2>2, <2>3, <2>4, <2>5
  <2> QED
    BY <2>5, <2>6
<1>4. Seq(M) \subseteq T
  BY <1>2, <1>3, QueueInduction
<1> QED
  BY <1>4

(***************************************************************************)
(* A queue of one message.                                                 *)
(***************************************************************************)
LEMMA OfTypeOne ==
    ASSUME NEW x, NEW types
    PROVE  OfType(<<x>>, types) = IF x.type \in types THEN <<x>> ELSE <<>>
<1> DEFINE M == {x}
           e == <<>>
<1>1. e \in Seq(M) /\ x \in M
  OBVIOUS
<1>2. Append(e, x) = <<x>>
  OBVIOUS
<1>3. OfType(e, types) = e
  BY OfTypeEmpty
<1> HIDE DEF M, e
<1>4. OfType(Append(e, x), types)
         = IF x.type \in types THEN Append(OfType(e, types), x)
                               ELSE OfType(e, types)
  BY <1>1, OfTypeAppend
<1> QED
  BY <1>2, <1>3, <1>4 DEF e

(***************************************************************************)
(* All messages are kept, or none.                                         *)
(***************************************************************************)
LEMMA OfTypeAll ==
    ASSUME NEW M, NEW s \in Seq(M), NEW types, \A m \in M : m.type \in types
    PROVE  OfType(s, types) = s
<1> DEFINE T == {q \in Seq(M) : OfType(q, types) = q}
<1>1. <<>> \in T
  BY OfTypeEmpty
<1>2. ASSUME NEW q \in Seq(M), q \in T, NEW x \in M
      PROVE  Append(q, x) \in T
  BY <1>2, OfTypeAppend
<1>3. Seq(M) \subseteq T
  BY <1>1, <1>2, QueueInduction
<1> QED
  BY <1>3

(***************************************************************************)
(* A queue without messages of the types leaves nothing.                   *)
(***************************************************************************)
LEMMA OfTypeNone ==
    ASSUME NEW M, NEW s \in Seq(M), NEW types, \A m \in M : m.type \notin types
    PROVE  OfType(s, types) = <<>>
<1> DEFINE T == {q \in Seq(M) : OfType(q, types) = <<>>}
<1>1. <<>> \in T
  BY OfTypeEmpty
<1>2. ASSUME NEW q \in Seq(M), q \in T, NEW x \in M
      PROVE  Append(q, x) \in T
  BY <1>2, OfTypeAppend
<1>3. Seq(M) \subseteq T
  BY <1>1, <1>2, QueueInduction
<1> QED
  BY <1>3

(***************************************************************************)
(* A filter that lets through what a second one wants changes nothing for  *)
(* the second.                                                             *)
(***************************************************************************)
LEMMA OfTypeTwice ==
    ASSUME NEW M, NEW s \in Seq(M), NEW types, NEW wanted \in SUBSET types
    PROVE  OfType(OfType(s, types), wanted) = OfType(s, wanted)
<1> DEFINE F(q) == OfType(q, types)
           G(q) == OfType(q, wanted)
           T == {q \in Seq(M) : G(F(q)) = G(q)}
<1>1. <<>> \in T
  BY OfTypeEmpty
<1>2. ASSUME NEW q \in Seq(M), q \in T, NEW x \in M
      PROVE  Append(q, x) \in T
  <2>1. F(q) \in Seq(M)
    <3>1. F(q) \in Seq({m \in M : m.type \in types})
      BY OfTypeKeeps
    <3> QED
      BY <3>1
  <2>2. F(Append(q, x)) = IF x.type \in types THEN Append(F(q), x) ELSE F(q)
    BY OfTypeAppend
  <2>3. G(Append(q, x)) = IF x.type \in wanted THEN Append(G(q), x) ELSE G(q)
    BY OfTypeAppend
  <2>4. G(Append(F(q), x))
           = IF x.type \in wanted THEN Append(G(F(q)), x) ELSE G(F(q))
    BY <2>1, OfTypeAppend
  <2>5. Append(q, x) \in Seq(M)
    OBVIOUS
  <2> QED
    BY <1>2, <2>2, <2>3, <2>4, <2>5
<1>3. Seq(M) \subseteq T
  BY <1>1, <1>2, QueueInduction
<1> QED
  BY <1>3

(***************************************************************************)
(* Each message of the types is kept.                                      *)
(***************************************************************************)
LEMMA OfTypeFinds ==
    ASSUME NEW M, NEW s \in Seq(M), NEW types,
           NEW i \in DOMAIN s, s[i].type \in types
    PROVE  \E j \in DOMAIN OfType(s, types) : OfType(s, types)[j] = s[i]
<1> DEFINE F(q) == OfType(q, types)
           T == {q \in Seq(M) : \A n \in DOMAIN q : q[n].type \in types =>
                                   \E j \in DOMAIN F(q) : F(q)[j] = q[n]}
<1>1. <<>> \in T
  OBVIOUS
<1>2. ASSUME NEW q \in Seq(M), q \in T, NEW x \in M
      PROVE  Append(q, x) \in T
  <2> DEFINE v == Append(q, x)
  <2>1. /\ v \in Seq(M)
        /\ \A n \in DOMAIN v : (n \in DOMAIN q /\ v[n] = q[n]) \/ v[n] = x
    OBVIOUS
  <2>2. F(v) = IF x.type \in types THEN Append(F(q), x) ELSE F(q)
    BY OfTypeAppend
  <2>3. F(q) \in Seq(M)
    <3> DEFINE K == {m \in M : m.type \in types}
    <3>1. F(q) \in Seq(K)
      BY OfTypeKeeps
    <3>2. \A k \in K : k \in M
      OBVIOUS
    <3> HIDE DEF K, F
    <3> QED
      BY <3>1, <3>2
  <2> HIDE DEF v, F
  <2>4. /\ \A j \in DOMAIN F(q) : /\ j \in DOMAIN Append(F(q), x)
                                  /\ Append(F(q), x)[j] = F(q)[j]
        /\ Len(F(q)) + 1 \in DOMAIN Append(F(q), x)
        /\ Append(F(q), x)[Len(F(q)) + 1] = x
    BY <2>3
  <2>5. \A n \in DOMAIN v : v[n].type \in types =>
           \E j \in DOMAIN F(v) : F(v)[j] = v[n]
    BY <1>2, <2>1, <2>2, <2>4
  <2> QED
    BY <2>1, <2>5 DEF v
<1>3. Seq(M) \subseteq T
  <2> HIDE DEF T
  <2> QED
    BY <1>1, <1>2, QueueInduction
<1> QED
  BY <1>3

(***************************************************************************)
(* Nothing is left exactly when there was nothing of the types.            *)
(***************************************************************************)
LEMMA OfTypeLeavesNone ==
    ASSUME NEW M, NEW s \in Seq(M), NEW types
    PROVE  OfType(s, types) = <<>>
              <=> \A i \in DOMAIN s : s[i].type \notin types
<1>1. ASSUME OfType(s, types) = <<>>, NEW i \in DOMAIN s, s[i].type \in types
      PROVE  FALSE
  <2>1. \E j \in DOMAIN OfType(s, types) : OfType(s, types)[j] = s[i]
    BY <1>1, OfTypeFinds
  <2>2. DOMAIN <<>> = {}
    OBVIOUS
  <2> QED
    BY <1>1, <2>1, <2>2
<1>2. ASSUME \A i \in DOMAIN s : s[i].type \notin types
      PROVE  OfType(s, types) = <<>>
  <2> DEFINE K == {m \in M : m.type \notin types}
  <2>1. s \in Seq(K)
    <3>1. \A i \in DOMAIN s : s[i] \in K
      BY <1>2
    <3> HIDE DEF K
    <3>2. DOMAIN s = 1..Len(s) /\ Len(s) \in Nat /\ s = [i \in 1..Len(s) |-> s[i]]
      OBVIOUS
    <3> QED
      BY <3>1, <3>2
  <2>2. \A m \in K : m.type \notin types
    OBVIOUS
  <2> HIDE DEF K
  <2> QED
    BY <2>1, <2>2, OfTypeNone
<1> QED
  BY <1>1, <1>2
=============================================================================
