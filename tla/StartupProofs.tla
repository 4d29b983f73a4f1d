---------------------------- MODULE StartupProofs ----------------------------
(***************************************************************************)
(* Proofs about the start-up.                                              *)
(***************************************************************************)
EXTENDS StartupInvariant, QueueProofs, FiniteSetTheorems, SequenceTheorems

-----------------------------------------------------------------------------
(* The negotiation.                                                        *)

(***************************************************************************)
(* The first of some places is one of them, and none is before it.         *)
(***************************************************************************)
LEMMA FirstMember ==
    ASSUME NEW P \in SUBSET (Nat \X Nat), P # {}
    PROVE  First(P) \in P /\ \A q \in P : NotAfter(First(P), q)
<1> DEFINE A == {p[1] : p \in P}
<1>1. A \in SUBSET Nat /\ A # {}
  OBVIOUS
<1>2. PICK a \in A : \A x \in A : a <= x
  BY <1>1, LeastNumber
<1> DEFINE B == {p[2] : p \in {p \in P : p[1] = a}}
<1>3. B \in SUBSET Nat /\ B # {}
  OBVIOUS
<1>4. PICK b \in B : \A x \in B : b <= x
  BY <1>3, LeastNumber
<1>5. <<a, b>> \in P
  BY <1>4
<1>6. \A q \in P : NotAfter(<<a, b>>, q)
  <2> TAKE q \in P
  <2>1. q[1] \in A /\ q[1] \in Nat /\ a \in Nat
    BY <1>1
  <2>2. q[1] = a => q[2] \in B
    OBVIOUS
  <2> QED
    BY <1>2, <1>4, <2>1, <2>2 DEF NotAfter
<1> QED
  BY <1>5, <1>6 DEF First

(***************************************************************************)
(* A format of a list.                                                     *)
(***************************************************************************)
LEMMA FormatAt ==
    ASSUME NEW formats \in FormatLists, NEW k \in DOMAIN formats
    PROVE  /\ DOMAIN formats = 1..Len(formats) /\ Len(formats) \in Nat
           /\ k \in Nat
           /\ formats[k] \in [code : KnownFourccs, modifiers : Seq(Modifiers)]
           /\ formats[k].code \in KnownFourccs
           /\ formats[k].modifiers \in Seq(Modifiers)
<1> DEFINE F == [code : KnownFourccs, modifiers : Seq(Modifiers)]
<1>1. formats[k] \in F /\ DOMAIN formats = 1..Len(formats)
      /\ Len(formats) \in Nat /\ k \in Nat
  <2>1. formats \in Seq(F)
    BY DEF FormatLists
  <2> HIDE DEF F
  <2> QED
    BY <2>1
<1> QED
  BY <1>1

(***************************************************************************)
(* The places of a list of formats, and the pairs there.                   *)
(***************************************************************************)
LEMMA PlacesTyped ==
    ASSUME NEW formats \in FormatLists
    PROVE  /\ Places(formats) \in SUBSET (Nat \X Nat)
           /\ \A p \in Places(formats) :
                 PairAt(formats, p) \in
                    [format : KnownFourccs, modifier : Modifiers]
<1>1. ASSUME NEW k \in DOMAIN formats, NEW j \in DOMAIN formats[k].modifiers
      PROVE  /\ k \in Nat /\ j \in Nat
             /\ formats[k].code \in KnownFourccs
             /\ formats[k].modifiers[j] \in Modifiers
  <2>1. k \in Nat /\ formats[k].code \in KnownFourccs
    BY FormatAt
  <2> DEFINE ms == formats[k].modifiers
  <2>3. ms \in Seq(Modifiers)
    BY FormatAt
  <2> HIDE DEF ms
  <2>4. j \in DOMAIN ms
    BY DEF ms
  <2>5. j \in Nat /\ ms[j] \in Modifiers
    BY <2>3, <2>4
  <2> QED
    BY <2>1, <2>5 DEF ms
<1>2. ASSUME NEW p \in Places(formats)
      PROVE  \E k \in DOMAIN formats : \E j \in DOMAIN formats[k].modifiers :
                p = <<k, j>>
  BY DEF Places
<1>3. ASSUME NEW p \in Places(formats)
      PROVE  /\ p \in Nat \X Nat
             /\ PairAt(formats, p) \in
                   [format : KnownFourccs, modifier : Modifiers]
  <2>1. PICK k \in DOMAIN formats : \E j \in DOMAIN formats[k].modifiers :
           p = <<k, j>>
    BY <1>2
  <2>2. PICK j \in DOMAIN formats[k].modifiers : p = <<k, j>>
    BY <2>1
  <2> QED
    BY <1>1, <2>2 DEF PairAt
<1> QED
  BY <1>3

(***************************************************************************)
(* negotiate gives a pair of the list that the device supports, or nothing *)
(* when there is none.                                                     *)
(***************************************************************************)
LEMMA NegotiateGives ==
    ASSUME NEW formats \in FormatLists
    PROVE  LET common == {p \in Places(formats) :
                             Supported(PairAt(formats, p))}
               tiled == {p \in common : Tiled(PairAt(formats, p))}
           IN  IF common = {} THEN Negotiate(formats) = None
               ELSE \E p \in common :
                       /\ Negotiate(formats) = PairAt(formats, p)
                       /\ tiled # {} => p \in tiled
                       /\ \A q \in IF tiled # {} THEN tiled ELSE common :
                             NotAfter(p, q)
<1> DEFINE common == {p \in Places(formats) : Supported(PairAt(formats, p))}
           tiled == {p \in common : Tiled(PairAt(formats, p))}
           Goal(c, t) ==
              IF c = {} THEN Negotiate(formats) = None
              ELSE \E p \in c :
                      /\ Negotiate(formats) = PairAt(formats, p)
                      /\ t # {} => p \in t
                      /\ \A q \in IF t # {} THEN t ELSE c : NotAfter(p, q)
<1>1. common \in SUBSET (Nat \X Nat) /\ tiled \in SUBSET common
  BY PlacesTyped
<1>2. Negotiate(formats) = IF tiled # {} THEN PairAt(formats, First(tiled))
                           ELSE IF common # {}
                           THEN PairAt(formats, First(common))
                           ELSE None
  BY Zenon DEF Negotiate
<1> HIDE DEF common, tiled
<1>3. tiled # {} => /\ First(tiled) \in tiled
                    /\ \A q \in tiled : NotAfter(First(tiled), q)
  <2>1. tiled \in SUBSET (Nat \X Nat)
    BY <1>1
  <2> QED
    BY <2>1, FirstMember
<1>4. common # {} => /\ First(common) \in common
                     /\ \A q \in common : NotAfter(First(common), q)
  BY <1>1, FirstMember
<1>5. Goal(common, tiled)
  <2>1. CASE tiled # {}
    <3>1. First(tiled) \in common /\ common # {}
      BY <1>1, <1>3, <2>1
    <3> QED
      BY <1>2, <1>3, <2>1, <3>1
  <2>2. CASE tiled = {} /\ common # {}
    BY <1>2, <1>4, <2>2
  <2>3. CASE tiled = {} /\ common = {}
    BY <1>2, <2>3
  <2>4. CASE tiled # {} /\ common = {}
    BY <1>1, <2>4
  <2> QED
    BY <2>1, <2>2, <2>3, <2>4
<1> HIDE DEF Goal
<1>6. Goal(common, tiled)
  BY <1>5
<1> QED
  BY <1>6, Zenon DEF Goal, common, tiled

(***************************************************************************)
(* It has the type of a pair, and the device supports it.                  *)
(***************************************************************************)
LEMMA NegotiateTyped ==
    ASSUME NEW formats \in FormatLists
    PROVE  Negotiate(formats) # None =>
              /\ Negotiate(formats) \in
                    [format : KnownFourccs, modifier : Modifiers]
              /\ Supported(Negotiate(formats))
BY NegotiateGives, PlacesTyped

-----------------------------------------------------------------------------
(* The handler of tranche_formats.                                         *)

(***************************************************************************)
(* add_wayland_modifier, by cases: a format that was not listed, one that  *)
(* has the modifier, one that has it not.                                  *)
(***************************************************************************)
LEMMA AddModifierCases ==
    ASSUME NEW formats \in FormatLists, NEW entry
    PROVE  \/ /\ \A i \in DOMAIN formats : formats[i].code # entry.format
              /\ AddModifier(formats, entry)
                    = Append(formats, [code |-> entry.format,
                                       modifiers |-> <<entry.modifier>>])
           \/ \E at \in DOMAIN formats :
                 /\ formats[at].code = entry.format
                 /\ \/ /\ \E j \in DOMAIN formats[at].modifiers :
                             formats[at].modifiers[j] = entry.modifier
                       /\ AddModifier(formats, entry) = formats
                    \/ /\ \A j \in DOMAIN formats[at].modifiers :
                             formats[at].modifiers[j] # entry.modifier
                       /\ AddModifier(formats, entry)
                             = [formats EXCEPT ![at] =
                                  [code |-> entry.format,
                                   modifiers |-> Append(formats[at].modifiers,
                                                        entry.modifier)]]
<1> DEFINE I == {i \in 1..Len(formats) : formats[i].code = entry.format}
           at == IF I # {} THEN Min(I) ELSE 0
<1>1. /\ I \in SUBSET Nat
      /\ DOMAIN formats = 1..Len(formats)
  BY DEF FormatLists
<1>2. I # {} => at \in I
  <2> HIDE DEF I
  <2> SUFFICES ASSUME I # {} PROVE Min(I) \in I
    OBVIOUS
  <2>1. PICK x \in I : \A y \in I : x <= y
    BY <1>1, LeastNumber
  <2> QED
    BY <2>1 DEF Min
<1>3. AddModifier(formats, entry)
        = IF at = 0
          THEN Append(formats, [code |-> entry.format,
                                modifiers |-> <<entry.modifier>>])
          ELSE IF Contains(formats[at].modifiers, entry.modifier) THEN formats
          ELSE [formats EXCEPT ![at].modifiers = Append(@, entry.modifier)]
  BY DEF AddModifier, SelectInSeq
<1>4. CASE I = {}
  <2>1. \A i \in DOMAIN formats : formats[i].code # entry.format
    BY <1>1, <1>4
  <2> QED
    BY <1>3, <1>4, <2>1
<1>5. CASE I # {}
  <2>1. /\ at \in DOMAIN formats /\ formats[at].code = entry.format
        /\ at # 0
    BY <1>1, <1>2, <1>5
  <2> HIDE DEF at
  <2>2. formats[at].modifiers \in Seq(Modifiers)
    BY <2>1, FormatAt
  <2>3. DOMAIN formats[at].modifiers = 1..Len(formats[at].modifiers)
    BY <2>2
  <2>4. Contains(formats[at].modifiers, entry.modifier)
           <=> \E j \in DOMAIN formats[at].modifiers :
                  formats[at].modifiers[j] = entry.modifier
    BY <2>3 DEF Contains
  <2>5. [formats EXCEPT ![at].modifiers = Append(@, entry.modifier)]
           = [formats EXCEPT ![at] =
                [code |-> entry.format,
                 modifiers |-> Append(formats[at].modifiers, entry.modifier)]]
    <3> DEFINE f == formats[at]
    <3>1. /\ f \in [code : KnownFourccs, modifiers : Seq(Modifiers)]
          /\ f.code = entry.format
      BY <2>1, FormatAt
    <3>2. [formats EXCEPT ![at].modifiers = Append(@, entry.modifier)]
             = [formats EXCEPT ![at] =
                  [f EXCEPT !.modifiers = Append(@, entry.modifier)]]
      OBVIOUS
    <3> HIDE DEF f
    <3>3. [f EXCEPT !.modifiers = Append(@, entry.modifier)]
             = [code |-> entry.format,
                modifiers |-> Append(f.modifiers, entry.modifier)]
      <4>1. PICK c \in KnownFourccs, ms \in Seq(Modifiers) :
               f = [code |-> c, modifiers |-> ms]
        BY <3>1
      <4> DEFINE v == Append(f.modifiers, entry.modifier)
      <4> HIDE DEF v
      <4>2. [f EXCEPT !.modifiers = v] = [code |-> entry.format, modifiers |-> v]
        BY <3>1, <4>1
      <4> QED
        BY <4>2 DEF v
    <3>4. [formats EXCEPT ![at].modifiers = Append(@, entry.modifier)]
             = [formats EXCEPT ![at] =
                  [code |-> entry.format,
                   modifiers |-> Append(f.modifiers, entry.modifier)]]
      BY <3>2, <3>3
    <3> QED
      BY <3>4 DEF f
  <2> QED
    BY <1>3, <2>1, <2>4, <2>5
<1> QED
  BY <1>4, <1>5

(***************************************************************************)
(* A list of formats it stays.                                             *)
(***************************************************************************)
LEMMA AddModifierTyped ==
    ASSUME NEW formats \in FormatLists,
           NEW entry \in Entry, entry.format \in KnownFourccs
    PROVE  AddModifier(formats, entry) \in FormatLists
<1> DEFINE F == [code : KnownFourccs, modifiers : Seq(Modifiers)]
<1>1. entry.modifier \in Modifiers
  BY DEF Entry
<1>2. [code |-> entry.format, modifiers |-> <<entry.modifier>>] \in F
  BY <1>1
<1>3. ASSUME NEW at \in DOMAIN formats
      PROVE  [formats EXCEPT ![at] =
                [code |-> entry.format,
                 modifiers |-> Append(formats[at].modifiers, entry.modifier)]]
                \in FormatLists
  <2> DEFINE new == [code |-> entry.format,
                     modifiers |-> Append(formats[at].modifiers,
                                          entry.modifier)]
  <2>1. new \in F
    BY <1>1, FormatAt
  <2> HIDE DEF new, F
  <2>2. formats \in Seq(F)
    BY DEF FormatLists, F
  <2>3. [formats EXCEPT ![at] = new] \in Seq(F)
    BY <2>1, <2>2, SMTT(60)
  <2> QED
    BY <2>3 DEF FormatLists, F, new
<1>4. Append(formats, [code |-> entry.format,
                       modifiers |-> <<entry.modifier>>]) \in FormatLists
  BY <1>2 DEF FormatLists
<1> HIDE DEF F
<1> DEFINE new == Append(formats, [code |-> entry.format,
                                  modifiers |-> <<entry.modifier>>])
           longer(at) == [formats EXCEPT ![at] =
                            [code |-> entry.format,
                             modifiers |-> Append(formats[at].modifiers,
                                                  entry.modifier)]]
<1>5. \/ AddModifier(formats, entry) \in {new, formats}
      \/ \E at \in DOMAIN formats : AddModifier(formats, entry) = longer(at)
  BY AddModifierCases
<1>6. new \in FormatLists /\ \A at \in DOMAIN formats : longer(at) \in FormatLists
  BY <1>3, <1>4
<1> HIDE DEF new, longer
<1> QED
  BY <1>5, <1>6

(***************************************************************************)
(* An index of a tranche that can be used names an entry with a known      *)
(* format.                                                                 *)
(***************************************************************************)
LEMMA UsableEntry ==
    ASSUME NEW table \in Tables, NEW index \in Nat,
           Usable(table, index)
    PROVE  /\ table[index + 1] \in Entry
           /\ table[index + 1].format \in KnownFourccs
<1>1. table \in Seq(Entry) /\ index < Len(table)
  BY DEF Usable, Tables
<1>2. table[index + 1] \in Entry
  BY <1>1
<1> QED
  BY <1>2 DEF Usable

(***************************************************************************)
(* The recursion over the indices of a tranche has a solution, whose       *)
(* values are lists of formats.                                            *)
(***************************************************************************)
LEMMA AddTrancheRecursion ==
    ASSUME NEW formats \in FormatLists, NEW table \in Tables,
           NEW indices \in Tranche
    PROVE  \E added :
              /\ AddTranche(formats, table, indices) = added[Len(indices)]
              /\ added[0] = formats
              /\ \A k \in 0..Len(indices) : added[k] \in FormatLists
              /\ \A k \in 1..Len(indices) :
                    added[k] = IF Usable(table, indices[k])
                               THEN AddModifier(added[k - 1],
                                                table[indices[k] + 1])
                               ELSE added[k - 1]
<1> DEFINE N == Len(indices)
           S == FormatLists
           Use(k) == Usable(table, indices[k])
           Add(k, v) == AddModifier(v, table[indices[k] + 1])
           Def(f) == [k \in 0..N |->
                        IF k = 0 THEN formats
                        ELSE IF Use(k) THEN Add(k, f[k - 1])
                        ELSE f[k - 1]]
           step == [k \in 1..N |-> [v \in S |->
                      IF Use(k) THEN Add(k, v) ELSE v]]
           P == CHOOSE g : g = Def(g)
<1>1. N \in Nat /\ formats \in S
  BY DEF Tranche
<1>2. \A k \in 1..N : indices[k] \in Nat
  BY DEF Tranche
<1>3. \A k \in 1..N : Use(k) => \A v \in S : Add(k, v) \in S
  BY <1>2, UsableEntry, AddModifierTyped
<1>4. AddTranche(formats, table, indices) = P[N]
  BY DEF AddTranche
<1>5. /\ \A k \in 1..N : k # 0 /\ k \in 0..N /\ k - 1 \in 0..N
      /\ \A k \in 0..N : k = 0 \/ k \in 1..N
      /\ 0 \in 0..N
  BY <1>1
<1> HIDE DEF N, S, Use, Add
<1>6. /\ step \in [1..N -> [S -> S]]
      /\ \A k \in 1..N : \A v \in S :
            step[k][v] = IF Use(k) THEN Add(k, v) ELSE v
  BY <1>3
<1>7. \A f : \A k \in 0..N : Def(f)[k] = IF k = 0 THEN formats
                                         ELSE IF Use(k) THEN Add(k, f[k - 1])
                                         ELSE f[k - 1]
  OBVIOUS
<1>8. \A f : Def(f) = [k \in 0..N |-> Def(f)[k]]
  OBVIOUS
<1> HIDE DEF step, Def
<1>9. PICK f \in [0..N -> S] : /\ f[0] = formats
                               /\ \A k \in 1..N : f[k] = step[k][f[k - 1]]
  <2>1. step \in [1..N -> [S -> S]]
    BY <1>6
  <2> QED
    BY <1>1, <2>1, RecursionExists
<1>10. \A k \in 1..N : f[k] = IF Use(k) THEN Add(k, f[k - 1]) ELSE f[k - 1]
  BY <1>5, <1>6, <1>9
<1>11. \A k \in 0..N : f[k] = Def(f)[k]
  BY <1>5, <1>7, <1>9, <1>10
<1>12. f = Def(f)
  <2>1. f = [k \in 0..N |-> f[k]]
    BY <1>9
  <2> QED
    BY <2>1, <1>8, <1>11
<1>13. P = Def(P)
  BY <1>12
<1> HIDE DEF P
<1>14. /\ P[0] = formats
       /\ \A k \in 1..N : P[k] = IF Use(k) THEN Add(k, P[k - 1]) ELSE P[k - 1]
  BY <1>5, <1>7, <1>13
<1>15. \A k \in 1..N : P[k - 1] \in S => P[k] = step[k][P[k - 1]]
  BY <1>6, <1>14
<1>16. \A k \in 0..N : P[k] \in S
  BY <1>1, <1>6, <1>14, <1>15, RecursionTyped
<1> QED
  BY <1>4, <1>14, <1>16 DEF N, S, Use, Add

(***************************************************************************)
(* So a tranche leaves a list of formats.                                  *)
(***************************************************************************)
LEMMA AddTrancheTyped ==
    ASSUME NEW formats \in FormatLists, NEW table \in Tables,
           NEW indices \in Tranche
    PROVE  AddTranche(formats, table, indices) \in FormatLists
<1> DEFINE N == Len(indices)
<1>1. PICK added : /\ AddTranche(formats, table, indices) = added[N]
                   /\ \A k \in 0..N : added[k] \in FormatLists
  BY AddTrancheRecursion
<1>2. N \in 0..N
  BY DEF Tranche
<1> QED
  BY <1>1, <1>2

-----------------------------------------------------------------------------
(* Messages.                                                               *)

(***************************************************************************)
(* What a request and an event carry.                                      *)
(***************************************************************************)
LEMMA RequestFields ==
    /\ \A type \in PlainRequests : Message(type, None) \in RequestMessage
    /\ \A g \in Globals, v \in Nat : Bind(g, v) \in RequestMessage
    /\ \A r \in RequestMessage :
          /\ r.type \in PlainRequests \cup {"bind"}
          /\ r.type = "bind" => r.arg.global \in Globals /\ r.arg.version \in Nat
BY DEF RequestMessage, PlainRequests, Message, Bind

(***************************************************************************)
(* An event carries what its type says.                                    *)
(***************************************************************************)
LEMMA EventFields ==
    ASSUME NEW e \in EventMessage
    PROVE  /\ e.type \in EventTypes \cup {"done", "error"}
           /\ e.type = "global" => e.arg \in Globals
           /\ e.type = "main_device" => e.arg \in Devices
           /\ e.type = "format_table" => e.arg \in Seq(Entry)
           /\ e.type = "tranche_formats" => e.arg \in Tranche
BY DEF EventMessage, EventTypes, Tranche

(***************************************************************************)
(* And what carries that is an event.                                      *)
(***************************************************************************)
LEMMA EventsTyped ==
    /\ \A g \in Globals : Message("global", g) \in EventMessage
    /\ \A d \in Devices : Message("main_device", d) \in EventMessage
    /\ \A t \in Seq(Entry) : Message("format_table", t) \in EventMessage
    /\ \A t \in Tranche : Message("tranche_formats", t) \in EventMessage
    /\ \A type \in {"done", "error"} : Message(type, None) \in EventMessage
<1> DEFINE T == Seq(Entry)
           S == Seq(Nat)
<1> HIDE DEF T, S
<1> QED
  BY DEF EventMessage, Message, Tranche, T, S

(***************************************************************************)
(* The globals are announced once each, in some order.                     *)
(***************************************************************************)
LEMMA AnnounceOnce ==
    ASSUME NEW S \in SUBSET Globals, NEW order \in SetToSeqs(S)
    PROVE  /\ Announce(order) \in Seq({e \in EventMessage : e.type = "global"})
           /\ \A i \in DOMAIN Announce(order) : Announce(order)[i].arg \in S
           /\ \A i, j \in DOMAIN Announce(order) :
                 Announce(order)[i].arg = Announce(order)[j].arg => i = j
           /\ \A g \in S : \E i \in DOMAIN Announce(order) :
                              Announce(order)[i].arg = g
<1> DEFINE n == Cardinality(S)
           D == 1..n
<1>1. IsFiniteSet(S) /\ n \in Nat
  <2>1. IsFiniteSet({"wl_compositor"})
    BY FS_Singleton
  <2>2. IsFiniteSet({"wl_compositor"} \cup {"xdg_wm_base"})
    BY <2>1, FS_AddElement
  <2>3. IsFiniteSet({"wl_compositor"} \cup {"xdg_wm_base"} \cup {Dmabuf})
    BY <2>2, FS_AddElement
  <2>4. IsFiniteSet({"wl_compositor"} \cup {"xdg_wm_base"} \cup {Dmabuf}
                       \cup {SyncobjManager})
    BY <2>3, FS_AddElement
  <2>5. Globals = {"wl_compositor"} \cup {"xdg_wm_base"} \cup {Dmabuf}
                       \cup {SyncobjManager}
    BY DEF Globals, Dmabuf, SyncobjManager
  <2>6. IsFiniteSet(Globals)
    BY <2>4, <2>5
  <2> QED
    BY <2>6, FS_Subset, FS_CardinalityType
<1>2. /\ order \in [D -> S]
      /\ \A i, j \in D : i # j => order[i] # order[j]
  BY DEF SetToSeqs
<1>3. \A g \in S : \E i \in D : order[i] = g
  <2>1. order \in Injection(D, S)
    BY <1>2 DEF Injection, IsInjective
  <2>2. Cardinality(D) = n
    <3> HIDE DEF n
    <3>1. Cardinality(1..n) = IF 1 > n THEN 0 ELSE n - 1 + 1
      BY <1>1, FS_Interval
    <3> QED
      BY <1>1, <3>1
  <2> HIDE DEF D
  <2>3. order \in Surjection(D, S)
    BY <1>1, <2>1, <2>2, FS_Injection
  <2> QED
    BY <2>3 DEF Surjection
<1>4. Announce(order) = [i \in D |-> Message("global", order[i])]
  BY <1>2 DEF Announce
<1>5. \A i \in D : /\ Announce(order)[i].type = "global"
                   /\ Announce(order)[i].arg = order[i]
                   /\ Announce(order)[i] \in EventMessage
  BY <1>2, <1>4, EventsTyped DEF Message
<1>6. Announce(order) \in Seq({e \in EventMessage : e.type = "global"})
  <2> DEFINE E == {e \in EventMessage : e.type = "global"}
  <2>1. \A i \in D : Announce(order)[i] \in E
    BY <1>5
  <2> HIDE DEF E
  <2>2. Announce(order) \in [1..n -> E]
    BY <1>4, <2>1
  <2> HIDE DEF n
  <2> QED
    BY <1>1, <2>2 DEF E
<1>7. DOMAIN Announce(order) = D
  BY <1>4
<1> QED
  BY <1>2, <1>3, <1>5, <1>6, <1>7

(***************************************************************************)
(* The feedback: the main device, the table, then the tranches.            *)
(***************************************************************************)
LEMMA FeedbackEventsAre ==
    ASSUME NEW f \in Feedbacks
    PROVE  /\ f.device \in Devices /\ f.table \in Seq(Entry)
           /\ f.tranches \in Seq(Tranche) /\ Len(f.tranches) \in Nat
           /\ FeedbackEvents(f) \in
                 Seq({e \in EventMessage : e.type \in FeedbackTypes})
           /\ Len(FeedbackEvents(f)) = Len(f.tranches) + 2
           /\ FeedbackEvents(f)[1] = Message("main_device", f.device)
           /\ FeedbackEvents(f)[2] = Message("format_table", f.table)
           /\ \A k \in 1..Len(f.tranches) :
                 FeedbackEvents(f)[k + 2]
                    = Message("tranche_formats", f.tranches[k])
<1> DEFINE E == {e \in EventMessage : e.type \in FeedbackTypes}
           n == Len(f.tranches)
           a == Message("main_device", f.device)
           b == Message("format_table", f.table)
           c(k) == Message("tranche_formats", f.tranches[k])
           head == <<a, b>>
           rest == [k \in 1..n |-> c(k)]
<1>1. /\ f.device \in Devices /\ f.table \in Seq(Entry)
      /\ f.tranches \in Seq(Tranche)
  BY StartupAssumption DEF Tranche
<1>2. n \in Nat /\ DOMAIN f.tranches = 1..n
      /\ \A k \in 1..n : f.tranches[k] \in Tranche
  BY <1>1
<1>3. a \in E /\ b \in E /\ \A k \in 1..n : c(k) \in E
  BY <1>1, <1>2, EventsTyped DEF Message, FeedbackTypes
<1>4. FeedbackEvents(f) = head \o rest
  BY <1>2 DEF FeedbackEvents
<1> HIDE DEF E, a, b, c, n
<1>5. head \in Seq(E) /\ rest \in Seq(E) /\ Len(head) = 2 /\ Len(rest) = n
  BY <1>2, <1>3
<1>6. /\ head \o rest \in Seq(E) /\ Len(head \o rest) = n + 2
      /\ (head \o rest)[1] = a /\ (head \o rest)[2] = b
      /\ \A k \in 1..n : (head \o rest)[k + 2] = c(k)
  BY <1>2, <1>5
<1> QED
  BY <1>1, <1>2, <1>4, <1>6 DEF E, a, b, c, n

(***************************************************************************)
(* A joined queue has the types of both.                                   *)
(***************************************************************************)
LEMMA HasTypeConcat ==
    ASSUME NEW M, NEW s \in Seq(M), NEW t \in Seq(M), NEW type
    PROVE  HasType(s \o t, type) <=> HasType(s, type) \/ HasType(t, type)
<1>1. ASSUME HasType(s \o t, type) PROVE HasType(s, type) \/ HasType(t, type)
  <2>1. PICK i \in DOMAIN (s \o t) : (s \o t)[i].type = type
    BY <1>1 DEF HasType
  <2>2. CASE i <= Len(s)
    <3>1. i \in DOMAIN s /\ (s \o t)[i] = s[i]
      BY <2>2
    <3> QED
      BY <2>1, <3>1 DEF HasType
  <2>3. CASE i > Len(s)
    <3>1. i - Len(s) \in DOMAIN t /\ (s \o t)[i] = t[i - Len(s)]
      BY <2>3
    <3> QED
      BY <2>1, <3>1 DEF HasType
  <2> QED
    BY <2>2, <2>3
<1>2. ASSUME HasType(s, type) PROVE HasType(s \o t, type)
  <2>1. PICK i \in DOMAIN s : s[i].type = type
    BY <1>2 DEF HasType
  <2>2. i \in DOMAIN (s \o t) /\ (s \o t)[i] = s[i]
    OBVIOUS
  <2> QED
    BY <2>1, <2>2 DEF HasType
<1>3. ASSUME HasType(t, type) PROVE HasType(s \o t, type)
  <2>1. PICK i \in DOMAIN t : t[i].type = type
    BY <1>3 DEF HasType
  <2>2. Len(s) + i \in DOMAIN (s \o t) /\ (s \o t)[Len(s) + i] = t[i]
    OBVIOUS
  <2> QED
    BY <2>1, <2>2 DEF HasType
<1> QED
  BY <1>1, <1>2, <1>3

(***************************************************************************)
(* A queue has a type when something is left after filtering for it.       *)
(***************************************************************************)
LEMMA HasTypeFilter ==
    ASSUME NEW M, NEW s \in Seq(M), NEW type
    PROVE  HasType(s, type) <=> OfType(s, {type}) # <<>>
<1> DEFINE T == {q \in Seq(M) : HasType(q, type) <=> OfType(q, {type}) # <<>>}
<1>1. <<>> \in T
  BY OfTypeEmpty DEF HasType
<1>2. ASSUME NEW q \in Seq(M), q \in T, NEW x \in M PROVE Append(q, x) \in T
  <2> DEFINE one == <<x>>
  <2>1. /\ Append(q, x) \in Seq(M) /\ Append(q, x) = q \o one
        /\ one \in Seq(M)
    OBVIOUS
  <2>2. HasType(one, type) <=> x.type = type
    BY DEF HasType
  <2>3. HasType(Append(q, x), type) <=> HasType(q, type) \/ x.type = type
    <3> HIDE DEF one
    <3> QED
      BY <2>1, <2>2, HasTypeConcat
  <2>4. OfType(Append(q, x), {type})
           = IF x.type \in {type} THEN Append(OfType(q, {type}), x)
                                  ELSE OfType(q, {type})
    BY OfTypeAppend
  <2>5. OfType(q, {type}) \in Seq(M)
    <3>1. OfType(q, {type}) \in Seq({m \in M : m.type \in {type}})
      BY OfTypeKeeps
    <3> QED
      BY <3>1
  <2>6. Append(OfType(q, {type}), x) # <<>>
    <3> DEFINE v == OfType(q, {type})
    <3> HIDE DEF v
    <3>1. v \in Seq(M)
      BY <2>5 DEF v
    <3>2. Len(Append(v, x)) = Len(v) + 1 /\ Len(v) \in Nat
      BY <3>1
    <3>3. Append(v, x) # <<>>
      <4>1. Len(Append(v, x)) # 0 /\ Len(<<>>) = 0
        BY <3>2
      <4> QED
        BY <4>1
    <3> QED
      BY <3>3 DEF v
  <2> QED
    BY <1>2, <2>1, <2>3, <2>4, <2>6
<1>3. Seq(M) \subseteq T
  BY <1>1, <1>2, QueueInduction
<1> QED
  BY <1>3

-----------------------------------------------------------------------------
(* How the steps move messages.                                            *)

(***************************************************************************)
(* The first message of two queues in a row.                               *)
(***************************************************************************)
LEMMA FirstOfQueues ==
    ASSUME NEW M, NEW s \in Seq(M), NEW t \in Seq(M), s # <<>>
    PROVE  /\ s[1] \in M /\ Tail(s) \in Seq(M)
           /\ s \o t = <<s[1]>> \o (Tail(s) \o t)
           /\ Tail(s) \o t \in Seq(M)
           /\ s = <<s[1]>> \o Tail(s)
           /\ <<s[1]>> \in Seq(M)
OBVIOUS

(***************************************************************************)
(* Joining queues is associative.                                          *)
(***************************************************************************)
LEMMA JoinAssociative ==
    ASSUME NEW M, NEW s \in Seq(M), NEW t \in Seq(M), NEW v \in Seq(M)
    PROVE  (s \o t) \o v = s \o (t \o v) /\ s \o t \in Seq(M)
<1> DEFINE a == (s \o t) \o v
           b == s \o (t \o v)
<1>1. a \in Seq(M) /\ b \in Seq(M) /\ Len(a) = Len(b)
  OBVIOUS
<1>2. \A i \in 1..Len(a) : a[i] = b[i]
  OBVIOUS
<1>3. \A q \in Seq(M) : q = [i \in 1..Len(q) |-> q[i]]
  OBVIOUS
<1>4. s \o t \in Seq(M)
  OBVIOUS
<1> HIDE DEF a, b
<1>5. a = [i \in 1..Len(a) |-> a[i]] /\ b = [i \in 1..Len(b) |-> b[i]]
  BY <1>1, <1>3
<1>6. a = b
  BY <1>1, <1>2, <1>5
<1> QED
  BY <1>4, <1>6 DEF a, b

(***************************************************************************)
(* The queues hold messages.                                               *)
(***************************************************************************)
LEMMA QueuesTyped ==
    ASSUME MessagesOK
    PROVE  /\ requests \in Seq(RequestMessage) /\ sendbuf \in Seq(RequestMessage)
           /\ Up \in Seq(RequestMessage)
           /\ inbox \in Seq(EventMessage) /\ events \in Seq(EventMessage)
           /\ Down \in Seq(EventMessage)
<1> DEFINE K == {e \in EventMessage : e.type \in EventTypes}
<1>1. inbox \in Seq(EventMessage)
  <2>1. K \subseteq EventMessage
    OBVIOUS
  <2> HIDE DEF K
  <2>2. inbox \in Seq(K)
    BY DEF MessagesOK, K
  <2> QED
    BY <2>1, <2>2
<1>2. /\ requests \in Seq(RequestMessage) /\ sendbuf \in Seq(RequestMessage)
      /\ events \in Seq(EventMessage)
  BY DEF MessagesOK
<1>3. \A M : \A s, t \in Seq(M) : s \o t \in Seq(M)
  OBVIOUS
<1> QED
  BY <1>1, <1>2, <1>3 DEF Up, Down

(***************************************************************************)
(* A flush.                                                                *)
(***************************************************************************)
LEMMA FlushMoves ==
    ASSUME MessagesOK, requests' = requests \o sendbuf, sendbuf' = <<>>,
           UNCHANGED <<inbox, events>>
    PROVE  MessagesOK' /\ Up' = Up /\ Down' = Down
<1>1. \A M : \A s \in Seq(M) : s \o <<>> = s
  OBVIOUS
<1>2. Up \in Seq(RequestMessage)
  BY QueuesTyped
<1>3. Up' = Up /\ Down' = Down
  BY <1>1, <1>2 DEF Up, Down
<1>4. <<>> \in Seq(RequestMessage)
  OBVIOUS
<1> QED
  BY <1>2, <1>3, <1>4 DEF MessagesOK, Up

(***************************************************************************)
(* Requests put into the send buffer.                                      *)
(***************************************************************************)
LEMMA SendMoves ==
    ASSUME MessagesOK, NEW sent \in Seq(RequestMessage),
           sendbuf' = sendbuf \o sent, UNCHANGED requests
    PROVE  /\ Up' = Up \o sent
           /\ sendbuf' \in Seq(RequestMessage)
           /\ \A types : OfType(Up', types)
                            = OfType(Up, types) \o OfType(sent, types)
           /\ \A type : HasType(Up', type)
                           <=> HasType(Up, type) \/ HasType(sent, type)
<1>1. /\ requests \in Seq(RequestMessage) /\ sendbuf \in Seq(RequestMessage)
      /\ Up \in Seq(RequestMessage)
  BY QueuesTyped
<1>2. Up' = Up \o sent /\ sendbuf' \in Seq(RequestMessage)
  BY <1>1, JoinAssociative DEF Up
<1> HIDE DEF Up
<1>3. \A types : OfType(Up \o sent, types)
                    = OfType(Up, types) \o OfType(sent, types)
  <2> DEFINE u == Up
  <2>1. u \in Seq(RequestMessage)
    BY <1>1
  <2> HIDE DEF u
  <2>2. \A types : OfType(u \o sent, types)
                      = OfType(u, types) \o OfType(sent, types)
    BY <2>1, OfTypeConcat
  <2> QED
    BY <2>2 DEF u
<1>4. \A type : HasType(Up \o sent, type)
                    <=> HasType(Up, type) \/ HasType(sent, type)
  BY <1>1, HasTypeConcat
<1> QED
  BY <1>2, <1>3, <1>4

(***************************************************************************)
(* A request read.                                                         *)
(***************************************************************************)
LEMMA RequestMoves ==
    ASSUME MessagesOK, requests # <<>>, requests' = Tail(requests),
           UNCHANGED sendbuf
    PROVE  /\ requests[1] \in RequestMessage
           /\ requests' \in Seq(RequestMessage)
           /\ Up = <<requests[1]>> \o Up'
           /\ Up' \in Seq(RequestMessage)
           /\ \A types : OfType(Up, types)
                            = OfType(<<requests[1]>>, types) \o OfType(Up', types)
           /\ \A type : HasType(Up, type)
                           <=> requests[1].type = type \/ HasType(Up', type)
<1>1. /\ requests \in Seq(RequestMessage) /\ sendbuf \in Seq(RequestMessage)
      /\ Up \in Seq(RequestMessage)
  BY QueuesTyped
<1> DEFINE one == <<requests[1]>>
<1>2. /\ requests[1] \in RequestMessage
      /\ requests' \in Seq(RequestMessage)
      /\ Up = one \o Up'
      /\ Up' \in Seq(RequestMessage)
      /\ one \in Seq(RequestMessage)
  BY <1>1, FirstOfQueues DEF Up
<1>3. \A type : HasType(one, type) <=> requests[1].type = type
  BY DEF HasType
<1> HIDE DEF Up, one
<1>4. /\ \A types : OfType(Up, types) = OfType(one, types) \o OfType(Up', types)
      /\ \A type : HasType(Up, type) <=> HasType(one, type) \/ HasType(Up', type)
  <2> DEFINE later == Up'
  <2>1. /\ one \in Seq(RequestMessage) /\ later \in Seq(RequestMessage)
        /\ Up = one \o later
    BY <1>2
  <2> HIDE DEF later
  <2>2. \A types : OfType(one \o later, types)
                      = OfType(one, types) \o OfType(later, types)
    BY <2>1, OfTypeConcat
  <2>3. \A type : HasType(one \o later, type)
                     <=> HasType(one, type) \/ HasType(later, type)
    BY <2>1, HasTypeConcat
  <2> QED
    BY <2>1, <2>2, <2>3 DEF later
<1> QED
  BY <1>2, <1>3, <1>4 DEF one

(***************************************************************************)
(* Events sent.                                                            *)
(***************************************************************************)
LEMMA EventMoves ==
    ASSUME MessagesOK, NEW sent \in Seq(EventMessage),
           events' = events \o sent, UNCHANGED inbox
    PROVE  /\ Down' = Down \o sent
           /\ events' \in Seq(EventMessage)
           /\ \A types : OfType(Down', types)
                            = OfType(Down, types) \o OfType(sent, types)
           /\ \A types : OfType(events', types)
                            = OfType(events, types) \o OfType(sent, types)
<1>1. /\ inbox \in Seq(EventMessage) /\ events \in Seq(EventMessage)
      /\ Down \in Seq(EventMessage)
  BY QueuesTyped
<1>2. Down' = Down \o sent /\ events' \in Seq(EventMessage)
  BY <1>1, JoinAssociative DEF Down
<1> HIDE DEF Down
<1>3. ASSUME NEW q \in Seq(EventMessage)
      PROVE  \A types : OfType(q \o sent, types)
                           = OfType(q, types) \o OfType(sent, types)
  BY OfTypeConcat
<1>4. /\ \A types : OfType(Down \o sent, types)
                       = OfType(Down, types) \o OfType(sent, types)
      /\ \A types : OfType(events \o sent, types)
                       = OfType(events, types) \o OfType(sent, types)
  BY <1>1, <1>3
<1> QED
  BY <1>2, <1>3, <1>4

(***************************************************************************)
(* An event handled.                                                       *)
(***************************************************************************)
LEMMA HandleMoves ==
    ASSUME MessagesOK, inbox # <<>>, inbox' = Tail(inbox), UNCHANGED events
    PROVE  /\ inbox[1] \in EventMessage
           /\ inbox[1].type \in EventTypes
           /\ inbox' \in Seq({e \in EventMessage : e.type \in EventTypes})
           /\ Down = <<inbox[1]>> \o Down'
           /\ Down' \in Seq(EventMessage)
           /\ \A types : OfType(Down, types)
                            = OfType(<<inbox[1]>>, types) \o OfType(Down', types)
<1> DEFINE K == {e \in EventMessage : e.type \in EventTypes}
<1>1. /\ inbox \in Seq(EventMessage) /\ events \in Seq(EventMessage)
      /\ inbox \in Seq(K)
  BY QueuesTyped DEF MessagesOK
<1>2. inbox[1] \in K /\ inbox' \in Seq(K)
  <2> HIDE DEF K
  <2> QED
    BY <1>1, FirstOfQueues
<1> DEFINE one == <<inbox[1]>>
<1>3. /\ Down = one \o Down'
      /\ Down' \in Seq(EventMessage)
      /\ one \in Seq(EventMessage)
  BY <1>1, FirstOfQueues DEF Down
<1> HIDE DEF Down, one
<1>4. \A types : OfType(Down, types) = OfType(one, types) \o OfType(Down', types)
  BY <1>3, OfTypeConcat
<1> QED
  BY <1>2, <1>3, <1>4 DEF one

(***************************************************************************)
(* Events read: a prefix, of which those with handlers go to the inbox.    *)
(***************************************************************************)
LEMMA ReadMoves ==
    ASSUME MessagesOK, NEW n \in 1..Len(events), Read(n)
    PROVE  \E batch \in Seq(EventMessage) :
              /\ events = batch \o events' /\ Len(batch) = n
              /\ \A i \in 1..n : batch[i] = events[i]
              /\ inbox = <<>> /\ Down = events
              /\ ~HasType(batch, "error")
              /\ inbox' = OfType(batch, EventTypes)
              /\ done' = (done \/ HasType(batch, "done"))
              /\ MessagesOK' /\ Up' = Up
              /\ \A types : /\ OfType(events, types)
                                  = OfType(batch, types) \o OfType(events', types)
                            /\ types \subseteq EventTypes =>
                                  OfType(Down', types) = OfType(Down, types)
<1> DEFINE batch == SubSeq(events, 1, n)
<1>1. /\ inbox \in Seq(EventMessage) /\ events \in Seq(EventMessage)
      /\ inbox = <<>>
  BY QueuesTyped DEF Read, Dispatching
<1>2. /\ batch \in Seq(EventMessage) /\ events' \in Seq(EventMessage)
      /\ Len(batch) = n /\ \A i \in 1..n : batch[i] = events[i]
      /\ Len(events') = Len(events) - n
      /\ \A i \in 1..(Len(events) - n) : events'[i] = events[n + i]
  <2>1. events' = SubSeq(events, n + 1, Len(events))
    BY DEF Read
  <2> QED
    BY <1>1, <2>1
<1>3. events = batch \o events'
  <2> HIDE DEF batch
  <2> DEFINE v == batch \o events'
  <2>1. /\ v \in Seq(EventMessage) /\ Len(v) = n + Len(events')
        /\ \A i \in 1..(n + Len(events')) :
              v[i] = IF i <= n THEN batch[i] ELSE events'[i - n]
    BY <1>2, ConcatProperties
  <2>2. Len(v) = Len(events) /\ Len(events) \in Nat
    BY <1>1, <1>2, <2>1
  <2> HIDE DEF v
  <2>3. ASSUME NEW i \in 1..Len(v) PROVE v[i] = events[i]
    <3>1. CASE i <= n
      BY <1>2, <2>1, <2>2, <3>1
    <3>2. CASE i > n
      <4>1. i - n \in 1..(Len(events) - n) /\ n + (i - n) = i
        BY <2>2, <3>2
      <4>2. v[i] = events'[i - n]
        BY <2>1, <2>2, <1>2, <3>2
      <4> QED
        BY <1>2, <4>1, <4>2
    <3> QED
      BY <3>1, <3>2, <2>2
  <2>4. v = events
    BY <1>1, <2>1, <2>2, <2>3, SeqEqual
  <2> QED
    BY <2>4 DEF v
<1>4. /\ ~HasType(batch, "error") /\ inbox' = OfType(batch, EventTypes)
      /\ done' = (done \/ HasType(batch, "done"))
      /\ UNCHANGED <<sendbuf, requests>>
  BY DEF Read
<1> HIDE DEF batch
<1>5. \A M : \A q \in Seq(M) : <<>> \o q = q
  OBVIOUS
<1>6. Down = events
  BY <1>1, <1>5 DEF Down
<1>7. \A types : OfType(events, types)
                    = OfType(batch, types) \o OfType(events', types)
  BY <1>2, <1>3, OfTypeConcat
<1>8. inbox' \in Seq({e \in EventMessage : e.type \in EventTypes})
  BY <1>2, <1>4, OfTypeKeeps
<1>9. MessagesOK' /\ Up' = Up
  BY <1>2, <1>4, <1>8 DEF MessagesOK, Up
<1>10. ASSUME NEW types \in SUBSET EventTypes
       PROVE  OfType(Down', types) = OfType(Down, types)
  <2>1. inbox' \in Seq(EventMessage) /\ Down' = inbox' \o events'
    <3>1. {e \in EventMessage : e.type \in EventTypes} \subseteq EventMessage
      OBVIOUS
    <3> QED
      BY <1>8, <3>1, SeqMonotonic DEF Down
  <2>2. OfType(Down', types) = OfType(inbox', types) \o OfType(events', types)
    BY <1>2, <2>1, OfTypeConcat
  <2>3. OfType(inbox', types) = OfType(batch, types)
    BY <1>2, <1>4, OfTypeTwice
  <2> QED
    BY <1>6, <1>7, <2>2, <2>3
<1> QED
  BY <1>2, <1>3, <1>1, <1>4, <1>6, <1>7, <1>9, <1>10

-----------------------------------------------------------------------------
(* The types.                                                              *)

(***************************************************************************)
(* The send buffer grows, and the rest of the queues stays.                *)
(***************************************************************************)
LEMMA TypesAfterSend ==
    ASSUME MessagesOK, NEW sent \in Seq(RequestMessage),
           sendbuf' = sendbuf \o sent, UNCHANGED <<requests, inbox, events>>
    PROVE  MessagesOK'
BY SendMoves DEF MessagesOK

(***************************************************************************)
(* The feedback handlers.                                                  *)
(***************************************************************************)
LEMMA FeedbackHandlersTyped ==
    ASSUME StartupTypeOK, NEW e \in EventMessage, OnFeedback(e)
    PROVE  FeedbackTypeOK' /\ faults' \in 0..MaxFaults
<1>1. FeedbackTypeOK /\ faults \in 0..MaxFaults /\ MaxFaults \in Nat
  BY StartupAssumption DEF StartupTypeOK
<1>2. CASE e.type = "main_device" /\ OnMainDevice(e.arg) /\ UNCHANGED faults
  BY <1>1, <1>2, EventFields DEF FeedbackTypeOK, OnMainDevice
<1>3. CASE e.type = "format_table" /\ OnFormatTable(e.arg) /\ UNCHANGED faults
  BY <1>1, <1>3, EventFields DEF FeedbackTypeOK, OnFormatTable, Tables
<1>4. CASE /\ e.type = "format_table" /\ faults < MaxFaults
           /\ OnFormatTableFails /\ faults' = faults + 1
  BY <1>1, <1>4
  DEF FeedbackTypeOK, OnFormatTable, OnFormatTableFails, Tables
<1>5. CASE e.type = "tranche_formats" /\ OnTrancheFormats(e.arg)
             /\ UNCHANGED faults
  BY <1>1, <1>5, EventFields, AddTrancheTyped
  DEF FeedbackTypeOK, OnTrancheFormats
<1> QED
  BY <1>2, <1>3, <1>4, <1>5 DEF OnFeedback

(***************************************************************************)
(* negotiate and set_buffer_format.                                        *)
(***************************************************************************)
LEMMA NegotiateFormatTyped ==
    ASSUME StartupTypeOK, NegotiateFormat
    PROVE  /\ NegotiationTypeOK' /\ stage' \in {"exited", "syncobj"}
           /\ stage' = "syncobj" => buffer_fmt' # None /\ Supported(buffer_fmt)'
           /\ device_mods' = device_mods
<1>1. dmabuf_formats \in FormatLists /\ NegotiationTypeOK
  BY DEF StartupTypeOK, FeedbackTypeOK
<1>2. None \notin Entry
  BY NegotiationAssumption
<1>3. [format : KnownFourccs, modifier : Modifiers] \subseteq Entry
  BY FeedbackAssumption DEF Entry
<1>4. CASE Negotiate(dmabuf_formats) = None
  <2>1. stage' = "exited" /\ UNCHANGED negotiationVars
    BY <1>4 DEF NegotiateFormat, Step
  <2> QED
    BY <1>1, <2>1 DEF NegotiationTypeOK, negotiationVars
<1>5. CASE Negotiate(dmabuf_formats) # None
  <2> DEFINE pair == Negotiate(dmabuf_formats)
  <2>1. /\ pair \in [format : KnownFourccs, modifier : Modifiers]
        /\ Supported(pair)
    BY <1>1, <1>5, NegotiateTyped
  <2>2. stage' = "syncobj" /\ SetBufferFormat(pair)
    BY <1>5 DEF NegotiateFormat, Step
  <2> HIDE DEF pair
  <2>3. buffer_fmt' = pair /\ device_mods' = device_mods /\ pair \in Entry
    BY <1>3, <2>1, <2>2 DEF SetBufferFormat
  <2>4. Supported(buffer_fmt)'
    BY <2>1, <2>3 DEF Supported, SupportedModifiers, VulkanModifiers
  <2> QED
    BY <1>1, <1>2, <2>2, <2>3, <2>4 DEF NegotiationTypeOK
<1> QED
  BY <1>4, <1>5

-----------------------------------------------------------------------------
(* The globals.                                                            *)

(***************************************************************************)
(* The first of the globals under way is bound.                            *)
(***************************************************************************)
LEMMA ListsOnceTail ==
    ASSUME NEW M, NEW x \in M, NEW rest \in Seq(M), NEW globals,
           ListsOnce(<<x>> \o rest, globals)
    PROVE  x.arg \in globals /\ ListsOnce(rest, globals \ {x.arg})
<1> DEFINE q == <<x>> \o rest
<1>1. /\ DOMAIN q = 1..(Len(rest) + 1) /\ q[1] = x
      /\ DOMAIN rest = 1..Len(rest) /\ Len(rest) \in Nat
      /\ \A i \in 1..Len(rest) : q[i + 1] = rest[i]
  OBVIOUS
<1> HIDE DEF q
<1>2. /\ \A g \in globals : \E i \in DOMAIN q : q[i].arg = g
      /\ \A i \in DOMAIN q :
            /\ q[i].arg \in globals
            /\ \A j \in DOMAIN q : q[i].arg = q[j].arg => i = j
  BY DEF ListsOnce, q
<1>3. x.arg \in globals
  BY <1>1, <1>2
<1>4. \A i \in DOMAIN rest : i + 1 \in DOMAIN q /\ i + 1 # 1 /\ i \in Nat
  BY <1>1
<1>5. ASSUME NEW g \in globals \ {x.arg}
      PROVE  \E i \in DOMAIN rest : rest[i].arg = g
  <2>1. PICK i \in DOMAIN q : q[i].arg = g
    BY <1>2
  <2>2. i # 1
    BY <1>1, <2>1
  <2>3. i - 1 \in DOMAIN rest /\ (i - 1) + 1 = i
    BY <1>1, <2>2
  <2> QED
    BY <1>1, <2>1, <2>3
<1>6. ASSUME NEW i \in DOMAIN rest
      PROVE  rest[i].arg \in globals \ {x.arg}
  <2>1. i + 1 \in DOMAIN q /\ 1 \in DOMAIN q /\ i + 1 # 1
        /\ q[i + 1] = rest[i]
    BY <1>1, <1>4
  <2>2. q[i + 1].arg \in globals /\ q[i + 1].arg # q[1].arg
    BY <1>2, <2>1
  <2> QED
    BY <1>1, <2>1, <2>2
<1>7. ASSUME NEW i \in DOMAIN rest, NEW j \in DOMAIN rest,
             rest[i].arg = rest[j].arg
      PROVE  i = j
  <2>1. i + 1 = j + 1
    BY <1>1, <1>2, <1>4, <1>7
  <2> QED
    BY <1>4, <2>1
<1> QED
  BY <1>3, <1>5, <1>6, <1>7 DEF ListsOnce

(***************************************************************************)
(* A global is announced that was not there.                               *)
(***************************************************************************)
LEMMA ListsOnceAppend ==
    ASSUME NEW M, NEW x \in M, NEW q \in Seq(M), NEW globals,
           ListsOnce(q, globals), x.arg \notin globals
    PROVE  ListsOnce(q \o <<x>>, globals \cup {x.arg})
<1> DEFINE r == q \o <<x>>
           n == Len(q)
<1>1. /\ DOMAIN r = 1..(n + 1) /\ r[n + 1] = x /\ n \in Nat
      /\ DOMAIN q = 1..n
      /\ \A i \in 1..n : r[i] = q[i]
  OBVIOUS
<1> HIDE DEF r, n
<1>2. /\ \A g \in globals : \E i \in DOMAIN q : q[i].arg = g
      /\ \A i \in DOMAIN q :
            /\ q[i].arg \in globals
            /\ \A j \in DOMAIN q : q[i].arg = q[j].arg => i = j
  BY DEF ListsOnce
<1>3. \A i \in DOMAIN r : i \in 1..n \/ i = n + 1
  BY <1>1
<1>4. ASSUME NEW g \in globals \cup {x.arg}
      PROVE  \E i \in DOMAIN r : r[i].arg = g
  <2>1. n + 1 \in DOMAIN r /\ \A i \in 1..n : i \in DOMAIN r
    BY <1>1
  <2> QED
    BY <1>1, <1>2, <2>1
<1>5. ASSUME NEW i \in DOMAIN r
      PROVE  r[i].arg \in globals \cup {x.arg}
  BY <1>1, <1>2, <1>3
<1>6. ASSUME NEW i \in DOMAIN r, NEW j \in DOMAIN r, r[i].arg = r[j].arg
      PROVE  i = j
  BY <1>1, <1>2, <1>3, <1>6
<1> QED
  BY <1>4, <1>5, <1>6 DEF ListsOnce, r

(***************************************************************************)
(* A step of main that leaves the registry alone.                          *)
(***************************************************************************)
LEMMA OtherStepsKeepRegistry ==
    ASSUME RegistryInv, StartupTypeOK',
           NEW sent \in Seq(RequestMessage), ~HasType(sent, "get_registry"),
           sendbuf' = sendbuf \o sent,
           UNCHANGED <<requests, inbox, events, announced, bound, early,
                       offer>>,
           Unread => /\ stage' \in {"globals", "exited"}
                     /\ done' = done /\ UNCHANGED Up
    PROVE  RegistryInv'
<1>1. MessagesOK
  BY DEF RegistryInv
<1>2. /\ MessagesOK' /\ Down' = Down
      /\ HasType(Up', "get_registry") <=> HasType(Up, "get_registry")
  BY <1>1, TypesAfterSend, SendMoves DEF Down
<1>3. RegistryRead' <=> RegistryRead
  BY <1>2 DEF RegistryRead
<1>4. Unread => Unread'
  BY <1>2 DEF Unread
<1>5. Pending' = Pending
  BY <1>2 DEF Pending
<1> QED
  BY <1>2, <1>3, <1>4, <1>5 DEF RegistryInv, GlobalsOnce

(***************************************************************************)
(* Once the compositor is at work, get_registry has been read.             *)
(***************************************************************************)
LEMMA ReadByThen ==
    ASSUME RegistryInv,
           \/ inbox # <<>> \/ events # <<>> \/ done \/ offer # None
           \/ stage \notin {"globals", "exited"}
    PROVE  RegistryRead
<1>1. Unread => inbox = <<>> /\ events = <<>>
  <2>1. /\ inbox \in Seq(EventMessage) /\ events \in Seq(EventMessage)
    BY QueuesTyped DEF RegistryInv
  <2> QED
    BY <2>1, ConcatEqualIffEmpty DEF Unread, Down
<1> QED
  BY <1>1 DEF RegistryInv, Unread

(***************************************************************************)
(* The start.                                                              *)
(***************************************************************************)
LEMMA RegistryStart ==
    ASSUME Init
    PROVE  RegistryInv
<1> DEFINE a == Message("get_registry", None)
           e == <<>>
           two == <<a, Sync>>
<1>1. a \in RequestMessage /\ Sync \in RequestMessage
  BY RequestFields DEF PlainRequests, Sync
<1>2. two \in Seq(RequestMessage) /\ \A M : e \in Seq(M)
  BY <1>1
<1>3. /\ requests = e /\ inbox = e /\ events = e /\ sendbuf = two
      /\ announced = {} /\ bound = {} /\ offer = None /\ stage = "globals"
      /\ done = FALSE
  BY DEF Init
<1> HIDE DEF two, a
<1>4. MessagesOK
  BY <1>2, <1>3 DEF MessagesOK
<1>5. Up = two /\ Down = <<>>
  BY <1>2, <1>3, ConcatEmptySeq DEF Up, Down
<1>6. Unread
  BY <1>3, <1>5 DEF Unread, two, a
<1>7. StartupTypeOK
  <2>1. FeedbackTypeOK
    BY DEF Init, FeedbackInit, FeedbackTypeOK, Tables, FormatLists
  <2>2. NegotiationTypeOK
    BY DEF Init, NegotiationInit, NegotiationTypeOK
  <2>3. /\ faults \in 0..MaxFaults /\ version \in Versions
        /\ early \subseteq Globals /\ announced \subseteq Globals
        /\ bound \subseteq announced /\ offer \in Feedbacks \cup {None}
        /\ stage \in Stages
    BY StartupAssumption DEF Init, Stages
  <2>4. {done, surface, surface_sync, syncobj_timeline, window}
           \subseteq BOOLEAN
    BY DEF Init
  <2> QED
    BY <2>1, <2>2, <2>3, <2>4 DEF StartupTypeOK
<1>8. HasType(Up, "get_registry")
  <2>1. 1 \in DOMAIN two /\ two[1].type = "get_registry"
    BY DEF two, a, Message
  <2> QED
    BY <1>5, <2>1 DEF HasType
<1>9. Pending = <<>>
  BY <1>5, OfTypeEmpty DEF Pending
<1>10. GlobalsOnce
  BY <1>3, <1>8, <1>9 DEF GlobalsOnce, RegistryRead, ListsOnce
<1> QED
  BY <1>4, <1>6, <1>7, <1>10 DEF RegistryInv

(***************************************************************************)
(* A flush keeps the registry invariant.                                   *)
(***************************************************************************)
LEMMA RegistryFlush ==
    ASSUME RegistryInv, Flush
    PROVE  RegistryInv'
<1>1. MessagesOK' /\ Up' = Up /\ Down' = Down
  BY FlushMoves DEF RegistryInv, Flush
<1>2. UNCHANGED <<feedbackVars, negotiationVars, mainVars, compositorVars,
                  faults>>
  BY DEF Flush
<1>3. StartupTypeOK'
  BY <1>2 DEF RegistryInv, StartupTypeOK, FeedbackTypeOK, NegotiationTypeOK,
     feedbackVars, negotiationVars, mainVars, windowVars, compositorVars
<1> QED
  BY <1>1, <1>2, <1>3
  DEF RegistryInv, Unread, RegistryRead, GlobalsOnce, Pending, mainVars,
      compositorVars

(***************************************************************************)
(* So does a read.                                                         *)
(***************************************************************************)
LEMMA RegistryReads ==
    ASSUME RegistryInv, NEW n \in 1..Len(events), Read(n)
    PROVE  RegistryInv'
<1>1. MessagesOK
  BY DEF RegistryInv
<1>2. /\ MessagesOK' /\ Up' = Up /\ done' \in BOOLEAN
      /\ \A types \in SUBSET EventTypes :
            OfType(Down', types) = OfType(Down, types)
  <2>1. PICK batch \in Seq(EventMessage) :
           /\ MessagesOK' /\ Up' = Up
           /\ done' = (done \/ HasType(batch, "done"))
           /\ \A types : types \subseteq EventTypes =>
                  OfType(Down', types) = OfType(Down, types)
    BY <1>1, ReadMoves
  <2>2. done \in BOOLEAN
    BY DEF RegistryInv, StartupTypeOK
  <2> QED
    BY <2>1, <2>2
<1>3. Pending' = Pending
  <2>1. {"global"} \subseteq EventTypes
    BY DEF EventTypes
  <2> QED
    BY <1>2, <2>1 DEF Pending
<1>4. UNCHANGED <<feedbackVars, negotiationVars, stage, bound, windowVars,
                  compositorVars, faults>>
  BY DEF Read
<1>5. StartupTypeOK'
  BY <1>2, <1>4 DEF RegistryInv, StartupTypeOK, FeedbackTypeOK,
     NegotiationTypeOK, feedbackVars, negotiationVars, windowVars,
     compositorVars
<1>6. RegistryRead
  <2>1. events # <<>>
    BY QueuesTyped DEF RegistryInv
  <2> QED
    BY <2>1, ReadByThen
<1> QED
  BY <1>2, <1>3, <1>4, <1>5, <1>6
  DEF RegistryInv, RegistryRead, GlobalsOnce, compositorVars

(***************************************************************************)
(* Handling an event may bind a global.                                    *)
(***************************************************************************)
LEMMA RegistryHandle ==
    ASSUME RegistryInv, HandleEvent
    PROVE  RegistryInv'
<1> DEFINE h == inbox[1]
<1>1. /\ MessagesOK /\ inbox # <<>> /\ inbox' = Tail(inbox)
      /\ UNCHANGED <<events, requests>>
      /\ UNCHANGED <<negotiationVars, stage, done, windowVars, compositorVars>>
  BY DEF HandleEvent, RegistryInv
<1>2. /\ h \in EventMessage /\ h.type \in EventTypes
      /\ inbox' \in Seq({e \in EventMessage : e.type \in EventTypes})
      /\ Down' \in Seq(EventMessage)
      /\ Pending = OfType(<<h>>, {"global"}) \o Pending'
  BY <1>1, HandleMoves DEF Pending
<1>3. RegistryRead
  BY <1>1, ReadByThen
<1>4. OfType(<<h>>, {"global"}) = IF h.type = "global" THEN <<h>> ELSE <<>>
  BY OfTypeOne
<1>5. Pending' \in Seq(EventMessage)
  <2>1. Pending' \in Seq({m \in EventMessage : m.type \in {"global"}})
    BY <1>2, OfTypeKeeps DEF Pending
  <2>2. {m \in EventMessage : m.type \in {"global"}} \subseteq EventMessage
    OBVIOUS
  <2> QED
    BY <2>1, <2>2, SeqMonotonic
<1> HIDE DEF h
<1>6. CASE h.type = "global" /\ OnGlobal(h.arg)
  <2> DEFINE g == h.arg
             sent == IF g = "zwp_linux_dmabuf_v1"
                     THEN <<Bind(g, 5), Message("get_default_feedback", None)>>
                     ELSE <<Bind(g, 1)>>
  <2>1. g \in Globals
    BY <1>2, <1>6, EventFields
  <2>2. /\ Bind(g, 5) \in RequestMessage /\ Bind(g, 1) \in RequestMessage
        /\ Message("get_default_feedback", None) \in RequestMessage
    BY <2>1, RequestFields DEF PlainRequests
  <2>3. sent \in Seq(RequestMessage) /\ ~HasType(sent, "get_registry")
    <3>1. CASE g = "zwp_linux_dmabuf_v1"
      <4>1. /\ Bind(g, 5).type = "bind"
            /\ Message("get_default_feedback", None).type
                  = "get_default_feedback"
        BY DEF Bind, Message
      <4> QED
        BY <2>2, <3>1, <4>1 DEF HasType
    <3>2. CASE g # "zwp_linux_dmabuf_v1"
      <4>1. Bind(g, 1).type = "bind"
        BY DEF Bind, Message
      <4> QED
        BY <2>2, <3>2, <4>1 DEF HasType
    <3> QED
      BY <3>1, <3>2
  <2>4. /\ bound' = bound \cup {g} /\ sendbuf' = sendbuf \o sent
        /\ UNCHANGED <<feedbackVars, faults>>
    BY <1>6 DEF OnGlobal
  <2> HIDE DEF sent
  <2>5. /\ sendbuf' \in Seq(RequestMessage)
        /\ RegistryRead'
    BY <1>1, <1>3, <2>3, <2>4, SendMoves DEF RegistryRead
  <2>6. MessagesOK'
    BY <1>1, <1>2, <2>5 DEF MessagesOK
  <2>7. /\ g \in announced \ bound
        /\ ListsOnce(Pending', (announced \ bound) \ {g})
    <3>1. ListsOnce(<<h>> \o Pending', announced \ bound)
      BY <1>2, <1>4, <1>6 DEF RegistryInv, GlobalsOnce
    <3> HIDE DEF Pending
    <3> DEFINE rest == Pending'
               globals == announced \ bound
    <3>2. rest \in Seq(EventMessage) /\ ListsOnce(<<h>> \o rest, globals)
      BY <1>5, <3>1
    <3> HIDE DEF rest, globals
    <3>3. h.arg \in globals /\ ListsOnce(rest, globals \ {h.arg})
      BY <1>2, <3>2, ListsOnceTail
    <3> QED
      BY <3>3 DEF rest, globals
  <2>8. (announced \ bound) \ {g} = (announced \ bound)'
    BY <1>1, <2>4 DEF compositorVars
  <2>9. GlobalsOnce'
    <3>1. /\ announced' = announced /\ early' = early
          /\ bound \subseteq announced /\ early \subseteq announced
      BY <1>1, <1>3 DEF compositorVars, RegistryInv, GlobalsOnce
    <3>2. ListsOnce(Pending, announced \ bound)'
      BY <2>7, <2>8
    <3> QED
      BY <2>4, <2>7, <3>1, <3>2 DEF GlobalsOnce
  <2>10. StartupTypeOK'
    BY <1>1, <2>4, <2>7 DEF RegistryInv, StartupTypeOK, FeedbackTypeOK,
       NegotiationTypeOK, feedbackVars, negotiationVars, windowVars,
       compositorVars
  <2> QED
    BY <2>5, <2>6, <2>9, <2>10 DEF RegistryInv
<1>7. CASE OnFeedback(h)
  <2>1. UNCHANGED <<bound, sendbuf>> /\ h.type # "global"
    BY <1>7 DEF OnFeedback
  <2>2. FeedbackTypeOK' /\ faults' \in 0..MaxFaults
    BY <1>2, <1>7, FeedbackHandlersTyped DEF RegistryInv
  <2>3. MessagesOK' /\ Up' = Up
    BY <1>1, <1>2, <2>1 DEF MessagesOK, Up
  <2>4. Pending' = Pending
    BY <1>2, <1>4, <1>5, <2>1, ConcatEmptySeq
  <2>5. StartupTypeOK'
    BY <1>1, <2>1, <2>2 DEF RegistryInv, StartupTypeOK, NegotiationTypeOK,
       negotiationVars, windowVars, compositorVars
  <2> QED
    BY <1>1, <1>3, <2>1, <2>3, <2>4, <2>5
    DEF RegistryInv, RegistryRead, GlobalsOnce, compositorVars
<1> QED
  BY <1>6, <1>7 DEF HandleEvent, h

(***************************************************************************)
(* What the compositor sends for a request, and what it leaves behind.     *)
(***************************************************************************)
LEMMA AnswerSends ==
    ASSUME StartupTypeOK, MessagesOK, NextRequest
    PROVE  \E sent \in Seq(EventMessage) :
              /\ events' = events \o sent
              /\ IF requests[1].type = "get_registry"
                 THEN /\ announced' = early
                      /\ OfType(sent, {"global"}) = sent
                      /\ ListsOnce(sent, early)
                 ELSE /\ announced' = announced
                      /\ OfType(sent, {"global"}) = <<>>
              /\ IF requests[1].type = "get_default_feedback"
                 THEN /\ offer' \in Feedbacks
                      /\ sent = FeedbackEvents(offer')
                      /\ OfType(sent, FeedbackTypes) = sent
                 ELSE /\ offer' = offer
                      /\ OfType(sent, FeedbackTypes) = <<>>
              /\ IF requests[1].type = "sync"
                 THEN sent = <<Message("done", None)>>
                 ELSE OfType(sent, {"done"}) = <<>>
<1> DEFINE r == requests[1]
<1>1. Answer(r)
  BY DEF NextRequest
<1>2. \A x : \A s \in {<<>>, <<x>>} : \A types :
         x.type \notin types => OfType(s, types) = <<>>
  BY OfTypeOne, OfTypeEmpty
<1>3. events \in Seq(EventMessage) /\ events \o <<>> = events
      /\ <<>> \in Seq(EventMessage)
      /\ \A x \in EventMessage : <<x>> \in Seq(EventMessage)
                                 /\ Append(events, x) = events \o <<x>>
  BY DEF MessagesOK
<1>4. /\ Message("done", None) \in EventMessage
      /\ Message("error", None) \in EventMessage
      /\ Message("done", None).type = "done"
      /\ Message("error", None).type = "error"
  BY EventsTyped DEF Message
<1>5. \A types : OfType(<<>>, types) = <<>>
  BY OfTypeEmpty
<1>6. "done" \notin {"global"} \cup FeedbackTypes
      /\ "error" \notin {"global", "done"} \cup FeedbackTypes
  BY DEF FeedbackTypes
<1>7. CASE r.type = "get_registry"
  <2>1. PICK order \in SetToSeqs(early) : events' = events \o Announce(order)
    BY <1>1, <1>7 DEF Answer
  <2>2. announced' = early /\ offer' = offer
    BY <1>1, <1>7 DEF Answer
  <2> DEFINE sent == Announce(order)
             G == {e \in EventMessage : e.type = "global"}
  <2>3. early \in SUBSET Globals
    BY DEF StartupTypeOK
  <2>4. /\ sent \in Seq(G)
        /\ ListsOnce(sent, early)
    BY <2>3, AnnounceOnce DEF ListsOnce
  <2> HIDE DEF sent
  <2>5. \A m \in G : m.type \in {"global"} /\ m.type \notin FeedbackTypes
                     /\ m.type \notin {"done"}
    BY DEF FeedbackTypes
  <2>6. G \subseteq EventMessage
    OBVIOUS
  <2> HIDE DEF G
  <2>7. sent \in Seq(EventMessage)
    BY <2>4, <2>6, SeqMonotonic
  <2>8. OfType(sent, {"global"}) = sent
    BY <2>4, <2>5, OfTypeAll
  <2>9. OfType(sent, FeedbackTypes) = <<>> /\ OfType(sent, {"done"}) = <<>>
    BY <2>4, <2>5, OfTypeNone
  <2>10. events' = events \o sent
    BY <2>1 DEF sent
  <2> QED
    BY <1>7, <2>2, <2>4, <2>7, <2>8, <2>9, <2>10
<1>8. CASE r.type = "sync"
  <2> DEFINE sent == <<Message("done", None)>>
  <2>1. /\ announced' = announced /\ offer' = offer
        /\ events' = Append(events, Message("done", None))
    BY <1>1, <1>8 DEF Answer
  <2>2. events' = events \o sent /\ sent \in Seq(EventMessage)
    BY <1>3, <1>4, <2>1
  <2>3. OfType(sent, {"global"}) = <<>> /\ OfType(sent, FeedbackTypes) = <<>>
    BY <1>2, <1>4, <1>6
  <2> HIDE DEF sent
  <2>4. /\ r.type # "get_registry" /\ r.type # "get_default_feedback"
    BY <1>8
  <2> QED
    BY <1>8, <2>1, <2>2, <2>3, <2>4 DEF sent
<1>9. CASE r.type = "bind"
  <2>1. announced' = announced /\ offer' = offer
        /\ \/ events' = events
           \/ events' = Append(events, Message("error", None))
    BY <1>1, <1>9 DEF Answer
  <2>2. PICK sent \in {<<>>, <<Message("error", None)>>} :
           events' = events \o sent
    BY <1>3, <1>4, <2>1
  <2>3. sent \in Seq(EventMessage)
    BY <1>3, <1>4
  <2>4. /\ OfType(sent, {"global"}) = <<>>
        /\ OfType(sent, FeedbackTypes) = <<>>
        /\ OfType(sent, {"done"}) = <<>>
    BY <1>2, <1>4, <1>6
  <2>5. /\ r.type # "get_registry" /\ r.type # "get_default_feedback"
        /\ r.type # "sync"
    BY <1>9
  <2> QED
    BY <2>1, <2>2, <2>3, <2>4, <2>5
<1>10. CASE r.type = "get_default_feedback"
  <2>1. PICK f \in Feedbacks : /\ offer' = f
                               /\ events' = events \o FeedbackEvents(f)
    BY <1>1, <1>10 DEF Answer
  <2>2. announced' = announced
    BY <1>1, <1>10 DEF Answer
  <2> DEFINE sent == FeedbackEvents(f)
             G == {e \in EventMessage : e.type \in FeedbackTypes}
  <2>3. sent \in Seq(G)
    BY FeedbackEventsAre
  <2> HIDE DEF sent
  <2>4. \A m \in G : m.type \notin {"global"} /\ m.type \in FeedbackTypes
                     /\ m.type \notin {"done"}
    BY DEF FeedbackTypes
  <2>5. G \subseteq EventMessage
    OBVIOUS
  <2> HIDE DEF G
  <2>6. sent \in Seq(EventMessage)
    BY <2>3, <2>5, SeqMonotonic
  <2>7. OfType(sent, FeedbackTypes) = sent
    BY <2>3, <2>4, OfTypeAll
  <2>8. OfType(sent, {"global"}) = <<>> /\ OfType(sent, {"done"}) = <<>>
    BY <2>3, <2>4, OfTypeNone
  <2>9. events' = events \o sent /\ sent = FeedbackEvents(offer')
    BY <2>1 DEF sent
  <2>10. r.type # "get_registry" /\ r.type # "sync"
    BY <1>10
  <2> QED
    BY <1>10, <2>1, <2>2, <2>6, <2>7, <2>8, <2>9, <2>10
<1>11. CASE r.type \in {"import_timeline", "get_toplevel", "get_surface",
                        "commit"}
  <2>1. announced' = announced /\ offer' = offer /\ events' = events
    BY <1>1, <1>11 DEF Answer
  <2>2. /\ r.type # "get_registry" /\ r.type # "get_default_feedback"
        /\ r.type # "sync"
    BY <1>11
  <2> QED
    BY <1>3, <1>5, <2>1, <2>2
<1> QED
  BY <1>1, <1>7, <1>8, <1>9, <1>10, <1>11 DEF Answer

(***************************************************************************)
(* The compositor reads a request.                                         *)
(***************************************************************************)
LEMMA RegistryAnswer ==
    ASSUME RegistryInv, NextRequest
    PROVE  RegistryInv'
<1> DEFINE r == requests[1]
<1>1. /\ MessagesOK /\ StartupTypeOK
      /\ requests # <<>> /\ requests' = Tail(requests) /\ Answer(r)
      /\ UNCHANGED <<feedbackVars, negotiationVars, mainVars, sendbuf, inbox,
                     early, version, faults>>
  BY DEF NextRequest, RegistryInv
<1>2. PICK sent \in Seq(EventMessage) :
         /\ events' = events \o sent
         /\ IF r.type = "get_registry"
            THEN /\ announced' = early
                 /\ OfType(sent, {"global"}) = sent
                 /\ ListsOnce(sent, early)
            ELSE /\ announced' = announced
                 /\ OfType(sent, {"global"}) = <<>>
         /\ IF r.type = "get_default_feedback" THEN offer' \in Feedbacks
                                               ELSE offer' = offer
  BY <1>1, AnswerSends
<1>3. /\ r \in RequestMessage /\ requests' \in Seq(RequestMessage)
      /\ Up = <<r>> \o Up' /\ Up' \in Seq(RequestMessage)
      /\ \A type : HasType(Up, type) <=> r.type = type \/ HasType(Up', type)
  BY <1>1, RequestMoves
<1>4. /\ events' \in Seq(EventMessage)
      /\ Down' = Down \o sent
      /\ Pending' = Pending \o OfType(sent, {"global"})
  BY <1>1, <1>2, EventMoves DEF Pending
<1>5. MessagesOK'
  BY <1>1, <1>3, <1>4 DEF MessagesOK
<1>6. offer' \in Feedbacks \cup {None}
  BY <1>1, <1>2 DEF StartupTypeOK
<1>7. window' \in BOOLEAN
  BY <1>1 DEF Answer, StartupTypeOK
<1> HIDE DEF r
<1>8. CASE Unread
  <2> DEFINE a == Message("get_registry", None)
  <2>1. Up = <<a, Sync>> /\ Down = <<>> /\ announced = {} /\ bound = {}
    BY <1>8 DEF Unread
  <2>2. a.type = "get_registry" /\ Sync.type = "sync"
    BY DEF Message, Sync
  <2> HIDE DEF a
  <2>3. r = a /\ Up' = <<Sync>>
    <3> DEFINE v == Up'
               q == <<r>> \o v
               two == <<a, Sync>>
    <3>1. /\ v \in Seq(RequestMessage) /\ Len(v) \in Nat
          /\ Len(q) = 1 + Len(v) /\ q[1] = r
          /\ \A i \in 1..Len(v) : q[i + 1] = v[i]
      BY <1>3
    <3>2. Len(two) = 2 /\ two[1] = a /\ two[2] = Sync
      OBVIOUS
    <3>3. q = two
      BY <1>3, <2>1
    <3> HIDE DEF v, q, two
    <3>4. Len(v) = 1 /\ r = a
      <4>1. 2 = 1 + Len(v) /\ Len(v) \in Nat
        BY <3>1, <3>2, <3>3
      <4>2. \A k \in Nat : 2 = 1 + k => k = 1
        OBVIOUS
      <4>3. Len(v) = 1
        BY <4>1, <4>2
      <4>4. q[1] = r /\ q[1] = a
        BY <3>1, <3>2, <3>3
      <4> QED
        BY <4>3, <4>4
    <3>5. v[1] = Sync
      BY <3>1, <3>2, <3>3, <3>4
    <3>6. v = <<Sync>>
      BY <3>1, <3>4, <3>5
    <3> QED
      BY <3>4, <3>6 DEF v
  <2>4. r.type = "get_registry"
    BY <2>2, <2>3
  <2>5. announced' = early /\ ListsOnce(sent, early)
        /\ OfType(sent, {"global"}) = sent
    BY <1>2, <2>4
  <2>6. RegistryRead'
    <3>1. ~ HasType(<<Sync>>, "get_registry")
      BY <2>2 DEF HasType
    <3> QED
      BY <2>3, <3>1 DEF RegistryRead
  <2>7. Pending' = sent
    <3>1. Pending = <<>>
      BY <2>1, OfTypeEmpty DEF Pending
    <3> QED
      BY <1>4, <2>5, <3>1, ConcatEmptySeq
  <2>8. bound' = {} /\ early' = early
    BY <1>1, <2>1 DEF mainVars
  <2>9. GlobalsOnce'
    <3>1. (announced \ bound)' = early
      BY <2>5, <2>8
    <3> QED
      BY <2>5, <2>7, <2>8, <3>1 DEF GlobalsOnce
  <2>10. StartupTypeOK'
    BY <1>1, <1>6, <1>7, <2>5, <2>8 DEF StartupTypeOK, FeedbackTypeOK,
       NegotiationTypeOK, feedbackVars, negotiationVars, mainVars, windowVars
  <2> QED
    BY <1>5, <2>6, <2>9, <2>10 DEF RegistryInv
<1>9. CASE RegistryRead
  <2>1. r.type # "get_registry" /\ RegistryRead'
    BY <1>3, <1>9 DEF RegistryRead
  <2>2. announced' = announced /\ Pending' = Pending \o <<>>
    BY <1>2, <1>4, <2>1
  <2>3. Pending' = Pending
    <3>1. Pending \in Seq({m \in EventMessage : m.type \in {"global"}})
      BY <1>1, QueuesTyped, OfTypeKeeps DEF Pending
    <3> QED
      BY <2>2, <3>1, ConcatEmptySeq
  <2>4. bound' = bound /\ early' = early
    BY <1>1 DEF mainVars
  <2>5. GlobalsOnce'
    BY <1>9, <2>2, <2>3, <2>4 DEF GlobalsOnce, RegistryInv
  <2>6. StartupTypeOK'
    BY <1>1, <1>6, <1>7, <2>2, <2>4 DEF StartupTypeOK, FeedbackTypeOK,
       NegotiationTypeOK, feedbackVars, negotiationVars, mainVars, windowVars
  <2> QED
    BY <1>5, <2>1, <2>5, <2>6 DEF RegistryInv
<1> QED
  BY <1>8, <1>9 DEF RegistryInv

(***************************************************************************)
(* A global is announced late.                                             *)
(***************************************************************************)
LEMMA RegistryLateGlobal ==
    ASSUME RegistryInv, LateGlobal
    PROVE  RegistryInv'
<1>1. PICK g \in Globals \ announced :
         /\ announced' = announced \cup {g}
         /\ events' = Append(events, Message("global", g))
  BY DEF LateGlobal
<1> DEFINE x == Message("global", g)
           sent == <<x>>
<1>2. /\ MessagesOK /\ StartupTypeOK
      /\ UNCHANGED <<feedbackVars, negotiationVars, mainVars, sendbuf, inbox,
                     requests, early, version, offer, window, faults>>
  BY DEF LateGlobal, RegistryInv
<1>3. x \in EventMessage /\ x.type = "global" /\ x.arg = g
  BY EventsTyped DEF Message
<1>4. sent \in Seq(EventMessage) /\ events' = events \o sent
  BY <1>1, <1>2, <1>3 DEF MessagesOK
<1>5. OfType(sent, {"global"}) = sent
  BY <1>3, OfTypeOne
<1> HIDE DEF x, sent
<1>6. /\ events' \in Seq(EventMessage)
      /\ Pending' = Pending \o sent
  <2>1. UNCHANGED inbox
    BY <1>2
  <2>2. /\ events' \in Seq(EventMessage)
        /\ OfType(Down', {"global"})
              = OfType(Down, {"global"}) \o OfType(sent, {"global"})
    BY <1>2, <1>4, <2>1, EventMoves
  <2> QED
    BY <1>5, <2>2 DEF Pending
<1>7. MessagesOK' /\ Up' = Up
  BY <1>2, <1>6 DEF MessagesOK, Up
<1>8. RegistryRead
  <2>1. \A r \in ToSet(Up) : r.type # "get_registry"
    BY DEF LateGlobal, Up
  <2> QED
    BY <2>1 DEF RegistryRead, HasType, ToSet
<1>9. bound' = bound /\ early' = early /\ bound \subseteq announced
  BY <1>2 DEF mainVars, StartupTypeOK
<1>10. ListsOnce(Pending, announced \ bound)'
  <2> DEFINE q == Pending
             globals == announced \ bound
  <2>1. q \in Seq(EventMessage)
    <3>1. q \in Seq({m \in EventMessage : m.type \in {"global"}})
      BY <1>2, QueuesTyped, OfTypeKeeps DEF Pending
    <3>2. {m \in EventMessage : m.type \in {"global"}} \subseteq EventMessage
      OBVIOUS
    <3> QED
      BY <3>1, <3>2, SeqMonotonic
  <2>2. ListsOnce(q, globals) /\ x.arg \notin globals
    BY <1>3 DEF RegistryInv, GlobalsOnce
  <2>3. (announced \ bound)' = globals \cup {x.arg}
    BY <1>1, <1>3, <1>9
  <2> HIDE DEF q, globals
  <2>4. ListsOnce(q \o <<x>>, globals \cup {x.arg})
    BY <1>3, <2>1, <2>2, ListsOnceAppend
  <2> QED
    BY <1>6, <2>3, <2>4 DEF q, sent
<1>11. GlobalsOnce'
  BY <1>1, <1>8, <1>9, <1>10 DEF GlobalsOnce, RegistryInv
<1>12. StartupTypeOK'
  BY <1>1, <1>2, <1>9 DEF StartupTypeOK, FeedbackTypeOK,
     NegotiationTypeOK, feedbackVars, negotiationVars, mainVars, windowVars
<1> QED
  BY <1>7, <1>8, <1>11, <1>12 DEF RegistryInv, RegistryRead

(***************************************************************************)
(* The other steps of main: they handle no events, and the requests they   *)
(* send are those of the roundtrips, the timeline and the window.          *)
(***************************************************************************)
OtherSteps ==
    \/ ReadError \/ RoundtripReturns \/ ChooseDevice \/ NewRenderer
    \/ NegotiateFormat \/ ImportTimeline \/ InitWindow \/ BuildPipeline
    \/ StepFails

(***************************************************************************)
(* What main asks for after the roundtrips.                                *)
(***************************************************************************)
LateRequests == {"import_timeline", "get_toplevel", "get_surface", "commit"}

(***************************************************************************)
(* What these steps send.                                                  *)
(***************************************************************************)
LEMMA OtherStepsSend ==
    ASSUME MessagesOK, OtherSteps
    PROVE  \E sent \in Seq(RequestMessage) :
              /\ sendbuf' = sendbuf \o sent
              /\ \/ /\ RoundtripReturns /\ stage = "globals" /\ sent = <<Sync>>
                 \/ /\ ~(RoundtripReturns /\ stage = "globals")
                    /\ \A i \in DOMAIN sent : sent[i].type \in LateRequests
              /\ stage \in {"globals", "feedback"} /\ ~RoundtripReturns =>
                    sent = <<>> /\ stage' = "exited" /\ done' = done
<1> DEFINE Goal(sent) ==
              /\ sendbuf' = sendbuf \o sent
              /\ \/ /\ RoundtripReturns /\ stage = "globals" /\ sent = <<Sync>>
                 \/ /\ ~(RoundtripReturns /\ stage = "globals")
                    /\ \A i \in DOMAIN sent : sent[i].type \in LateRequests
              /\ stage \in {"globals", "feedback"} /\ ~RoundtripReturns =>
                    sent = <<>> /\ stage' = "exited" /\ done' = done
<1>1. sendbuf \in Seq(RequestMessage)
  BY DEF MessagesOK
<1>2. /\ sendbuf \o <<>> = sendbuf /\ <<>> \in Seq(RequestMessage)
      /\ \A x \in RequestMessage : /\ Append(sendbuf, x) = sendbuf \o <<x>>
                                   /\ <<x>> \in Seq(RequestMessage)
      /\ \A x : DOMAIN <<x>> = {1} /\ <<x>>[1] = x
      /\ DOMAIN <<>> = {}
  BY <1>1
<1>3. /\ Sync \in RequestMessage
      /\ \A type \in LateRequests : /\ Message(type, None) \in RequestMessage
                                    /\ Message(type, None).type = type
  BY RequestFields DEF LateRequests, PlainRequests, Sync, Message
<1>4. CASE RoundtripReturns /\ stage = "globals"
  <2>1. sendbuf' = sendbuf \o <<Sync>>
    BY <1>2, <1>3, <1>4 DEF RoundtripReturns
  <2> QED
    BY <1>2, <1>3, <1>4, <2>1
<1>5. ASSUME sendbuf' = sendbuf, ~(RoundtripReturns /\ stage = "globals"),
             stage \in {"globals", "feedback"} /\ ~RoundtripReturns =>
                    stage' = "exited" /\ done' = done
      PROVE  Goal(<<>>)
  BY <1>2, <1>5
<1>6. ASSUME NEW type \in LateRequests, ~RoundtripReturns,
             stage \notin {"globals", "feedback"},
             sendbuf' = Append(sendbuf, Message(type, None))
      PROVE  Goal(<<Message(type, None)>>)
            /\ <<Message(type, None)>> \in Seq(RequestMessage)
  <2> DEFINE x == Message(type, None)
  <2>1. x \in RequestMessage /\ x.type \in LateRequests
        /\ sendbuf' = Append(sendbuf, x)
    BY <1>3, <1>6
  <2> HIDE DEF x
  <2>2. Goal(<<x>>) /\ <<x>> \in Seq(RequestMessage)
    BY <1>2, <1>6, <2>1
  <2> QED
    BY <2>2 DEF x
<1>7. ASSUME ~RoundtripReturns, stage \notin {"globals", "feedback"},
             sendbuf' = sendbuf \o WindowRequests
      PROVE  Goal(WindowRequests) /\ WindowRequests \in Seq(RequestMessage)
  <2>1. {"get_toplevel", "get_surface", "commit"} \subseteq LateRequests
    BY DEF LateRequests
  <2> DEFINE w1 == Message("get_toplevel", None)
             w2 == Message("get_surface", None)
             w3 == Message("commit", None)
  <2>2. /\ {w1, w2, w3} \subseteq RequestMessage
        /\ {w1.type, w2.type, w3.type} \subseteq LateRequests
    BY <1>3, <2>1
  <2>3. WindowRequests = <<w1, w2, w3>>
    BY DEF WindowRequests
  <2> HIDE DEF w1, w2, w3
  <2>4. WindowRequests \in Seq(RequestMessage)
    BY <2>2, <2>3
  <2>5. \A i \in DOMAIN WindowRequests : WindowRequests[i].type \in LateRequests
    BY <2>2, <2>3
  <2> QED
    BY <1>7, <2>4, <2>5
<1> SUFFICES \E sent \in Seq(RequestMessage) : Goal(sent)
  OBVIOUS
<1> HIDE DEF Goal
<1>8. CASE ReadError \/ ChooseDevice \/ NewRenderer \/ NegotiateFormat
              \/ BuildPipeline \/ StepFails
  <2>1. /\ sendbuf' = sendbuf
        /\ ~(RoundtripReturns /\ stage = "globals")
        /\ stage \in {"globals", "feedback"} =>
              stage' = "exited" /\ done' = done
    <3>1. CASE ReadError
      BY <3>1 DEF ReadError, RoundtripReturns, Dispatching
    <3>2. CASE ChooseDevice
      BY <3>2 DEF ChooseDevice, Step, RoundtripReturns
    <3>3. CASE NewRenderer
      BY <3>3 DEF NewRenderer, Step, RoundtripReturns
    <3>4. CASE NegotiateFormat
      BY <3>4 DEF NegotiateFormat, Step, RoundtripReturns
    <3>5. CASE BuildPipeline
      BY <3>5 DEF BuildPipeline, Step, RoundtripReturns
    <3>6. CASE StepFails
      BY <3>6 DEF StepFails, Step, RoundtripReturns
    <3> QED
      BY <1>8, <3>1, <3>2, <3>3, <3>4, <3>5, <3>6
  <2> QED
    BY <1>2, <1>5, <2>1
<1>9. CASE RoundtripReturns /\ stage # "globals"
  <2>1. sendbuf' = sendbuf
    BY <1>9 DEF RoundtripReturns
  <2> QED
    BY <1>2, <1>5, <1>9, <2>1
<1>10. CASE ImportTimeline
  <2>1. stage = "syncobj" /\ ~RoundtripReturns
    BY <1>10 DEF ImportTimeline, Step, RoundtripReturns
  <2>2. \/ sendbuf' = sendbuf
        \/ sendbuf' = Append(sendbuf, Message("import_timeline", None))
    BY <1>10 DEF ImportTimeline
  <2>3. "import_timeline" \in LateRequests
    BY DEF LateRequests
  <2> QED
    BY <1>2, <1>5, <1>6, <2>1, <2>2, <2>3
<1>11. CASE InitWindow
  <2>1. stage = "window" /\ ~RoundtripReturns
    BY <1>11 DEF InitWindow, Step, RoundtripReturns
  <2>2. \/ sendbuf' = sendbuf
        \/ sendbuf' = Append(sendbuf, Message("get_toplevel", None))
        \/ sendbuf' = sendbuf \o WindowRequests
    <3>1. WindowRequests[1] = Message("get_toplevel", None)
      BY DEF WindowRequests
    <3> QED
      BY <1>11, <3>1 DEF InitWindow
  <2>3. "get_toplevel" \in LateRequests
    BY DEF LateRequests
  <2> QED
    BY <1>2, <1>5, <1>6, <1>7, <2>1, <2>2, <2>3
<1> QED
  BY <1>4, <1>8, <1>9, <1>10, <1>11 DEF OtherSteps, Goal

(***************************************************************************)
(* They leave the feedback and the compositor alone, and keep the types.   *)
(***************************************************************************)
LEMMA OtherStepsTyped ==
    ASSUME StartupTypeOK, OtherSteps
    PROVE  /\ StartupTypeOK'
           /\ UNCHANGED <<feedbackVars, bound, inbox, requests, events,
                          compositorVars>>
<1> USE StartupAssumption
<1> DEFINE Kept == UNCHANGED <<feedbackVars, bound, inbox, requests, events,
                               compositorVars>>
<1>1. ASSUME NEW from, NEW to, Step(from, to)
      PROVE  Kept /\ done' = done /\ stage' = to
  BY <1>1 DEF Step
<1>2. /\ {"exited", "panicked", "renderer", "negotiate", "syncobj", "window",
          "pipeline", "loop", "feedback", "device"} \subseteq Stages
  BY DEF Stages, Stopped
<1>3. ASSUME Kept, NegotiationTypeOK', stage' \in Stages,
             {done', surface', surface_sync', syncobj_timeline'}
                \subseteq BOOLEAN,
             faults' \in 0..MaxFaults
      PROVE  StartupTypeOK'
  BY <1>3 DEF StartupTypeOK, FeedbackTypeOK, feedbackVars, compositorVars
<1>4. /\ NegotiationTypeOK /\ faults \in 0..MaxFaults
      /\ {done, surface, surface_sync, syncobj_timeline} \subseteq BOOLEAN
  BY DEF StartupTypeOK
<1>5. UNCHANGED negotiationVars => NegotiationTypeOK'
  BY <1>4 DEF NegotiationTypeOK, negotiationVars
<1> HIDE DEF Kept
<1>6. CASE ReadError
  <2>1. /\ Kept /\ stage' = "exited"
        /\ UNCHANGED <<negotiationVars, done, windowVars, faults>>
    BY <1>6 DEF ReadError, Kept
  <2> QED
    BY <1>2, <1>3, <1>4, <1>5, <2>1 DEF windowVars, Kept
<1>7. CASE RoundtripReturns
  <2>1. /\ Kept /\ stage' \in {"feedback", "device"} /\ done' \in BOOLEAN
        /\ UNCHANGED <<negotiationVars, windowVars, faults>>
    BY <1>4, <1>7 DEF RoundtripReturns, Kept
  <2> QED
    BY <1>2, <1>3, <1>4, <1>5, <2>1 DEF windowVars, Kept
<1>8. CASE ChooseDevice
  <2>1. /\ Kept /\ stage' \in {"exited", "renderer"} /\ done' = done
        /\ UNCHANGED <<negotiationVars, windowVars, faults>>
    BY <1>1, <1>8 DEF ChooseDevice
  <2> QED
    BY <1>2, <1>3, <1>4, <1>5, <2>1 DEF windowVars, Kept
<1>9. CASE NewRenderer
  <2>1. /\ Kept /\ stage' = "negotiate" /\ done' = done
        /\ device_mods' \in Capabilities
        /\ UNCHANGED <<buffer_fmt, windowVars, faults>>
    BY <1>1, <1>9 DEF NewRenderer
  <2>2. NegotiationTypeOK'
    BY <1>4, <2>1 DEF NegotiationTypeOK
  <2> QED
    BY <1>2, <1>3, <1>4, <2>1, <2>2 DEF windowVars, Kept
<1>10. CASE NegotiateFormat
  <2>1. NegotiationTypeOK' /\ stage' \in {"exited", "syncobj"}
    BY <1>10, NegotiateFormatTyped
  <2>2. /\ Kept /\ done' = done
        /\ UNCHANGED <<windowVars, faults>>
    BY <1>1, <1>10 DEF NegotiateFormat
  <2> QED
    BY <1>2, <1>3, <1>4, <2>1, <2>2 DEF windowVars, Kept
<1>11. CASE ImportTimeline
  <2>1. /\ Kept /\ done' = done /\ stage' = "window"
        /\ syncobj_timeline' \in {syncobj_timeline, TRUE}
        /\ UNCHANGED <<negotiationVars, surface, surface_sync, faults>>
    BY <1>1, <1>11 DEF ImportTimeline
  <2> QED
    BY <1>2, <1>3, <1>4, <1>5, <2>1 DEF Kept
<1>12. CASE InitWindow
  <2>1. /\ Kept /\ done' = done /\ stage' \in {"pipeline", "panicked"}
        /\ surface' \in {surface, TRUE}
        /\ surface_sync' \in {surface_sync, TRUE}
        /\ UNCHANGED <<negotiationVars, syncobj_timeline, faults>>
    BY <1>1, <1>12 DEF InitWindow
  <2> QED
    BY <1>2, <1>3, <1>4, <1>5, <2>1 DEF Kept
<1>13. CASE BuildPipeline
  <2>1. /\ Kept /\ done' = done /\ stage' \in {"panicked", "loop"}
        /\ UNCHANGED <<negotiationVars, windowVars, faults>>
    BY <1>1, <1>13 DEF BuildPipeline
  <2> QED
    BY <1>2, <1>3, <1>4, <1>5, <2>1 DEF windowVars, Kept
<1>14. CASE StepFails
  <2>1. /\ Kept /\ done' = done /\ stage' = "exited"
        /\ UNCHANGED <<negotiationVars, windowVars>>
        /\ faults < MaxFaults /\ faults' = faults + 1
    BY <1>1, <1>14 DEF StepFails
  <2> QED
    BY <1>2, <1>3, <1>4, <1>5, <2>1 DEF windowVars, Kept
<1> QED
  BY <1>6, <1>7, <1>8, <1>9, <1>10, <1>11, <1>12, <1>13, <1>14
  DEF OtherSteps, Kept

(***************************************************************************)
(* So they keep the registry invariant too.                                *)
(***************************************************************************)
LEMMA RegistryOtherSteps ==
    ASSUME RegistryInv, OtherSteps
    PROVE  RegistryInv'
<1>1. MessagesOK /\ StartupTypeOK
  BY DEF RegistryInv
<1>2. PICK sent \in Seq(RequestMessage) :
              /\ sendbuf' = sendbuf \o sent
              /\ \/ /\ RoundtripReturns /\ stage = "globals" /\ sent = <<Sync>>
                 \/ /\ ~(RoundtripReturns /\ stage = "globals")
                    /\ \A i \in DOMAIN sent : sent[i].type \in LateRequests
              /\ stage \in {"globals", "feedback"} /\ ~RoundtripReturns =>
                    sent = <<>> /\ stage' = "exited" /\ done' = done
  BY <1>1, OtherStepsSend
<1>3. /\ StartupTypeOK'
      /\ UNCHANGED <<feedbackVars, bound, inbox, requests, events,
                     compositorVars>>
  BY <1>1, OtherStepsTyped
<1>4. ~HasType(sent, "get_registry")
  <2>1. \A i \in DOMAIN <<Sync>> : <<Sync>>[i].type = "sync"
    BY DEF Sync, Message
  <2> QED
    BY <1>2, <2>1 DEF HasType, LateRequests
<1>5. Unread => stage = "globals" /\ ~RoundtripReturns
  <2>1. Unread => stage \in {"globals", "exited"} /\ ~done
    BY DEF Unread
  <2>2. stage # "exited"
    <3>1. CASE ReadError
      BY <3>1 DEF ReadError, Dispatching, InRoundtrip
    <3>2. CASE StepFails
      BY <3>2 DEF StepFails, InRoundtrip
    <3>3. CASE RoundtripReturns
      BY <3>3 DEF RoundtripReturns, InRoundtrip
    <3>4. CASE ~(ReadError \/ StepFails \/ RoundtripReturns)
      BY <3>4 DEF OtherSteps, ChooseDevice, NewRenderer, NegotiateFormat,
         ImportTimeline, InitWindow, BuildPipeline, Step
    <3> QED
      BY <3>1, <3>2, <3>3, <3>4
  <2> QED
    BY <2>1, <2>2 DEF RoundtripReturns
<1>6. Unread => /\ stage' \in {"globals", "exited"} /\ done' = done
                /\ UNCHANGED Up
  <2> SUFFICES ASSUME Unread
               PROVE  stage' = "exited" /\ done' = done /\ UNCHANGED Up
    OBVIOUS
  <2>1. sent = <<>> /\ stage' = "exited" /\ done' = done
    BY <1>2, <1>5
  <2>2. sendbuf' = sendbuf
    BY <1>1, <1>2, <2>1, ConcatEmptySeq DEF MessagesOK
  <2> QED
    BY <1>3, <2>1, <2>2 DEF Up
<1> QED
  BY <1>2, <1>3, <1>4, <1>6, OtherStepsKeepRegistry DEF compositorVars

(***************************************************************************)
(* Every step is one of these.                                             *)
(***************************************************************************)
LEMMA StepCases ==
    ASSUME [Next]_vars
    PROVE  \/ Flush
           \/ \E n \in 1..Len(events) : Read(n)
           \/ HandleEvent
           \/ OtherSteps
           \/ NextRequest
           \/ LateGlobal
           \/ UNCHANGED vars
BY DEF Next, Main, AtRest, OtherSteps

(***************************************************************************)
(* The registry invariant is inductive.                                    *)
(***************************************************************************)
LEMMA RegistryStep ==
    ASSUME RegistryInv, [Next]_vars
    PROVE  RegistryInv'
<1>1. CASE UNCHANGED vars
  BY <1>1 DEF vars, RegistryInv, StartupTypeOK, FeedbackTypeOK,
     NegotiationTypeOK, MessagesOK, Unread, RegistryRead, GlobalsOnce, Pending,
     Up, Down, feedbackVars, negotiationVars, mainVars, windowVars,
     compositorVars
<1> QED
  BY <1>1, StepCases, RegistryFlush, RegistryReads, RegistryHandle,
     RegistryOtherSteps, RegistryAnswer, RegistryLateGlobal

(***************************************************************************)
(* The start-up is type-correct: what is bound was announced, the formats  *)
(* advertised and negotiated are formats the program knows                 *)
(* (examples/wayvek.rs, backend/wayland/mod.rs).                           *)
(***************************************************************************)
THEOREM StartupTypeCorrect == Spec => []StartupTypeOK
<1>1. Init => RegistryInv
  BY RegistryStart
<1>2. RegistryInv /\ [Next]_vars => RegistryInv'
  BY RegistryStep
<1>3. RegistryInv => StartupTypeOK
  BY DEF RegistryInv
<1> QED
  BY <1>1, <1>2, <1>3, PTL DEF Spec

-----------------------------------------------------------------------------
(* The feedback is asked for once.                                         *)

(***************************************************************************)
(* The globals and the request for the feedback, inductive by themselves.  *)
(***************************************************************************)
FeedbackInv == RegistryInv /\ FeedbackOnce /\ NothingYet

(***************************************************************************)
(* Steps that neither ask for the feedback, nor answer or handle it.       *)
(***************************************************************************)
LEMMA FeedbackIdle ==
    ASSUME FeedbackInv, Asked' = Asked, Unhandled' = Unhandled,
           UNCHANGED <<feedbackVars, offer, bound>>
    PROVE  FeedbackOnce' /\ NothingYet'
BY DEF FeedbackInv, FeedbackOnce, NothingYet, feedbackVars

(***************************************************************************)
(* Asked and Unhandled are queues of messages.                             *)
(***************************************************************************)
LEMMA FilteredTyped ==
    ASSUME MessagesOK
    PROVE  /\ Asked \in Seq({r \in RequestMessage :
                                r.type \in {"get_default_feedback"}})
           /\ Asked \in Seq(RequestMessage)
           /\ Unhandled \in Seq({e \in EventMessage :
                                    e.type \in FeedbackTypes})
           /\ Unhandled \in Seq(EventMessage)
<1> DEFINE A == {r \in RequestMessage : r.type \in {"get_default_feedback"}}
           B == {e \in EventMessage : e.type \in FeedbackTypes}
<1>1. Asked \in Seq(A) /\ Unhandled \in Seq(B)
  BY QueuesTyped, OfTypeKeeps DEF Asked, Unhandled, Down
<1>2. A \subseteq RequestMessage /\ B \subseteq EventMessage
  OBVIOUS
<1> HIDE DEF A, B
<1>3. Asked \in Seq(RequestMessage) /\ Unhandled \in Seq(EventMessage)
  BY <1>1, <1>2, SeqMonotonic
<1> QED
  BY <1>1, <1>3 DEF A, B

(***************************************************************************)
(* Handling an event: dmabuf is bound and its feedback asked for, or one   *)
(* event of the feedback is handled.                                       *)
(***************************************************************************)
LEMMA HandleFeedback ==
    ASSUME RegistryInv, HandleEvent
    PROVE  \/ /\ OnFeedback(inbox[1])
              /\ inbox[1].type \in FeedbackTypes
              /\ inbox[1] \in EventMessage
              /\ UNCHANGED <<bound, sendbuf>> /\ Asked' = Asked
              /\ Unhandled' \in Seq(EventMessage)
              /\ Unhandled = <<inbox[1]>> \o Unhandled'
           \/ \E g \in Globals \ bound :
                 /\ bound' = bound \cup {g}
                 /\ UNCHANGED feedbackVars
                 /\ Unhandled' = Unhandled
                 /\ IF g = Dmabuf
                    THEN \E r \in RequestMessage : Asked' = Asked \o <<r>>
                    ELSE Asked' = Asked
<1> DEFINE h == inbox[1]
<1>1. /\ MessagesOK /\ inbox # <<>> /\ inbox' = Tail(inbox)
      /\ UNCHANGED <<events, requests>>
  BY DEF HandleEvent, RegistryInv
<1>2. /\ h \in EventMessage /\ Down' \in Seq(EventMessage)
      /\ OfType(Down, FeedbackTypes)
            = OfType(<<h>>, FeedbackTypes) \o OfType(Down', FeedbackTypes)
      /\ Pending = OfType(<<h>>, {"global"}) \o Pending'
  BY <1>1, HandleMoves DEF Pending
<1>3. /\ OfType(<<h>>, FeedbackTypes)
            = IF h.type \in FeedbackTypes THEN <<h>> ELSE <<>>
      /\ OfType(<<h>>, {"global"}) = IF h.type = "global" THEN <<h>> ELSE <<>>
  BY OfTypeOne
<1>4. /\ Unhandled = OfType(<<h>>, FeedbackTypes) \o Unhandled'
      /\ Unhandled' \in Seq({e \in EventMessage : e.type \in FeedbackTypes})
  BY <1>2, OfTypeKeeps DEF Unhandled, Down
<1> HIDE DEF h
<1>5. CASE OnFeedback(h)
  <2>1. h.type \in FeedbackTypes /\ UNCHANGED <<bound, sendbuf>>
    BY <1>5 DEF OnFeedback, FeedbackTypes
  <2>2. Asked' = Asked
    BY <1>1, <2>1 DEF Asked, Up
  <2>3. Unhandled = <<h>> \o Unhandled' /\ Unhandled' \in Seq(EventMessage)
    <3>1. {e \in EventMessage : e.type \in FeedbackTypes} \subseteq EventMessage
      OBVIOUS
    <3> QED
      BY <1>3, <1>4, <2>1, <3>1, SeqMonotonic
  <2> QED
    BY <1>2, <1>5, <2>1, <2>2, <2>3 DEF h
<1>6. CASE h.type = "global" /\ OnGlobal(h.arg)
  <2> DEFINE g == h.arg
             bind(v) == Bind(g, v)
             ask == Message("get_default_feedback", None)
  <2>1. g \in Globals
    BY <1>2, <1>6, EventFields
  <2>2. g \notin bound
    <3>1. ListsOnce(<<h>> \o Pending', announced \ bound)
      BY <1>2, <1>3, <1>6 DEF RegistryInv, GlobalsOnce
    <3>2. Pending' \in Seq({m \in EventMessage : m.type \in {"global"}})
      BY <1>2, OfTypeKeeps DEF Pending
    <3>3. {m \in EventMessage : m.type \in {"global"}} \subseteq EventMessage
      OBVIOUS
    <3>4. Pending' \in Seq(EventMessage)
      BY <3>2, <3>3, SeqMonotonic
    <3>5. h.arg \in announced \ bound
      BY <1>2, <3>1, <3>4, ListsOnceTail
    <3> QED
      BY <3>5
  <2>3. Unhandled' = Unhandled
    <3>1. h.type \notin FeedbackTypes
      BY <1>6 DEF FeedbackTypes
    <3> QED
      BY <1>3, <1>4, <3>1, ConcatEmptySeq
  <2>4. /\ bind(1) \in RequestMessage /\ bind(5) \in RequestMessage
        /\ ask \in RequestMessage
        /\ bind(1).type = "bind" /\ bind(5).type = "bind"
        /\ ask.type = "get_default_feedback"
    BY <2>1, RequestFields DEF PlainRequests, Bind, Message
  <2>5. /\ bound' = bound \cup {g} /\ UNCHANGED feedbackVars
        /\ sendbuf' = sendbuf \o IF g = Dmabuf THEN <<bind(5), ask>>
                                 ELSE <<bind(1)>>
    BY <1>6 DEF OnGlobal, Dmabuf
  <2> HIDE DEF bind, ask
  <2>6. CASE g = Dmabuf
    <3>1. /\ <<bind(5), ask>> \in Seq(RequestMessage)
          /\ <<bind(5), ask>> = <<bind(5)>> \o <<ask>>
          /\ <<bind(5)>> \in Seq(RequestMessage)
          /\ <<ask>> \in Seq(RequestMessage)
      BY <2>4
    <3>2. OfType(<<bind(5)>>, {"get_default_feedback"}) = <<>>
          /\ OfType(<<ask>>, {"get_default_feedback"}) = <<ask>>
      BY <2>4, OfTypeOne
    <3>3. <<>> \o <<ask>> = <<ask>>
      BY <2>4
    <3> DEFINE one == <<bind(5)>>
               two == <<ask>>
    <3>4. OfType(one \o two, {"get_default_feedback"})
             = OfType(one, {"get_default_feedback"})
                  \o OfType(two, {"get_default_feedback"})
      <4>1. one \in Seq(RequestMessage) /\ two \in Seq(RequestMessage)
        BY <3>1
      <4> HIDE DEF one, two
      <4> QED
        BY <4>1, OfTypeConcat
    <3> DEFINE sent == <<bind(5), ask>>
    <3>5. OfType(sent, {"get_default_feedback"}) = <<ask>>
      BY <3>1, <3>2, <3>3, <3>4
    <3>6. sent \in Seq(RequestMessage) /\ sendbuf' = sendbuf \o sent
      BY <2>5, <2>6, <3>1
    <3> HIDE DEF sent
    <3>7. OfType(Up', {"get_default_feedback"})
             = OfType(Up, {"get_default_feedback"})
                  \o OfType(sent, {"get_default_feedback"})
      BY <1>1, <3>6, SendMoves
    <3>8. Asked' = Asked \o <<ask>>
      BY <3>5, <3>7 DEF Asked
    <3> QED
      BY <2>1, <2>2, <2>3, <2>4, <2>5, <2>6, <3>8
  <2>7. CASE g # Dmabuf
    <3> DEFINE sent == <<bind(1)>>
    <3>1. OfType(sent, {"get_default_feedback"}) = <<>>
      BY <2>4, OfTypeOne
    <3>2. sent \in Seq(RequestMessage) /\ sendbuf' = sendbuf \o sent
      BY <2>4, <2>5, <2>7
    <3> HIDE DEF sent
    <3>3. OfType(Up', {"get_default_feedback"})
             = OfType(Up, {"get_default_feedback"})
                  \o OfType(sent, {"get_default_feedback"})
      BY <1>1, <3>2, SendMoves
    <3>4. Asked' = Asked \o <<>>
      BY <3>1, <3>3 DEF Asked
    <3>5. Asked' = Asked
      BY <1>1, <3>4, FilteredTyped, ConcatEmptySeq
    <3> QED
      BY <2>1, <2>2, <2>3, <2>5, <2>7, <3>5
  <2> QED
    BY <2>6, <2>7
<1> QED
  BY <1>5, <1>6 DEF HandleEvent, h

(***************************************************************************)
(* The other steps of main send no such request.                           *)
(***************************************************************************)
LEMMA FeedbackOtherSteps ==
    ASSUME RegistryInv, OtherSteps
    PROVE  /\ Asked' = Asked /\ Unhandled' = Unhandled
           /\ UNCHANGED <<feedbackVars, offer, bound>>
<1>1. MessagesOK /\ StartupTypeOK
  BY DEF RegistryInv
<1>2. PICK sent \in Seq(RequestMessage) :
              /\ sendbuf' = sendbuf \o sent
              /\ \/ sent = <<Sync>>
                 \/ \A i \in DOMAIN sent : sent[i].type \in LateRequests
  BY <1>1, OtherStepsSend
<1>3. UNCHANGED <<feedbackVars, bound, inbox, requests, events, compositorVars>>
  BY <1>1, OtherStepsTyped
<1>4. OfType(sent, {"get_default_feedback"}) = <<>>
  <2>1. ~HasType(sent, "get_default_feedback")
    <3>1. \A i \in DOMAIN <<Sync>> : <<Sync>>[i].type = "sync"
      BY DEF Sync, Message
    <3> QED
      BY <1>2, <3>1 DEF HasType, LateRequests
  <2> QED
    BY <2>1, HasTypeFilter
<1>5. OfType(Up', {"get_default_feedback"})
         = OfType(Up, {"get_default_feedback"})
              \o OfType(sent, {"get_default_feedback"})
  <2>1. UNCHANGED requests
    BY <1>3
  <2> QED
    BY <1>1, <1>2, <2>1, SendMoves
<1>6. Asked' = Asked
  BY <1>1, <1>4, <1>5, FilteredTyped, ConcatEmptySeq DEF Asked
<1> QED
  BY <1>3, <1>6 DEF Unhandled, Down, compositorVars

(***************************************************************************)
(* The compositor answers the one request for feedback with a feedback.    *)
(***************************************************************************)
LEMMA FeedbackAnswer ==
    ASSUME FeedbackInv, NextRequest
    PROVE  \/ /\ Asked # <<>> /\ Asked' = <<>> /\ offer = None
              /\ offer' \in Feedbacks
              /\ Unhandled = <<>> /\ Unhandled' = FeedbackEvents(offer')
              /\ UNCHANGED <<feedbackVars, bound>>
           \/ /\ Asked' = Asked /\ Unhandled' = Unhandled
              /\ UNCHANGED <<feedbackVars, offer, bound>>
<1> DEFINE r == requests[1]
<1>1. /\ MessagesOK /\ StartupTypeOK
      /\ requests # <<>> /\ requests' = Tail(requests)
      /\ UNCHANGED <<sendbuf, inbox, bound, feedbackVars>>
  BY DEF NextRequest, FeedbackInv, RegistryInv, mainVars
<1>2. PICK sent \in Seq(EventMessage) :
         /\ events' = events \o sent
         /\ IF r.type = "get_default_feedback"
            THEN /\ offer' \in Feedbacks
                 /\ sent = FeedbackEvents(offer')
                 /\ OfType(sent, FeedbackTypes) = sent
            ELSE /\ offer' = offer
                 /\ OfType(sent, FeedbackTypes) = <<>>
  BY <1>1, AnswerSends
<1>3. /\ Asked = OfType(<<r>>, {"get_default_feedback"}) \o Asked'
      /\ Asked' \in Seq(RequestMessage)
  <2>1. /\ OfType(Up, {"get_default_feedback"})
             = OfType(<<r>>, {"get_default_feedback"})
                  \o OfType(Up', {"get_default_feedback"})
        /\ Up' \in Seq(RequestMessage)
    BY <1>1, RequestMoves
  <2>2. Asked' \in Seq({m \in RequestMessage :
                           m.type \in {"get_default_feedback"}})
    BY <2>1, OfTypeKeeps DEF Asked
  <2>3. {m \in RequestMessage : m.type \in {"get_default_feedback"}}
           \subseteq RequestMessage
    OBVIOUS
  <2>4. Asked' \in Seq(RequestMessage)
    BY <2>2, <2>3, SeqMonotonic
  <2> QED
    BY <2>1, <2>4 DEF Asked
<1>4. Unhandled' = Unhandled \o OfType(sent, FeedbackTypes)
  <2>1. UNCHANGED inbox
    BY <1>1
  <2>2. OfType(Down', FeedbackTypes)
           = OfType(Down, FeedbackTypes) \o OfType(sent, FeedbackTypes)
    BY <1>1, <1>2, <2>1, EventMoves
  <2> QED
    BY <2>2 DEF Unhandled, Down
<1>5. Unhandled \in Seq(EventMessage)
  BY <1>1, FilteredTyped
<1>6. OfType(<<r>>, {"get_default_feedback"})
         = IF r.type = "get_default_feedback" THEN <<r>> ELSE <<>>
  BY OfTypeOne
<1> HIDE DEF r
<1>7. CASE r.type = "get_default_feedback"
  <2>1. Asked = <<r>> \o Asked' /\ Len(Asked) <= 1
    BY <1>3, <1>6, <1>7 DEF FeedbackInv, FeedbackOnce
  <2>2. Asked # <<>> /\ Asked' = <<>>
    <3> DEFINE v == Asked'
    <3>1. /\ v \in Seq(RequestMessage) /\ r \in RequestMessage
      <4>1. requests[1] \in RequestMessage
        BY <1>1, RequestMoves
      <4> QED
        BY <1>3, <4>1 DEF r
    <3> HIDE DEF v
    <3>2. Len(<<r>> \o v) = Len(v) + 1 /\ Len(v) \in Nat
      BY <3>1
    <3>3. \A k \in Nat : k + 1 <= 1 => k = 0
      OBVIOUS
    <3>4. Len(v) = 0
      BY <2>1, <3>2, <3>3 DEF v
    <3>5. v = <<>>
      BY <3>1, <3>4, EmptySeq
    <3>6. <<r>> \o v # <<>>
      BY <3>2, <3>4
    <3> QED
      BY <2>1, <3>5, <3>6 DEF v
  <2>3. offer = None
    BY <2>2 DEF FeedbackInv, FeedbackOnce
  <2>4. Unhandled = <<>>
    BY <2>3 DEF FeedbackInv, NothingYet
  <2>5. offer' \in Feedbacks /\ Unhandled' = <<>> \o sent
        /\ sent = FeedbackEvents(offer')
    BY <1>2, <1>4, <1>7, <2>4
  <2>6. Unhandled' = FeedbackEvents(offer')
    BY <2>5, ConcatEmptySeq
  <2> QED
    BY <1>1, <2>2, <2>3, <2>4, <2>5, <2>6
<1>8. CASE r.type # "get_default_feedback"
  <2>1. /\ offer' = offer /\ Unhandled' = Unhandled \o <<>>
        /\ Asked = <<>> \o Asked'
    BY <1>2, <1>3, <1>4, <1>6, <1>8
  <2> QED
    BY <1>1, <1>3, <1>5, <2>1, ConcatEmptySeq
<1> QED
  BY <1>7, <1>8

(***************************************************************************)
(* Neither do a flush, a read, a late global or a stuttering step.         *)
(***************************************************************************)
LEMMA FeedbackTransport ==
    ASSUME RegistryInv,
           Flush \/ (\E n \in 1..Len(events) : Read(n)) \/ LateGlobal
              \/ UNCHANGED vars
    PROVE  /\ Asked' = Asked /\ Unhandled' = Unhandled
           /\ UNCHANGED <<feedbackVars, offer, bound>>
<1>1. MessagesOK
  BY DEF RegistryInv
<1>2. CASE Flush
  <2>1. Up' = Up /\ Down' = Down
    BY <1>1, <1>2, FlushMoves DEF Flush
  <2> QED
    BY <1>2, <2>1 DEF Flush, Asked, Unhandled, mainVars, compositorVars
<1>3. ASSUME NEW n \in 1..Len(events), Read(n)
      PROVE  /\ Asked' = Asked /\ Unhandled' = Unhandled
             /\ UNCHANGED <<feedbackVars, offer, bound>>
  <2>1. FeedbackTypes \subseteq EventTypes
    BY DEF FeedbackTypes, EventTypes
  <2>2. PICK batch \in Seq(EventMessage) :
           /\ Up' = Up
           /\ \A types : types \subseteq EventTypes =>
                  OfType(Down', types) = OfType(Down, types)
    BY <1>1, <1>3, ReadMoves
  <2>3. Unhandled' = Unhandled /\ Asked' = Asked
    BY <2>1, <2>2 DEF Unhandled, Down, Asked
  <2> QED
    BY <1>3, <2>3 DEF Read, compositorVars
<1>4. CASE LateGlobal
  <2>1. PICK g \in Globals \ announced :
           events' = Append(events, Message("global", g))
    BY <1>4 DEF LateGlobal
  <2> DEFINE x == Message("global", g)
             sent == <<x>>
  <2>2. x \in EventMessage /\ x.type \notin FeedbackTypes
    BY EventsTyped DEF Message, FeedbackTypes
  <2>3. OfType(sent, FeedbackTypes) = <<>>
    BY <2>2, OfTypeOne
  <2>4. sent \in Seq(EventMessage) /\ events' = events \o sent
    BY <1>1, <2>1, <2>2 DEF MessagesOK
  <2>5. UNCHANGED <<feedbackVars, bound, offer, inbox, sendbuf, requests>>
    BY <1>4 DEF LateGlobal, mainVars
  <2> HIDE DEF sent
  <2>6. OfType(Down', FeedbackTypes)
           = OfType(Down, FeedbackTypes) \o OfType(sent, FeedbackTypes)
    <3>1. UNCHANGED inbox
      BY <2>5
    <3> QED
      BY <1>1, <2>4, <3>1, EventMoves
  <2>7. Unhandled' = Unhandled
    BY <1>1, <2>3, <2>6, FilteredTyped, ConcatEmptySeq
    DEF Unhandled, Down
  <2> QED
    BY <2>5, <2>7 DEF Asked, Up
<1>5. CASE UNCHANGED vars
  BY <1>5 DEF vars, Asked, Unhandled, Up, Down, mainVars, compositorVars
<1> QED
  BY <1>2, <1>3, <1>4, <1>5

(***************************************************************************)
(* The feedback is asked for once, and nothing of it precedes the answer.  *)
(***************************************************************************)
LEMMA FeedbackStart ==
    ASSUME Init
    PROVE  FeedbackInv
<1>1. RegistryInv /\ Up = <<Message("get_registry", None), Sync>> /\ Down = <<>>
  <2>1. RegistryInv
    BY RegistryStart
  <2>2. /\ sendbuf = <<Message("get_registry", None), Sync>>
        /\ requests = <<>> /\ inbox = <<>> /\ events = <<>>
    BY DEF Init
  <2>3. sendbuf \in Seq(RequestMessage)
    BY <2>1 DEF RegistryInv, MessagesOK
  <2>4. Up = sendbuf /\ Down = <<>>
    BY <2>2, <2>3, ConcatEmptySeq, EmptySeq DEF Up, Down
  <2> QED
    BY <2>1, <2>2, <2>4
<1>2. ~HasType(Up, "get_default_feedback")
  <2>1. \A i \in DOMAIN Up : Up[i].type \in {"get_registry", "sync"}
    BY <1>1 DEF Message, Sync
  <2> QED
    BY <2>1 DEF HasType
<1>3. Asked = <<>>
  BY <1>1, <1>2, HasTypeFilter, QueuesTyped DEF Asked, RegistryInv
<1>4. Unhandled = <<>>
  BY <1>1, OfTypeEmpty DEF Unhandled, Down
<1> QED
  BY <1>1, <1>3, <1>4
  DEF FeedbackInv, FeedbackOnce, NothingYet, Init, FeedbackInit

(***************************************************************************)
(* And no step of the two sides disturbs that.                             *)
(***************************************************************************)
LEMMA FeedbackStep ==
    ASSUME FeedbackInv, [Next]_vars
    PROVE  FeedbackInv'
<1>1. RegistryInv'
  BY RegistryStep DEF FeedbackInv
<1>2. MessagesOK
  BY DEF FeedbackInv, RegistryInv
<1>3. None \notin Feedbacks
  BY StartupAssumption
<1>4. CASE HandleEvent
  <2>1. UNCHANGED offer
    BY <1>4 DEF HandleEvent, compositorVars
  <2>2. CASE /\ Unhandled = <<inbox[1]>> \o Unhandled'
             /\ Unhandled' \in Seq(EventMessage)
             /\ UNCHANGED bound /\ Asked' = Asked
             /\ inbox[1] \in EventMessage
    <3>1. Unhandled # <<>>
      <4> DEFINE v == Unhandled'
                 h == inbox[1]
      <4>1. h \in EventMessage /\ v \in Seq(EventMessage)
            /\ Unhandled = <<h>> \o v
        BY <2>2
      <4> HIDE DEF v, h
      <4>2. <<h>> \o v # <<>>
        BY <4>1
      <4> QED
        BY <4>1, <4>2
    <3>2. offer # None
      BY <3>1 DEF FeedbackInv, NothingYet
    <3> QED
      BY <1>1, <2>1, <2>2, <3>2 DEF FeedbackInv, FeedbackOnce, NothingYet
  <2>3. CASE \E g \in Globals \ bound :
                 /\ bound' = bound \cup {g}
                 /\ UNCHANGED feedbackVars
                 /\ Unhandled' = Unhandled
                 /\ IF g = Dmabuf
                    THEN \E r \in RequestMessage : Asked' = Asked \o <<r>>
                    ELSE Asked' = Asked
    <3>1. PICK g \in Globals \ bound :
                 /\ bound' = bound \cup {g}
                 /\ UNCHANGED feedbackVars
                 /\ Unhandled' = Unhandled
                 /\ IF g = Dmabuf
                    THEN \E r \in RequestMessage : Asked' = Asked \o <<r>>
                    ELSE Asked' = Asked
      BY <2>3
    <3>2. NothingYet'
      BY <2>1, <3>1 DEF FeedbackInv, NothingYet, feedbackVars
    <3>3. CASE g = Dmabuf
      <4>1. Asked = <<>> /\ offer = None /\ Dmabuf \in bound'
        BY <3>1, <3>3 DEF FeedbackInv, FeedbackOnce
      <4>2. PICK r \in RequestMessage : Asked' = Asked \o <<r>>
        BY <3>1, <3>3
      <4>3. Asked' = <<r>>
        BY <4>1, <4>2
      <4>4. Len(<<r>>) = 1 /\ <<r>> # <<>>
        OBVIOUS
      <4>5. FeedbackOnce'
        BY <2>1, <4>1, <4>3, <4>4 DEF FeedbackOnce
      <4> QED
        BY <1>1, <3>2, <4>5 DEF FeedbackInv
    <3>4. CASE g # Dmabuf
      <4>1. Asked' = Asked /\ (Dmabuf \in bound' <=> Dmabuf \in bound)
        BY <3>1, <3>4
      <4> QED
        BY <1>1, <2>1, <3>2, <4>1 DEF FeedbackInv, FeedbackOnce
    <3> QED
      BY <3>3, <3>4
  <2> QED
    BY <1>4, <2>2, <2>3, HandleFeedback DEF FeedbackInv
<1>5. CASE NextRequest
  <2>1. CASE /\ Asked # <<>> /\ Asked' = <<>> /\ offer = None
             /\ offer' \in Feedbacks /\ UNCHANGED bound
    <3>1. Dmabuf \in bound' /\ offer' # None
      BY <1>3, <2>1 DEF FeedbackInv, FeedbackOnce
    <3> QED
      BY <1>1, <2>1, <3>1 DEF FeedbackInv, FeedbackOnce, NothingYet
  <2>2. CASE /\ Asked' = Asked /\ Unhandled' = Unhandled
             /\ UNCHANGED <<feedbackVars, offer, bound>>
    BY <1>1, <2>2, FeedbackIdle DEF FeedbackInv
  <2> QED
    BY <1>5, <2>1, <2>2, FeedbackAnswer
<1>6. CASE OtherSteps
  BY <1>1, <1>6, FeedbackIdle, FeedbackOtherSteps DEF FeedbackInv
<1>7. CASE Flush \/ (\E n \in 1..Len(events) : Read(n)) \/ LateGlobal
              \/ UNCHANGED vars
  BY <1>1, <1>7, FeedbackIdle, FeedbackTransport DEF FeedbackInv
<1> QED
  BY <1>4, <1>5, <1>6, <1>7, StepCases

-----------------------------------------------------------------------------
(* The steps after the roundtrips.                                         *)

(***************************************************************************)
(* With what main has found out when it comes to each step.                *)
(***************************************************************************)
StepsInv == FeedbackInv /\ StepsInOrder

(***************************************************************************)
(* Steps of the compositor, flushes and reads do not touch what main has   *)
(* found out; an inbox fills up only in a dispatch.                        *)
(***************************************************************************)
LEMMA StepsIdle ==
    ASSUME StepsInOrder,
           UNCHANGED <<stage, main_device, negotiationVars, windowVars, bound>>,
           inbox' = inbox \/ stage \in {"globals", "feedback", "loop"}
    PROVE  StepsInOrder'
BY DEF StepsInOrder, Supported, SupportedModifiers, VulkanModifiers,
   negotiationVars, windowVars

(***************************************************************************)
(* The handlers run in a dispatch, or after main has stopped.              *)
(***************************************************************************)
LEMMA StepsHandle ==
    ASSUME StepsInv, HandleEvent
    PROVE  StepsInOrder'
<1>1. /\ StepsInOrder /\ RegistryInv /\ inbox # <<>>
      /\ UNCHANGED <<negotiationVars, stage, done, windowVars>>
  BY DEF StepsInv, FeedbackInv, HandleEvent
<1>2. stage \notin Stages \ ({"globals", "feedback", "loop"} \cup Stopped)
  BY <1>1 DEF StepsInOrder
<1>3. stage \in {"globals", "feedback", "loop"} \cup Stopped
  BY <1>1, <1>2 DEF RegistryInv, StartupTypeOK
<1>4. main_device' = main_device \/ main_device' # None
  <2>1. CASE UNCHANGED feedbackVars
    BY <2>1 DEF feedbackVars
  <2>2. CASE OnFeedback(inbox[1]) /\ inbox[1] \in EventMessage
    <3>1. CASE inbox[1].type = "main_device" /\ OnMainDevice(inbox[1].arg)
      BY <2>2, <3>1, EventFields, FeedbackAssumption DEF OnMainDevice
    <3>2. CASE ~(inbox[1].type = "main_device" /\ OnMainDevice(inbox[1].arg))
      BY <2>2, <3>2
      DEF OnFeedback, OnFormatTable, OnFormatTableFails, OnTrancheFormats
    <3> QED
      BY <3>1, <3>2
  <2> QED
    BY <1>1, <2>1, <2>2, HandleFeedback
<1>5. "window" \notin {"globals", "feedback", "loop"} \cup Stopped
  BY DEF Stopped
<1> QED
  BY <1>1, <1>3, <1>4, <1>5
  DEF StepsInOrder, Supported, SupportedModifiers, VulkanModifiers,
      negotiationVars, windowVars

(***************************************************************************)
(* Each step of main finds what the one before it has left.                *)
(***************************************************************************)
LEMMA StepsOtherSteps ==
    ASSUME StepsInv, OtherSteps
    PROVE  StepsInOrder'
<1>1. /\ StepsInOrder /\ StartupTypeOK
      /\ UNCHANGED <<feedbackVars, bound, inbox, requests, events,
                     compositorVars>>
  BY OtherStepsTyped DEF StepsInv, FeedbackInv, RegistryInv
<1>2. main_device' = main_device /\ bound' = bound /\ inbox' = inbox
  BY <1>1 DEF feedbackVars
<1>3. UNCHANGED negotiationVars => /\ device_mods' = device_mods
                                   /\ buffer_fmt' = buffer_fmt
                                   /\ Supported(buffer_fmt)' = Supported(buffer_fmt)
  BY DEF negotiationVars, Supported, SupportedModifiers, VulkanModifiers
<1> USE DEF LateStages, Stages, Stopped
<1>4. ASSUME stage' \in Stopped, inbox = <<>> PROVE StepsInOrder'
  BY <1>2, <1>4 DEF StepsInOrder
<1>5. CASE ReadError
  BY <1>4, <1>5 DEF ReadError, Dispatching
<1>6. CASE RoundtripReturns
  <2>1. /\ stage \in {"globals", "feedback"} /\ inbox = <<>>
        /\ stage' \in {"feedback", "device"}
        /\ UNCHANGED <<negotiationVars, windowVars>>
    BY <1>6 DEF RoundtripReturns, InRoundtrip
  <2>2. ~surface
    BY <1>1, <2>1 DEF StepsInOrder
  <2> QED
    BY <1>1, <1>2, <1>3, <2>1, <2>2 DEF StepsInOrder, windowVars
<1>7. CASE ChooseDevice
  <2>1. /\ stage = "device"
        /\ stage' = IF main_device = None THEN "exited" ELSE "renderer"
        /\ UNCHANGED <<negotiationVars, windowVars>>
    BY <1>7 DEF ChooseDevice, Step
  <2>2. ~surface /\ inbox = <<>>
    BY <1>1, <2>1 DEF StepsInOrder
  <2> QED
    BY <1>1, <1>2, <1>3, <1>4, <2>1, <2>2 DEF StepsInOrder, windowVars
<1>8. CASE NewRenderer
  <2>1. /\ stage = "renderer" /\ stage' = "negotiate"
        /\ device_mods' \in Capabilities
        /\ UNCHANGED <<buffer_fmt, windowVars>>
    BY <1>8 DEF NewRenderer, Step
  <2>2. ~surface /\ inbox = <<>> /\ main_device # None
    BY <1>1, <2>1 DEF StepsInOrder
  <2>3. device_mods' # None
    BY <2>1, NegotiationAssumption
  <2> QED
    BY <1>1, <1>2, <2>1, <2>2, <2>3 DEF StepsInOrder, windowVars
<1>9. CASE NegotiateFormat
  <2>1. /\ stage' \in {"exited", "syncobj"}
        /\ stage' = "syncobj" => buffer_fmt' # None /\ Supported(buffer_fmt)'
        /\ device_mods' = device_mods
    BY <1>1, <1>9, NegotiateFormatTyped
  <2>2. stage = "negotiate" /\ UNCHANGED windowVars
    BY <1>9 DEF NegotiateFormat
  <2>3. ~surface /\ inbox = <<>> /\ main_device # None /\ device_mods # None
    BY <1>1, <2>2 DEF StepsInOrder
  <2> QED
    BY <1>1, <1>2, <1>4, <2>1, <2>2, <2>3 DEF StepsInOrder, windowVars
<1>10. CASE ImportTimeline
  <2>1. /\ stage = "syncobj" /\ stage' = "window"
        /\ SyncobjManager \in bound => syncobj_timeline'
        /\ UNCHANGED <<negotiationVars, surface, surface_sync>>
    BY <1>10 DEF ImportTimeline, Step, SyncobjManager
  <2>2. /\ ~surface /\ inbox = <<>> /\ main_device # None
        /\ device_mods # None /\ buffer_fmt # None /\ Supported(buffer_fmt)
    BY <1>1, <2>1 DEF StepsInOrder
  <2> QED
    BY <1>1, <1>2, <1>3, <2>1, <2>2 DEF StepsInOrder
<1>11. CASE InitWindow
  <2>1. /\ stage = "window" /\ stage' \in {"pipeline", "panicked"}
        /\ UNCHANGED <<negotiationVars, syncobj_timeline>>
        /\ stage' = "pipeline" =>
              \/ surface' = surface
              \/ SyncobjManager \in bound /\ surface_sync' = TRUE
    BY <1>11 DEF InitWindow, Step, SyncobjManager
  <2>2. /\ ~surface /\ inbox = <<>> /\ main_device # None
        /\ device_mods # None /\ buffer_fmt # None /\ Supported(buffer_fmt)
        /\ SyncobjManager \in bound => syncobj_timeline
    BY <1>1, <2>1 DEF StepsInOrder
  <2> QED
    BY <1>1, <1>2, <1>3, <1>4, <2>1, <2>2 DEF StepsInOrder
<1>12. CASE BuildPipeline
  <2>1. /\ stage = "pipeline" /\ stage' \in {"loop", "panicked"}
        /\ UNCHANGED <<negotiationVars, windowVars>>
    BY <1>12 DEF BuildPipeline, Step
  <2>2. /\ inbox = <<>> /\ main_device # None
        /\ device_mods # None /\ buffer_fmt # None /\ Supported(buffer_fmt)
        /\ surface => surface_sync /\ syncobj_timeline
    BY <1>1, <2>1 DEF StepsInOrder
  <2> QED
    BY <1>1, <1>2, <1>3, <1>4, <2>1, <2>2 DEF StepsInOrder, windowVars
<1>13. CASE StepFails
  <2>1. stage' = "exited"
    BY <1>13 DEF StepFails, Step
  <2>2. inbox = <<>>
    BY <1>1, <1>13 DEF StepFails, StepsInOrder
  <2> QED
    BY <1>4, <2>1, <2>2
<1> QED
  BY <1>5, <1>6, <1>7, <1>8, <1>9, <1>10, <1>11, <1>12, <1>13 DEF OtherSteps

(***************************************************************************)
(* The steps come in their order.                                          *)
(***************************************************************************)
LEMMA StepsStart ==
    ASSUME Init
    PROVE  StepsInv
BY FeedbackStart DEF StepsInv, StepsInOrder, Init, LateStages, Stages, Stopped

(***************************************************************************)
(* And no step of the two sides disturbs it.                               *)
(***************************************************************************)
LEMMA StepsStep ==
    ASSUME StepsInv, [Next]_vars
    PROVE  StepsInv'
<1>1. FeedbackInv' /\ StepsInOrder
  BY FeedbackStep DEF StepsInv
<1>2. CASE Flush
  BY <1>1, <1>2, StepsIdle DEF Flush, mainVars, feedbackVars, StepsInv
<1>3. ASSUME NEW n \in 1..Len(events), Read(n) PROVE StepsInOrder'
  <2>1. stage \in {"globals", "feedback", "loop"}
        /\ UNCHANGED <<stage, main_device, negotiationVars, windowVars, bound>>
    BY <1>3 DEF Read, Dispatching, InRoundtrip, feedbackVars
  <2> QED
    BY <1>1, <2>1, StepsIdle
<1>4. CASE NextRequest
  BY <1>1, <1>4, StepsIdle DEF NextRequest, mainVars, feedbackVars, StepsInv
<1>5. CASE LateGlobal
  BY <1>1, <1>5, StepsIdle DEF LateGlobal, mainVars, feedbackVars, StepsInv
<1>6. CASE UNCHANGED vars
  BY <1>1, <1>6, StepsIdle DEF vars, mainVars, feedbackVars, StepsInv
<1> QED
  BY <1>1, <1>2, <1>3, <1>4, <1>5, <1>6, StepCases, StepsHandle,
     StepsOtherSteps DEF StepsInv
=============================================================================
