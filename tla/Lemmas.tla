------------------------------- MODULE Lemmas -------------------------------
(***************************************************************************)
(* Lemmas about the operators the models are built from, that the proofs   *)
(* about the components cite.                                              *)
(*                                                                         *)
(* Of ConsumerGroup: what the operations of a group preserve and return,   *)
(* for every stream and every size; a component never opens their          *)
(* definitions again.                                                      *)
(*                                                                         *)
(* Of SumFunctionOnSet, the sum of a function over a finite set: what it   *)
(* is of nothing, how it takes one element off, and what it does when one  *)
(* term changes.  The sum is defined by recursion over subsets.  Each      *)
(* lemma goes by the least size of a subset for which it would fail:       *)
(* Ascent says that there is none, of a set of numbers instead of an       *)
(* operator.                                                               *)
(***************************************************************************)
EXTENDS ConsumerGroup, Functions, FiniteSetsExt, FiniteSetTheorems, WellFoundedInduction, TLAPS

(* A well-formed group over the entries E.                                 *)
Group(E) == {g \in GroupOf(E) : WellFormed(g)}

LEMMA GroupTimes ==
    ASSUME NEW E, NEW g \in Group(E)
    PROVE  Len(g.log) \in Nat /\ \A i \in 1..Len(g.log) : g.times[i] \in Nat
  BY DEF Group, GroupOf, WellFormed

LEMMA EmptyGroupIsGroup ==
    ASSUME NEW E
    PROVE  EmptyGroup \in Group(E)
  BY DEF EmptyGroup, Group, GroupOf, WellFormed

(* Counting a delivery touches no more than the counters.                  *)
LEMMA BumpType ==
    ASSUME NEW E, NEW g \in Group(E), NEW S
    PROVE  /\ Bump(g, S) \in Seq(Nat)
           /\ Len(Bump(g, S)) = Len(g.log)
           /\ \A i \in 1..Len(g.log) : Bump(g, S)[i] >= g.times[i]
  BY DEF Bump, Group, GroupOf, WellFormed

(* A published entry is new: what was settled stays settled, what was      *)
(* pending stays pending, and no entry changes.                            *)
LEMMA XAddGroup ==
    ASSUME NEW E, NEW g \in Group(E), NEW e \in E
    PROVE  /\ XAdd(g, e) \in Group(E)
           /\ XAdd(g, e).cursor = g.cursor
           /\ XAdd(g, e).pending = g.pending
           /\ Len(XAdd(g, e).log) = Len(g.log) + 1
           /\ XAdd(g, e).log[Len(g.log) + 1] = e
           /\ \A i \in 1..Len(g.log) : /\ XAdd(g, e).log[i] = g.log[i]
                                       /\ XAdd(g, e).times[i] = g.times[i]
  BY DEF XAdd, Group, GroupOf, WellFormed

LEMMA XAddAllGroup ==
    ASSUME NEW E, NEW g \in Group(E), NEW es \in Seq(E)
    PROVE  /\ XAddAll(g, es) \in Group(E)
           /\ XAddAll(g, es).cursor = g.cursor
           /\ XAddAll(g, es).pending = g.pending
           /\ Len(XAddAll(g, es).log) = Len(g.log) + Len(es)
           /\ \A i \in 1..Len(es) : XAddAll(g, es).log[Len(g.log) + i] = es[i]
           /\ \A i \in 1..Len(g.log) : /\ XAddAll(g, es).log[i] = g.log[i]
                                       /\ XAddAll(g, es).times[i] = g.times[i]
  BY DEF XAddAll, Group, GroupOf, WellFormed

(* Reading delivers entries that were never delivered before, counts them, *)
(* and leaves them pending.                                                *)
LEMMA XReadGroupGroup ==
    ASSUME NEW E, NEW g \in Group(E), NEW n \in Nat
    PROVE  /\ XReadGroup(g, n) \in Group(E)
           /\ XReadGroup(g, n).log = g.log
           /\ XReadGroup(g, n).cursor >= g.cursor
           /\ XReadGroup(g, n).pending = g.pending \cup Unread(g, n)
           /\ Unread(g, n) \subseteq 1..XReadGroup(g, n).cursor
           /\ \A i \in Unread(g, n) : i > g.cursor
           /\ \A i \in 1..Len(g.log) : XReadGroup(g, n).times[i] >= g.times[i]
  <1> DEFINE new == Unread(g, n)
             c   == IF g.cursor + n < Len(g.log) THEN g.cursor + n
                    ELSE Len(g.log)
             h   == XReadGroup(g, n)
  <1>1. /\ h.log = g.log /\ h.cursor = c
        /\ h.pending = g.pending \cup new /\ h.times = Bump(g, new)
    BY DEF XReadGroup, Group, GroupOf
  <1>2. c \in Nat /\ c >= g.cursor /\ c <= Len(g.log)
    BY DEF Group, GroupOf, WellFormed
  <1>3. new \subseteq 1..c /\ \A i \in new : i > g.cursor
    BY <1>2 DEF Unread, Group, GroupOf, WellFormed
  <1>4. /\ h.times \in Seq(Nat) /\ Len(h.times) = Len(g.log)
        /\ \A i \in 1..Len(g.log) : h.times[i] >= g.times[i]
    BY <1>1, BumpType
  <1>5. g.log \in Seq(E) /\ g.pending \cup new \in SUBSET Nat
    BY <1>3 DEF Group, GroupOf
  <1>6. h \in GroupOf(E)
    BY <1>1, <1>2, <1>4, <1>5 DEF XReadGroup, GroupOf
  <1>7. WellFormed(h)
    BY <1>1, <1>2, <1>3, <1>4 DEF Group, GroupOf, WellFormed
  <1>. HIDE DEF new, c, h
  <1>8. QED
    BY <1>1, <1>2, <1>3, <1>4, <1>6, <1>7 DEF Group, new, h

(* What is read is pending: reading settles nothing.                       *)
LEMMA XReadGroupSettlesNothing ==
    ASSUME NEW E, NEW g \in Group(E), NEW n \in Nat \ {0},
           NEW i \in 1..Len(g.log), Settled(XReadGroup(g, n), i)
    PROVE  Settled(g, i)
  BY DEF XReadGroup, Unread, Settled, Group, GroupOf, WellFormed

(* Reclaiming delivers once more and changes nothing else.                 *)
LEMMA XAutoClaimGroup ==
    ASSUME NEW E, NEW g \in Group(E), NEW S \in SUBSET g.pending
    PROVE  /\ XAutoClaim(g, S) \in Group(E)
           /\ XAutoClaim(g, S).log = g.log
           /\ XAutoClaim(g, S).cursor = g.cursor
           /\ XAutoClaim(g, S).pending = g.pending
           /\ \A i \in 1..Len(g.log) : XAutoClaim(g, S).times[i] >= g.times[i]
  BY BumpType DEF XAutoClaim, Group, GroupOf, WellFormed

LEMMA XAutoClaimCounts ==
    ASSUME NEW E, NEW g \in Group(E), NEW S \in SUBSET g.pending, NEW i \in S
    PROVE  XAutoClaim(g, S).times[i] = g.times[i] + 1
  BY DEF XAutoClaim, Bump, Group, GroupOf, WellFormed

(* Reading with no limit hands out every entry there is.                   *)
LEMMA XReadGroupAll ==
    ASSUME NEW E, NEW g \in Group(E)
    PROVE  /\ XReadGroup(g, Len(g.log)).cursor = Len(g.log)
           /\ Unread(g, Len(g.log)) = (g.cursor + 1)..Len(g.log)
           /\ \A i \in Unread(g, Len(g.log)) :
                 XReadGroup(g, Len(g.log)).times[i] = g.times[i] + 1
  BY DEF XReadGroup, Unread, Bump, Group, GroupOf, WellFormed

(* Acknowledging an entry removes it, and it alone, from the pending list. *)
LEMMA XAckGroup ==
    ASSUME NEW E, NEW g \in Group(E), NEW i
    PROVE  /\ XAck(g, i) \in Group(E)
           /\ XAck(g, i).log = g.log
           /\ XAck(g, i).cursor = g.cursor
           /\ XAck(g, i).pending = g.pending \ {i}
           /\ XAck(g, i).times = g.times
  BY DEF XAck, Group, GroupOf, WellFormed

----------------------------------------------------------------------------
(* Induction without an operator: a set of numbers that holds n if it      *)
(* holds all smaller ones holds every number.                              *)
LEMMA Ascent ==
    ASSUME NEW S, S \in SUBSET Nat,
           \A n \in Nat : (\A m \in Nat : m < n => m \in S) => n \in S
    PROVE  S = Nat
<1> DEFINE R == OpToRel(<, Nat)
           B == Nat \ S
<1>1. \A n, m \in Nat : <<n, m>> \in R <=> n < m
  BY DEF OpToRel
<1>2. IsWellFoundedOn(R, Nat)
  BY NatLessThanWellFounded
<1> HIDE DEF R
<1> SUFFICES ASSUME B # {} PROVE FALSE
  OBVIOUS
<1>3. PICK n \in B : \A m \in B : ~ (<<m, n>> \in R)
  BY <1>2, WFMin
<1>4. \A m \in Nat : m < n => m \in S
  BY <1>1, <1>3
<1> QED
  BY <1>3, <1>4

(* The element the recursion takes off first, its step, and the table of   *)
(* the sums of all parts of S that it makes.                               *)
Pick(s) == CHOOSE x \in s : TRUE

OneStep(f, g, s) == IF s = {} THEN 0 ELSE f[Pick(s)] + g[s \ {Pick(s)}]

Table(f, S) == CHOOSE g : g = [s \in SUBSET S |-> OneStep(f, g, s)]

(* What is picked is in the set.                                           *)
LEMMA PickIn == ASSUME NEW s, s # {} PROVE Pick(s) \in s
  BY DEF Pick

(* The library's sum is an entry of the table.                             *)
LEMMA SumIsTable ==
    ASSUME NEW f, NEW S
    PROVE  SumFunctionOnSet(f, S) = Table(f, S)[S]
  BY DEF SumFunctionOnSet, FoldFunctionOnSet, MapThenFoldSet, Table, OneStep, Pick

(* Without one of its elements, a part is smaller.                         *)
LEMMA PartIsSmaller ==
    ASSUME NEW S, IsFiniteSet(S), NEW s \in SUBSET S, NEW x \in s
    PROVE  /\ IsFiniteSet(s) /\ Cardinality(s) \in Nat /\ Cardinality(s) <= Cardinality(S)
           /\ IsFiniteSet(s \ {x}) /\ Cardinality(s \ {x}) \in Nat
           /\ Cardinality(s \ {x}) < Cardinality(s)
<1>1. IsFiniteSet(s) /\ Cardinality(s) <= Cardinality(S)
  BY FS_Subset
<1>2. IsFiniteSet(s \ {x}) /\ Cardinality(s \ {x}) = Cardinality(s) - 1
  BY <1>1, FS_RemoveElement
<1> QED
  BY <1>1, <1>2, FS_CardinalityType

(* The table exists: one that is right for the parts of up to n elements,  *)
(* for every n.                                                            *)
LEMMA TableIs ==
    ASSUME NEW f, NEW S, IsFiniteSet(S)
    PROVE  Table(f, S) = [s \in SUBSET S |-> OneStep(f, Table(f, S), s)]
<1> DEFINE Upto(g, n) == /\ g = [s \in SUBSET S |-> g[s]]
                         /\ \A s \in SUBSET S : Cardinality(s) <= n => g[s] = OneStep(f, g, s)
           N == {n \in Nat : \E g : Upto(g, n)}
<1>0. \A s \in SUBSET S : Cardinality(s) \in Nat /\ Cardinality(s) <= Cardinality(S)
  BY FS_Subset, FS_CardinalityType
<1>1. ASSUME NEW n \in Nat, \A m \in Nat : m < n => m \in N
      PROVE  n \in N
  <2>1. PICK g : n > 0 => Upto(g, n - 1)
    <3>1. CASE n = 0
      BY <3>1
    <3>2. CASE n > 0
      <4>1. n - 1 \in N
        <5>1. n - 1 \in Nat /\ n - 1 < n
          BY <3>2
        <5> HIDE DEF N
        <5> QED
          BY <1>1, <5>1
      <4> QED
        BY <4>1
    <3> QED
      BY <3>1, <3>2
  <2> DEFINE h == [s \in SUBSET S |-> OneStep(f, g, s)]
  <2>2. ASSUME NEW s \in SUBSET S, Cardinality(s) <= n
        PROVE  h[s] = OneStep(f, h, s)
    <3>1. CASE s = {}
      BY <3>1 DEF OneStep
    <3>2. CASE s # {}
      <4> DEFINE t == s \ {Pick(s)}
      <4>1. t \in SUBSET S /\ Cardinality(t) \in Nat /\ Cardinality(t) < Cardinality(s)
        BY <3>2, PickIn, PartIsSmaller
      <4>2. n > 0 /\ Cardinality(t) <= n - 1
        BY <1>0, <2>2, <4>1
      <4>3. g[t] = OneStep(f, g, t)
        BY <2>1, <4>1, <4>2
      <4>4. h[t] = g[t]
        BY <4>1, <4>3
      <4> HIDE DEF h
      <4>5. OneStep(f, h, s) = OneStep(f, g, s)
        BY <4>4 DEF OneStep
      <4> QED
        BY <4>5 DEF h
    <3> QED
      BY <3>1, <3>2
  <2>3. Upto(h, n)
    BY <2>2
  <2> QED
    BY <2>3
<1>2. N = Nat
  <2> HIDE DEF N
  <2>1. N \in SUBSET Nat
    BY DEF N
  <2> QED
    BY <1>1, <2>1, Ascent
<1>3. PICK g : Upto(g, Cardinality(S))
  <2>1. Cardinality(S) \in Nat
    BY FS_CardinalityType
  <2> QED
    BY <1>2, <2>1
<1>4. g = [s \in SUBSET S |-> OneStep(f, g, s)]
  BY <1>0, <1>3
<1> HIDE DEF Upto, N
<1> QED
  BY <1>4 DEF Table

(* Two tables agree on what both hold.                                     *)
LEMMA TablesAgree ==
    ASSUME NEW f, NEW S, IsFiniteSet(S), NEW T \in SUBSET S, NEW s \in SUBSET T
    PROVE  Table(f, S)[s] = Table(f, T)[s]
<1> DEFINE G == Table(f, S)
           H == Table(f, T)
           N == {n \in Nat : \A t \in SUBSET T : Cardinality(t) = n => G[t] = H[t]}
<1>0. IsFiniteSet(T)
  BY FS_Subset
<1>1. /\ G = [t \in SUBSET S |-> OneStep(f, G, t)]
      /\ H = [t \in SUBSET T |-> OneStep(f, H, t)]
  <2>1. Table(f, S) = [t \in SUBSET S |-> OneStep(f, Table(f, S), t)]
    BY TableIs
  <2>2. Table(f, T) = [t \in SUBSET T |-> OneStep(f, Table(f, T), t)]
    BY <1>0, TableIs
  <2> QED
    BY <2>1, <2>2
<1> HIDE DEF G, H
<1>2. \A t \in SUBSET T : G[t] = OneStep(f, G, t) /\ H[t] = OneStep(f, H, t)
  BY <1>1
<1>3. ASSUME NEW n \in Nat, \A m \in Nat : m < n => m \in N
      PROVE  n \in N
  <2> SUFFICES ASSUME NEW t \in SUBSET T, Cardinality(t) = n PROVE G[t] = H[t]
    OBVIOUS
  <2>1. CASE t = {}
    BY <1>2, <2>1 DEF OneStep
  <2>2. CASE t # {}
    <3> DEFINE u == t \ {Pick(t)}
    <3>1. u \in SUBSET T /\ Cardinality(u) \in Nat /\ Cardinality(u) < n
      BY <1>0, <2>2, PickIn, PartIsSmaller
    <3>2. G[u] = H[u]
      BY <1>3, <3>1
    <3> QED
      BY <1>2, <3>2 DEF OneStep
  <2> QED
    BY <2>1, <2>2
<1>4. N = Nat
  <2> HIDE DEF N
  <2>1. N \in SUBSET Nat
    BY DEF N
  <2> QED
    BY <1>3, <2>1, Ascent
<1>5. Cardinality(s) \in Nat
  BY <1>0, FS_Subset, FS_CardinalityType
<1>6. Cardinality(s) \in N
  BY <1>4, <1>5
<1> QED
  BY <1>6 DEF G, H

(* Nothing sums to 0.                                                      *)
LEMMA SumOfNone ==
    ASSUME NEW f
    PROVE  SumFunctionOnSet(f, {}) = 0
<1>1. Table(f, {}) = [s \in SUBSET {} |-> OneStep(f, Table(f, {}), s)]
  BY TableIs, FS_EmptySet
<1> HIDE DEF Table
<1>2. Table(f, {})[{}] = OneStep(f, Table(f, {}), {})
  BY <1>1
<1> QED
  BY <1>2, SumIsTable DEF OneStep

(* A sum is the term of the element picked and the sum of the rest.        *)
LEMMA SumOfPicked ==
    ASSUME NEW f, NEW S, IsFiniteSet(S), S # {}
    PROVE  SumFunctionOnSet(f, S) = f[Pick(S)] + SumFunctionOnSet(f, S \ {Pick(S)})
<1> DEFINE G == Table(f, S)
           T == S \ {Pick(S)}
<1>1. G = [s \in SUBSET S |-> OneStep(f, G, s)]
  BY TableIs
<1>2. G[T] = Table(f, T)[T]
  BY TablesAgree
<1> HIDE DEF G
<1>3. G[S] = f[Pick(S)] + G[T]
  BY <1>1 DEF OneStep
<1> QED
  BY <1>2, <1>3, SumIsTable DEF G

(* Sums of integers are integers.                                          *)
LEMMA SumIsInt ==
    ASSUME NEW f, NEW S, IsFiniteSet(S), \A x \in S : f[x] \in Int
    PROVE  SumFunctionOnSet(f, S) \in Int
<1> DEFINE N == {n \in Nat : \A s \in SUBSET S : Cardinality(s) = n => SumFunctionOnSet(f, s) \in Int}
<1>1. ASSUME NEW n \in Nat, \A m \in Nat : m < n => m \in N
      PROVE  n \in N
  <2> SUFFICES ASSUME NEW s \in SUBSET S, Cardinality(s) = n
               PROVE  SumFunctionOnSet(f, s) \in Int
    OBVIOUS
  <2>1. CASE s = {}
    BY <2>1, SumOfNone
  <2>2. CASE s # {}
    <3> DEFINE t == s \ {Pick(s)}
    <3>1. /\ Pick(s) \in s /\ t \in SUBSET S /\ IsFiniteSet(s)
          /\ Cardinality(t) \in Nat /\ Cardinality(t) < n
      BY <2>2, PickIn, PartIsSmaller
    <3>2. SumFunctionOnSet(f, t) \in Int
      BY <1>1, <3>1
    <3>3. SumFunctionOnSet(f, s) = f[Pick(s)] + SumFunctionOnSet(f, t)
      BY <2>2, <3>1, SumOfPicked
    <3> QED
      BY <3>1, <3>2, <3>3
  <2> QED
    BY <2>1, <2>2
<1>2. N = Nat
  <2> HIDE DEF N
  <2>1. N \in SUBSET Nat
    BY DEF N
  <2> QED
    BY <1>1, <2>1, Ascent
<1>3. Cardinality(S) \in N
  BY <1>2, FS_CardinalityType
<1> QED
  BY <1>3

(* Any element can be taken off: the order does not matter.                *)
LEMMA SumOfRest ==
    ASSUME NEW f, NEW S, IsFiniteSet(S), \A x \in S : f[x] \in Int, NEW y \in S
    PROVE  SumFunctionOnSet(f, S) = f[y] + SumFunctionOnSet(f, S \ {y})
<1> DEFINE N == {n \in Nat : \A s \in SUBSET S : Cardinality(s) = n =>
                     \A x \in s : SumFunctionOnSet(f, s) = f[x] + SumFunctionOnSet(f, s \ {x})}
<1>0. \A s \in SUBSET S : IsFiniteSet(s) /\ SumFunctionOnSet(f, s) \in Int
  BY FS_Subset, SumIsInt
<1>1. ASSUME NEW n \in Nat, \A m \in Nat : m < n => m \in N
      PROVE  n \in N
  <2> SUFFICES ASSUME NEW s \in SUBSET S, Cardinality(s) = n, NEW x \in s
               PROVE  SumFunctionOnSet(f, s) = f[x] + SumFunctionOnSet(f, s \ {x})
    OBVIOUS
  <2> DEFINE p == Pick(s)
             t == s \ {p}
             u == s \ {x}
             v == s \ {p, x}
  <2>1. p \in s
    BY PickIn
  <2> HIDE DEF p
  <2>2. SumFunctionOnSet(f, s) = f[p] + SumFunctionOnSet(f, t)
    BY <1>0, SumOfPicked DEF p
  <2>3. CASE x = p
    BY <2>2, <2>3
  <2>4. CASE x # p
    <3>1. /\ t \in SUBSET S /\ x \in t /\ Cardinality(t) \in Nat /\ Cardinality(t) < n
          /\ u \in SUBSET S /\ p \in u /\ Cardinality(u) \in Nat /\ Cardinality(u) < n
      BY <2>1, <2>4, PartIsSmaller
    <3>2. SumFunctionOnSet(f, t) = f[x] + SumFunctionOnSet(f, t \ {x})
      BY <1>1, <3>1
    <3>3. SumFunctionOnSet(f, u) = f[p] + SumFunctionOnSet(f, u \ {p})
      BY <1>1, <3>1
    <3>4. t \ {x} = v /\ u \ {p} = v /\ v \in SUBSET S
      OBVIOUS
    <3>5. SumFunctionOnSet(f, v) \in Int /\ f[x] \in Int /\ f[p] \in Int
      BY <1>0, <2>1, <3>4
    <3>6. /\ SumFunctionOnSet(f, t) = f[x] + SumFunctionOnSet(f, v)
          /\ SumFunctionOnSet(f, u) = f[p] + SumFunctionOnSet(f, v)
      <4> HIDE DEF t, u, v
      <4> QED
        BY <3>2, <3>3, <3>4
    <3>7. SumFunctionOnSet(f, s) = f[x] + SumFunctionOnSet(f, u)
      <4> HIDE DEF t, u, v
      <4> QED
        BY <2>2, <3>5, <3>6
    <3> QED
      BY <3>7
  <2> QED
    BY <2>3, <2>4
<1>2. N = Nat
  <2> HIDE DEF N
  <2>1. N \in SUBSET Nat
    BY DEF N
  <2> QED
    BY <1>1, <2>1, Ascent
<1>3. Cardinality(S) \in N
  BY <1>2, FS_CardinalityType
<1> QED
  BY <1>3

(* Equal terms have equal sums.                                            *)
LEMMA SumOfEquals ==
    ASSUME NEW f, NEW g, NEW S, IsFiniteSet(S), \A x \in S : f[x] = g[x]
    PROVE  SumFunctionOnSet(f, S) = SumFunctionOnSet(g, S)
<1> DEFINE N == {n \in Nat : \A s \in SUBSET S : Cardinality(s) = n =>
                     SumFunctionOnSet(f, s) = SumFunctionOnSet(g, s)}
<1>1. ASSUME NEW n \in Nat, \A m \in Nat : m < n => m \in N
      PROVE  n \in N
  <2> SUFFICES ASSUME NEW s \in SUBSET S, Cardinality(s) = n
               PROVE  SumFunctionOnSet(f, s) = SumFunctionOnSet(g, s)
    OBVIOUS
  <2>1. CASE s = {}
    BY <2>1, SumOfNone
  <2>2. CASE s # {}
    <3> DEFINE p == Pick(s)
               t == s \ {p}
    <3>1. /\ p \in s /\ t \in SUBSET S /\ IsFiniteSet(s)
          /\ Cardinality(t) \in Nat /\ Cardinality(t) < n
      BY <2>2, PickIn, PartIsSmaller
    <3>2. SumFunctionOnSet(f, t) = SumFunctionOnSet(g, t)
      BY <1>1, <3>1
    <3>3. /\ SumFunctionOnSet(f, s) = f[p] + SumFunctionOnSet(f, t)
          /\ SumFunctionOnSet(g, s) = g[p] + SumFunctionOnSet(g, t)
      BY <2>2, <3>1, SumOfPicked
    <3>4. f[p] = g[p]
      BY <3>1
    <3> HIDE DEF p, t
    <3> QED
      BY <3>2, <3>3, <3>4
  <2> QED
    BY <2>1, <2>2
<1>2. N = Nat
  <2> HIDE DEF N
  <2>1. N \in SUBSET Nat
    BY DEF N
  <2> QED
    BY <1>1, <2>1, Ascent
<1>3. Cardinality(S) \in N
  BY <1>2, FS_CardinalityType
<1> QED
  BY <1>3

(* One term changes.                                                       *)
LEMMA SumOfChanged ==
    ASSUME NEW S, IsFiniteSet(S), NEW y \in S
    PROVE  \A f, g :
              /\ \A x \in S : f[x] \in Int /\ g[x] \in Int
              /\ \A x \in S : x # y => g[x] = f[x]
              => /\ SumFunctionOnSet(g, S) = SumFunctionOnSet(f, S) - f[y] + g[y]
                 /\ SumFunctionOnSet(g, S) \in Int /\ SumFunctionOnSet(f, S) \in Int
<1> TAKE f, g
<1> HAVE /\ \A x \in S : f[x] \in Int /\ g[x] \in Int
         /\ \A x \in S : x # y => g[x] = f[x]
<1> DEFINE T == S \ {y}
<1>1. IsFiniteSet(T) /\ \A x \in T : f[x] = g[x] /\ f[x] \in Int
  BY FS_Subset
<1>2. SumFunctionOnSet(f, T) = SumFunctionOnSet(g, T) /\ SumFunctionOnSet(f, T) \in Int
  BY <1>1, SumOfEquals, SumIsInt
<1>3. /\ SumFunctionOnSet(f, S) = f[y] + SumFunctionOnSet(f, T)
      /\ SumFunctionOnSet(g, S) = g[y] + SumFunctionOnSet(g, T)
  BY SumOfRest
<1> HIDE DEF T
<1> QED
  BY <1>2, <1>3

(* Zeros sum to 0.                                                         *)
LEMMA SumOfZeros ==
    ASSUME NEW f, NEW S, IsFiniteSet(S), \A x \in S : f[x] = 0
    PROVE  SumFunctionOnSet(f, S) = 0
<1> DEFINE N == {n \in Nat : \A s \in SUBSET S : Cardinality(s) = n =>
                     SumFunctionOnSet(f, s) = 0}
<1>1. ASSUME NEW n \in Nat, \A m \in Nat : m < n => m \in N
      PROVE  n \in N
  <2> SUFFICES ASSUME NEW s \in SUBSET S, Cardinality(s) = n
               PROVE  SumFunctionOnSet(f, s) = 0
    OBVIOUS
  <2>1. CASE s = {}
    BY <2>1, SumOfNone
  <2>2. CASE s # {}
    <3> DEFINE p == Pick(s)
               t == s \ {p}
    <3>1. /\ p \in s /\ t \in SUBSET S /\ IsFiniteSet(s)
          /\ Cardinality(t) \in Nat /\ Cardinality(t) < n
      BY <2>2, PickIn, PartIsSmaller
    <3>2. SumFunctionOnSet(f, t) = 0 /\ f[p] = 0
      BY <1>1, <3>1
    <3>3. SumFunctionOnSet(f, s) = f[p] + SumFunctionOnSet(f, t)
      BY <2>2, <3>1, SumOfPicked
    <3> HIDE DEF p, t
    <3> QED
      BY <3>2, <3>3
  <2> QED
    BY <2>1, <2>2
<1>2. N = Nat
  <2> HIDE DEF N
  <2>1. N \in SUBSET Nat
    BY DEF N
  <2> QED
    BY <1>1, <2>1, Ascent
<1>3. Cardinality(S) \in N
  BY <1>2, FS_CardinalityType
<1> QED
  BY <1>3

(* Induction over the parts of a finite set, of a set of them instead of   *)
(* an operator: one that holds the empty part and every part of which it   *)
(* holds a rest holds them all.                                            *)
LEMMA Climb ==
    ASSUME NEW S, IsFiniteSet(S), NEW P, {} \in P,
           \A s \in SUBSET S : \A x \in s : s \ {x} \in P => s \in P
    PROVE  \A s \in SUBSET S : s \in P
<1> DEFINE N == {n \in Nat : \A s \in SUBSET S : Cardinality(s) = n => s \in P}
<1>1. ASSUME NEW n \in Nat, \A m \in Nat : m < n => m \in N
      PROVE  n \in N
  <2> SUFFICES ASSUME NEW s \in SUBSET S, Cardinality(s) = n, s # {}
               PROVE  s \in P
    OBVIOUS
  <2>1. PICK x \in s : TRUE
    OBVIOUS
  <2>2. s \ {x} \in SUBSET S /\ Cardinality(s \ {x}) \in Nat /\ Cardinality(s \ {x}) < n
    BY PartIsSmaller
  <2>3. s \ {x} \in P
    BY <1>1, <2>2
  <2> QED
    BY <2>3
<1>2. N = Nat
  <2> HIDE DEF N
  <2>1. N \in SUBSET Nat
    BY DEF N
  <2> QED
    BY <1>1, <2>1, Ascent
<1> SUFFICES ASSUME NEW s \in SUBSET S PROVE s \in P
  OBVIOUS
<1>3. Cardinality(s) \in N
  BY <1>2, FS_Subset, FS_CardinalityType
<1> QED
  BY <1>3

(* The same for what holds of a part when it does of all the parts one     *)
(* element less.                                                           *)
LEMMA ClimbByAll ==
    ASSUME NEW S, IsFiniteSet(S), NEW P,
           \A s \in SUBSET S : (\A x \in s : s \ {x} \in P) => s \in P
    PROVE  \A s \in SUBSET S : s \in P
<1> DEFINE N == {n \in Nat : \A s \in SUBSET S : Cardinality(s) = n => s \in P}
<1>1. ASSUME NEW n \in Nat, \A m \in Nat : m < n => m \in N
      PROVE  n \in N
  <2> SUFFICES ASSUME NEW s \in SUBSET S, Cardinality(s) = n
               PROVE  s \in P
    OBVIOUS
  <2> SUFFICES ASSUME NEW x \in s PROVE s \ {x} \in P
    OBVIOUS
  <2>2. s \ {x} \in SUBSET S /\ Cardinality(s \ {x}) \in Nat /\ Cardinality(s \ {x}) < n
    BY PartIsSmaller
  <2> QED
    BY <1>1, <2>2
<1>2. N = Nat
  <2> HIDE DEF N
  <2>1. N \in SUBSET Nat
    BY DEF N
  <2> QED
    BY <1>1, <2>1, Ascent
<1> SUFFICES ASSUME NEW s \in SUBSET S PROVE s \in P
  OBVIOUS
<1>3. Cardinality(s) \in N
  BY <1>2, FS_Subset, FS_CardinalityType
<1> QED
  BY <1>3

(* A sum of terms that lie within bounds lies within as many of these.     *)
LEMMA SumWithin ==
    ASSUME NEW f, NEW S, IsFiniteSet(S), NEW lo \in Int, NEW hi \in Int,
           \A x \in S : f[x] \in Int /\ lo <= f[x] /\ f[x] <= hi
    PROVE  /\ SumFunctionOnSet(f, S) \in Int
           /\ Cardinality(S) * lo <= SumFunctionOnSet(f, S)
           /\ SumFunctionOnSet(f, S) <= Cardinality(S) * hi
<1> DEFINE P == {s \in SUBSET S : /\ Cardinality(s) * lo <= SumFunctionOnSet(f, s)
                                 /\ SumFunctionOnSet(f, s) <= Cardinality(s) * hi}
<1>1. {} \in P
  <2>1. Cardinality({}) = 0 /\ SumFunctionOnSet(f, {}) = 0
    BY SumOfNone, FS_EmptySet
  <2> QED
    BY <2>1
<1>2. ASSUME NEW s \in SUBSET S, NEW x \in s, s \ {x} \in P
      PROVE  s \in P
  <2> DEFINE t == s \ {x}
  <2>1. /\ IsFiniteSet(s) /\ IsFiniteSet(t) /\ Cardinality(t) \in Nat
        /\ Cardinality(s) = Cardinality(t) + 1
    <3>1. IsFiniteSet(s)
      BY FS_Subset
    <3>2. IsFiniteSet(t) /\ Cardinality(t) = Cardinality(s) - 1
      BY <3>1, FS_RemoveElement
    <3>3. Cardinality(s) \in Nat /\ Cardinality(t) \in Nat
      BY <3>1, <3>2, FS_CardinalityType
    <3> HIDE DEF t
    <3> QED
      BY <3>1, <3>2, <3>3
  <2>2. SumFunctionOnSet(f, s) = f[x] + SumFunctionOnSet(f, t) /\ SumFunctionOnSet(f, t) \in Int
    BY <2>1, SumOfRest, SumIsInt
  <2>3. /\ Cardinality(t) * lo <= SumFunctionOnSet(f, t)
        /\ SumFunctionOnSet(f, t) <= Cardinality(t) * hi
    BY <1>2
  <2>4. f[x] \in Int /\ lo <= f[x] /\ f[x] <= hi
    OBVIOUS
  <2>5. \A n \in Nat, a, b \in Int :
           /\ n * lo <= a /\ a <= n * hi /\ lo <= b /\ b <= hi
           => (n + 1) * lo <= b + a /\ b + a <= (n + 1) * hi
    OBVIOUS
  <2> HIDE DEF t
  <2>6. /\ Cardinality(s) * lo <= SumFunctionOnSet(f, s)
        /\ SumFunctionOnSet(f, s) <= Cardinality(s) * hi
    BY <2>1, <2>2, <2>3, <2>4, <2>5
  <2> QED
    BY <2>6
<1>3. S \in P
  <2> HIDE DEF P
  <2> QED
    BY <1>1, <1>2, Climb
<1> QED
  BY <1>3, SumIsInt

(* A sum of what is not negative is not.                                   *)
LEMMA SumIsNat ==
    ASSUME NEW f, NEW S, IsFiniteSet(S), \A x \in S : f[x] \in Nat
    PROVE  SumFunctionOnSet(f, S) \in Nat
<1> DEFINE P == {s \in SUBSET S : SumFunctionOnSet(f, s) \in Nat}
<1>1. {} \in P
  BY SumOfNone
<1>2. ASSUME NEW s \in SUBSET S, NEW x \in s, s \ {x} \in P
      PROVE  s \in P
  <2> DEFINE t == s \ {x}
  <2>1. IsFiniteSet(s) /\ \A y \in s : f[y] \in Int
    BY FS_Subset
  <2>2. SumFunctionOnSet(f, s) = f[x] + SumFunctionOnSet(f, t)
    BY <2>1, SumOfRest
  <2>3. SumFunctionOnSet(f, t) \in Nat /\ f[x] \in Nat
    BY <1>2
  <2> HIDE DEF t
  <2>4. SumFunctionOnSet(f, s) \in Nat
    BY <2>2, <2>3
  <2> QED
    BY <2>4
<1>3. S \in P
  <2> HIDE DEF P
  <2>1. \A s \in SUBSET S : \A x \in s : s \ {x} \in P => s \in P
    BY <1>2
  <2>2. \A s \in SUBSET S : s \in P
    BY <1>1, <2>1, Climb
  <2> QED
    BY <2>2
<1> QED
  BY <1>3

(* The sum over two parts that share nothing.                              *)
LEMMA SumOfParts ==
    ASSUME NEW f, NEW S, IsFiniteSet(S), NEW T, IsFiniteSet(T), S \cap T = {},
           \A x \in S \cup T : f[x] \in Int
    PROVE  /\ SumFunctionOnSet(f, S \cup T) = SumFunctionOnSet(f, S) + SumFunctionOnSet(f, T)
           /\ SumFunctionOnSet(f, S) \in Int /\ SumFunctionOnSet(f, T) \in Int
<1> DEFINE P == {s \in SUBSET S : SumFunctionOnSet(f, s \cup T)
                                     = SumFunctionOnSet(f, s) + SumFunctionOnSet(f, T)}
<1>0. SumFunctionOnSet(f, S) \in Int /\ SumFunctionOnSet(f, T) \in Int
  BY SumIsInt
<1>1. {} \in P
  <2>1. SumFunctionOnSet(f, {}) = 0 /\ {} \cup T = T
    BY SumOfNone
  <2> QED
    BY <1>0, <2>1
<1>2. ASSUME NEW s \in SUBSET S, NEW x \in s, s \ {x} \in P
      PROVE  s \in P
  <2> DEFINE t == s \ {x}
             u == s \cup T
             v == t \cup T
  <2>1. IsFiniteSet(s) /\ IsFiniteSet(t) /\ IsFiniteSet(u)
    BY FS_Subset, FS_Union
  <2>2. x \in u /\ u \ {x} = v
    BY <1>2
  <2>3. SumFunctionOnSet(f, v) = SumFunctionOnSet(f, t) + SumFunctionOnSet(f, T)
    BY <1>2
  <2>4. SumFunctionOnSet(f, t) \in Int /\ f[x] \in Int /\ \A y \in u : f[y] \in Int
    BY <2>1, SumIsInt
  <2>5. SumFunctionOnSet(f, s) = f[x] + SumFunctionOnSet(f, t)
    BY <2>1, SumOfRest
  <2> HIDE DEF t, u, v
  <2>6. SumFunctionOnSet(f, u) = f[x] + SumFunctionOnSet(f, v)
    BY <2>1, <2>2, <2>4, SumOfRest
  <2>7. SumFunctionOnSet(f, u) = SumFunctionOnSet(f, s) + SumFunctionOnSet(f, T)
    BY <1>0, <2>3, <2>4, <2>5, <2>6
  <2> QED
    BY <2>7 DEF u
<1>3. S \in P
  <2> HIDE DEF P
  <2>1. \A s \in SUBSET S : \A x \in s : s \ {x} \in P => s \in P
    BY <1>2
  <2>2. \A s \in SUBSET S : s \in P
    BY <1>1, <2>1, Climb
  <2> QED
    BY <2>2
<1> QED
  BY <1>0, <1>3

(* The sum of two functions is the sum of their sums.                      *)
LEMMA SumOfBoth ==
    ASSUME NEW f, NEW g, NEW h, NEW S, IsFiniteSet(S),
           \A x \in S : f[x] \in Int /\ g[x] \in Int /\ h[x] = f[x] + g[x]
    PROVE  /\ SumFunctionOnSet(h, S) = SumFunctionOnSet(f, S) + SumFunctionOnSet(g, S)
           /\ SumFunctionOnSet(f, S) \in Int /\ SumFunctionOnSet(g, S) \in Int
<1> DEFINE P == {s \in SUBSET S : SumFunctionOnSet(h, s)
                                     = SumFunctionOnSet(f, s) + SumFunctionOnSet(g, s)}
<1>1. {} \in P
  <2>1. /\ SumFunctionOnSet(f, {}) = 0 /\ SumFunctionOnSet(g, {}) = 0
        /\ SumFunctionOnSet(h, {}) = 0
    BY SumOfNone
  <2> QED
    BY <2>1
<1>2. ASSUME NEW s \in SUBSET S, NEW x \in s, s \ {x} \in P
      PROVE  s \in P
  <2> DEFINE t == s \ {x}
  <2>1. IsFiniteSet(s) /\ IsFiniteSet(t) /\ \A y \in s : h[y] \in Int
    BY FS_Subset
  <2>2. /\ SumFunctionOnSet(f, s) = f[x] + SumFunctionOnSet(f, t)
        /\ SumFunctionOnSet(g, s) = g[x] + SumFunctionOnSet(g, t)
        /\ SumFunctionOnSet(h, s) = h[x] + SumFunctionOnSet(h, t)
    BY <2>1, SumOfRest
  <2>3. SumFunctionOnSet(h, t) = SumFunctionOnSet(f, t) + SumFunctionOnSet(g, t)
    BY <1>2
  <2>4. SumFunctionOnSet(f, t) \in Int /\ SumFunctionOnSet(g, t) \in Int
    BY <2>1, SumIsInt
  <2>5. f[x] \in Int /\ g[x] \in Int /\ h[x] = f[x] + g[x]
    OBVIOUS
  <2> HIDE DEF t
  <2>6. SumFunctionOnSet(h, s) = SumFunctionOnSet(f, s) + SumFunctionOnSet(g, s)
    BY <2>2, <2>3, <2>4, <2>5
  <2> QED
    BY <2>6
<1>3. S \in P
  <2> HIDE DEF P
  <2> QED
    BY <1>1, <1>2, Climb
<1> QED
  BY <1>3, SumIsInt

(* A sum can be taken over the places p[x] of the elements, if these do    *)
(* not share one.                                                          *)
LEMMA SumOfPlaces ==
    ASSUME NEW f, NEW g, NEW p, NEW S, IsFiniteSet(S),
           \A x \in S : g[p[x]] = f[x] /\ f[x] \in Int,
           \A x, y \in S : p[x] = p[y] => x = y
    PROVE  /\ SumFunctionOnSet(g, {p[x] : x \in S}) = SumFunctionOnSet(f, S)
           /\ IsFiniteSet({p[x] : x \in S})
<1> DEFINE Q(s) == {p[x] : x \in s}
           P == {s \in SUBSET S : IsFiniteSet(Q(s)) /\ SumFunctionOnSet(g, Q(s))
                                                        = SumFunctionOnSet(f, s)}
<1>1. {} \in P
  <2>1. Q({}) = {} /\ IsFiniteSet({})
    BY FS_EmptySet
  <2>2. SumFunctionOnSet(f, {}) = 0 /\ SumFunctionOnSet(g, {}) = 0
    BY SumOfNone
  <2> QED
    BY <2>1, <2>2
<1>2. ASSUME NEW s \in SUBSET S, NEW x \in s, s \ {x} \in P
      PROVE  s \in P
  <2> DEFINE t == s \ {x}
             U == Q(s)
             V == Q(t)
  <2>1. IsFiniteSet(s) /\ IsFiniteSet(V) /\ SumFunctionOnSet(g, V) = SumFunctionOnSet(f, t)
    BY <1>2, FS_Subset
  <2>2. U = V \cup {p[x]} /\ p[x] \in U /\ U \ {p[x]} = V
    OBVIOUS
  <2>3. IsFiniteSet(U)
    <3> HIDE DEF U, V
    <3> QED
      BY <2>1, <2>2, FS_AddElement
  <2>4. \A y \in U : g[y] \in Int
    OBVIOUS
  <2>5. SumFunctionOnSet(f, s) = f[x] + SumFunctionOnSet(f, t)
    BY <2>1, SumOfRest
  <2>6. SumFunctionOnSet(g, U) = g[p[x]] + SumFunctionOnSet(g, V)
    <3> HIDE DEF U, V
    <3> QED
      BY <2>2, <2>3, <2>4, SumOfRest
  <2>7. SumFunctionOnSet(g, U) = SumFunctionOnSet(f, s)
    <3>1. g[p[x]] = f[x]
      OBVIOUS
    <3> HIDE DEF U, V, t
    <3> QED
      BY <2>1, <2>5, <2>6, <3>1
  <2> QED
    BY <2>3, <2>7
<1>3. S \in P
  <2> HIDE DEF P
  <2> QED
    BY <1>1, <1>2, Climb
<1> QED
  BY <1>3

----------------------------------------------------------------------------
(* Greatest elements, and folds from the left, which take the greatest     *)
(* place of a sequence off first.                                          *)

LEMMA GreatestIn ==
    ASSUME NEW S \in SUBSET Int, IsFiniteSet(S), S # {}
    PROVE  Max(S) \in S /\ \A y \in S : y <= Max(S)
<1> DEFINE P == {s \in SUBSET S : s = {} \/ \E m \in s : \A y \in s : y <= m}
<1>1. ASSUME NEW s \in SUBSET S, NEW x \in s, s \ {x} \in P
      PROVE  s \in P
  <2>1. CASE s \ {x} = {}
    BY <2>1
  <2>2. CASE s \ {x} # {}
    <3>1. PICK m \in s \ {x} : \A y \in s \ {x} : y <= m
      BY <1>1, <2>2
    <3>2. \E l \in s : \A y \in s : y <= l
      <4>1. CASE x <= m
        BY <3>1, <4>1
      <4>2. CASE ~ (x <= m)
        BY <3>1, <4>2
      <4> QED
        BY <4>1, <4>2
    <3> QED
      BY <3>2
  <2> QED
    BY <2>1, <2>2
<1>2. S \in P
  <2> {} \in P
    OBVIOUS
  <2> HIDE DEF P
  <2>1. \A s \in SUBSET S : \A x \in s : s \ {x} \in P => s \in P
    BY <1>1
  <2>2. \A s \in SUBSET S : s \in P
    BY <2>1, Climb
  <2> QED
    BY <2>2
<1>3. \E m \in S : \A y \in S : m >= y
  BY <1>2
<1> QED
  BY <1>3 DEF Max

LEMMA GreatestOf ==
    ASSUME NEW S \in SUBSET Int, NEW m \in S, \A y \in S : y <= m
    PROVE  Max(S) = m
<1>1. \E c \in S : \A y \in S : c >= y
  OBVIOUS
<1>2. Max(S) \in S /\ \A y \in S : Max(S) >= y
  BY <1>1 DEF Max
<1>3. Max(S) \in Int /\ m \in Int /\ Max(S) >= m /\ Max(S) <= m
  BY <1>2
<1> QED
  BY <1>3

LEMMA LastPlace ==
    ASSUME NEW n \in Nat \ {0}
    PROVE  Max(1..n) = n /\ (1..n) \ {n} = 1..(n - 1)
<1> DEFINE S == 1..n
<1>1. S \in SUBSET Int /\ n \in S /\ \A y \in S : y <= n
  OBVIOUS
<1>2. Max(S) = n
  <2> HIDE DEF S
  <2> QED
    BY <1>1, GreatestOf
<1> QED
  BY <1>2

(* A fold from the left of a step that stays in A has the table of values  *)
(* its definition asks for, all in A.                                      *)
HasLeftTable(n, A, base, F) ==
    \E h : /\ h = [s \in SUBSET (1..n) |->
                     IF s = {} THEN base ELSE F[<<Max(s), h[s \ {Max(s)}]>>]]
          /\ \A s \in SUBSET (1..n) : h[s] \in A

LEMMA LeftTable ==
    ASSUME NEW n \in Nat, NEW A, NEW base \in A, NEW F,
           \A k \in 1..n, v \in A : F[<<k, v>>] \in A
    PROVE  HasLeftTable(n, A, base, F)
<1> DEFINE S == 1..n
           One(g, s) == IF s = {} THEN base ELSE F[<<Max(s), g[s \ {Max(s)}]>>]
           Upto(g, k) == /\ g = [s \in SUBSET S |-> g[s]]
                         /\ \A s \in SUBSET S : Cardinality(s) <= k =>
                               g[s] = One(g, s) /\ g[s] \in A
           N == {k \in Nat : \E g : Upto(g, k)}
<1>0. IsFiniteSet(S) /\ S \in SUBSET Int
  BY FS_Interval
<1> HIDE DEF S
<1>a. \A s \in SUBSET S : Cardinality(s) \in Nat /\ Cardinality(s) <= Cardinality(S)
  BY <1>0, FS_Subset, FS_CardinalityType
<1>b. \A s \in SUBSET S : s # {} => Max(s) \in s
  <2> SUFFICES ASSUME NEW s \in SUBSET S, s # {} PROVE Max(s) \in s
    OBVIOUS
  <2>1. IsFiniteSet(s) /\ s \in SUBSET Int
    BY <1>0, FS_Subset
  <2> QED
    BY <2>1, GreatestIn
<1>c. \A k \in S, v \in A : F[<<k, v>>] \in A
  BY DEF S
<1>1. ASSUME NEW k \in Nat, \A m \in Nat : m < k => m \in N
      PROVE  k \in N
  <2>1. PICK g : k > 0 => Upto(g, k - 1)
    <3>1. CASE k = 0
      BY <3>1
    <3>2. CASE k > 0
      <4>1. k - 1 \in N
        <5>1. k - 1 \in Nat /\ k - 1 < k
          BY <3>2
        <5> HIDE DEF N
        <5> QED
          BY <1>1, <5>1
      <4> QED
        BY <4>1
    <3> QED
      BY <3>1, <3>2
  <2> DEFINE h == [s \in SUBSET S |-> One(g, s)]
  <2>2. ASSUME NEW s \in SUBSET S, Cardinality(s) <= k
        PROVE  h[s] = One(h, s) /\ h[s] \in A
    <3>1. CASE s = {}
      BY <3>1
    <3>2. CASE s # {}
      <4> DEFINE m == Max(s)
                 t == s \ {m}
      <4>1. m \in s
        BY <1>b, <3>2
      <4>2. t \in SUBSET S /\ Cardinality(t) \in Nat /\ Cardinality(t) < Cardinality(s)
        <5> HIDE DEF m
        <5> QED
          BY <1>0, <4>1, PartIsSmaller
      <4>3. k > 0 /\ Cardinality(t) <= k - 1
        <5>1. Cardinality(s) \in Nat
          BY <1>a
        <5> HIDE DEF t
        <5> QED
          BY <2>2, <4>2, <5>1
      <4>4. g[t] = One(g, t) /\ g[t] \in A
        <5> HIDE DEF One
        <5> QED
          BY <2>1, <4>2, <4>3
      <4>5. h[t] = g[t]
        <5> HIDE DEF One, t
        <5> QED
          BY <4>2, <4>4
      <4>6. h[s] = F[<<m, g[t]>>]
        BY <3>2
      <4>7. One(h, s) = F[<<m, h[t]>>]
        <5> HIDE DEF h
        <5> QED
          BY <3>2
      <4>8. m \in S
        <5> HIDE DEF m
        <5> QED
          BY <4>1
      <4> HIDE DEF h, One, t, m
      <4> QED
        BY <1>c, <4>4, <4>5, <4>6, <4>7, <4>8
    <3> QED
      BY <3>1, <3>2
  <2>3. Upto(h, k)
    <3> HIDE DEF One
    <3> QED
      BY <2>2
  <2> QED
    BY <2>3
<1>2. N = Nat
  <2> HIDE DEF N
  <2>1. N \in SUBSET Nat
    BY DEF N
  <2> QED
    BY <1>1, <2>1, Ascent
<1>3. PICK g : Upto(g, Cardinality(S))
  <2>1. Cardinality(S) \in Nat
    BY <1>0, FS_CardinalityType
  <2> QED
    BY <1>2, <2>1
<1>4. g = [s \in SUBSET S |-> One(g, s)] /\ \A s \in SUBSET S : g[s] \in A
  <2> HIDE DEF One
  <2> QED
    BY <1>a, <1>3
<1> HIDE DEF Upto, N
<1> QED
  BY <1>4 DEF S, HasLeftTable

=============================================================================
