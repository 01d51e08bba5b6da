---------------------------- MODULE MountsProofs ----------------------------
(* Proofs that _disk_percent and _volumes compute what the reference          *)
(* definitions of Mounts say, for mount lists of every length.  The provers   *)
(* take no induction over data as such; here it is one over sets of numbers,  *)
(* whose least elements are at hand.                                          *)
EXTENDS Mounts, TLAPS, WellFoundedInduction

-----------------------------------------------------------------------------
(* Numbers.                                                                   *)

\* A set of indices that is not empty has a least one.
LEMMA LeastIndex ==
  ASSUME NEW I \in SUBSET Nat, I # {}
  PROVE  \E i \in I : \A j \in I : i <= j
<1>1. \E i \in I : \A j \in I : ~ (<<j, i>> \in OpToRel(<, Nat))
  BY WFMin, NatLessThanWellFounded, Zenon
<1>2. \E i \in I : \A j \in I : ~ (j < i)
  BY <1>1, Zenon DEF OpToRel
<1> QED
  BY <1>2

\* Min gives it.
LEMMA MinIsLeast ==
  ASSUME NEW I \in SUBSET Nat, I # {}
  PROVE  Min(I) \in I /\ \A j \in I : Min(I) <= j
BY LeastIndex DEF Min

\* A set that holds 0, and with a number the next, holds them all.
LEMMA HoldsAll ==
  ASSUME NEW P, 0 \in P, \A n \in Nat : n \in P => n + 1 \in P
  PROVE  Nat \subseteq P
<1> SUFFICES ASSUME Nat \ P # {} PROVE FALSE
  OBVIOUS
<1>1. PICK i \in Nat \ P : \A j \in Nat \ P : i <= j
  BY LeastIndex, Zenon
<1>2. i - 1 \in Nat
  BY <1>1
<1>3. i - 1 \in P
  BY <1>1, <1>2
<1> QED
  BY <1>1, <1>2, <1>3

\* Of a list of different numbers one more can be put in order once the others
\* are: the list of n numbers has an order, whatever n.
HasOrder(f, n) ==
  \E p \in Bijection(1..n, 1..n) : \A k, l \in 1..n : k < l => f[p[k]] <= f[p[l]]

LEMMA OneMoreInOrder ==
  ASSUME NEW n \in Nat, NEW f \in [1..(n + 1) -> Nat], HasOrder(f, n)
  PROVE  HasOrder(f, n + 1)
<1>1. PICK p \in Bijection(1..n, 1..n) : \A k, l \in 1..n : k < l => f[p[k]] <= f[p[l]]
  BY DEF HasOrder
<1>2. /\ p \in [1..n -> 1..n]
      /\ \A k, l \in 1..n : p[k] = p[l] => k = l
      /\ \A m \in 1..n : \E k \in 1..n : p[k] = m
  BY <1>1 DEF Bijection, Injection, Surjection, IsInjective
<1>2a. /\ f[n + 1] \in Nat
      /\ \A k \in 1..n : p[k] \in 1..n /\ k \in 1..(n + 1) /\ f[p[k]] \in Nat
  <2>1. \A k \in 1..n : p[k] \in 1..n
    BY <1>2
  <2>2. \A k \in 1..(n + 1) : f[k] \in Nat
    OBVIOUS
  <2>3. n + 1 \in 1..(n + 1) /\ \A k \in 1..n : k \in 1..(n + 1)
    OBVIOUS
  <2> QED
    BY <2>1, <2>2, <2>3
<1> DEFINE Above == {k \in 1..n : f[n + 1] < f[p[k]]} \cup {n + 1}
<1>3. PICK at \in Above : \A k \in Above : at <= k
  <2>1. Above \in SUBSET Nat /\ Above # {}
    OBVIOUS
  <2> QED
    BY <2>1, LeastIndex, Zenon
<1>4. /\ at \in 1..(n + 1)
      /\ \A k \in 1..n : k < at => f[p[k]] <= f[n + 1]
  <2>1. at \in 1..(n + 1)
    BY <1>3
  <2>2. ASSUME NEW k \in 1..n, k < at PROVE f[p[k]] <= f[n + 1]
    <3>1. k \notin Above
      BY <1>3, <2>1, <2>2
    <3> QED
      BY <1>2a, <3>1
  <2> QED
    BY <2>1, <2>2
<1>5. \A k \in 1..n : at <= k => f[n + 1] <= f[p[k]]
  <2> SUFFICES ASSUME NEW k \in 1..n, at <= k PROVE f[n + 1] <= f[p[k]]
    OBVIOUS
  <2>1. at \in 1..n /\ f[n + 1] < f[p[at]]
    BY <1>3
  <2>2. at = k \/ f[p[at]] <= f[p[k]]
    BY <1>1, <2>1
  <2> QED
    BY <1>2a, <2>1, <2>2
<1> HIDE DEF Above
<1> DEFINE q == [k \in 1..(n + 1) |-> IF k < at THEN p[k]
                                      ELSE IF k = at THEN n + 1 ELSE p[k - 1]]
<1>6. /\ q[at] = n + 1
      /\ \A k \in 1..(n + 1) : k < at => k \in 1..n /\ q[k] = p[k]
      /\ \A k \in 1..(n + 1) : at < k => k - 1 \in 1..n /\ q[k] = p[k - 1]
      /\ DOMAIN q = 1..(n + 1) /\ q = [k \in 1..(n + 1) |-> q[k]]
  BY <1>4
<1> HIDE DEF q
<1>7. \A k \in 1..(n + 1) : k = at \/ k < at \/ at < k
  BY <1>4
<1>8. q \in [1..(n + 1) -> 1..(n + 1)]
  <2> SUFFICES ASSUME NEW k \in 1..(n + 1) PROVE q[k] \in 1..(n + 1)
    BY <1>6
  <2>1. q[k] = n + 1 \/ q[k] \in 1..n
    BY <1>2, <1>6, <1>7
  <2> QED
    BY <2>1
<1>9. ASSUME NEW k \in 1..(n + 1), NEW l \in 1..(n + 1), k < l
      PROVE  q[k] # q[l] /\ f[q[k]] <= f[q[l]]
  <2>1. k \in Nat /\ l \in Nat /\ at \in Nat
    BY <1>4
  <2>2. CASE l < at
    <3>1. k \in 1..n /\ l \in 1..n /\ q[k] = p[k] /\ q[l] = p[l]
      BY <1>6, <1>9, <2>1, <2>2
    <3>2. p[k] # p[l]
      BY <1>2, <1>9, <2>1, <3>1
    <3> QED
      BY <1>1, <1>9, <3>1, <3>2
  <2>3. CASE l = at
    <3>1. k \in 1..n /\ q[k] = p[k] /\ q[l] = n + 1 /\ p[k] \in 1..n
      BY <1>2, <1>6, <1>9, <2>3
    <3> QED
      BY <1>4, <1>9, <2>3, <3>1
  <2>4. CASE k = at
    <3>1. /\ l - 1 \in 1..n /\ at <= l - 1 /\ q[l] = p[l - 1]
          /\ q[k] = n + 1 /\ p[l - 1] \in 1..n
      BY <1>2, <1>6, <1>9, <2>1, <2>4
    <3> QED
      BY <1>5, <3>1
  <2>5. CASE k < at /\ at < l
    <3>1. /\ k \in 1..n /\ q[k] = p[k]
          /\ l - 1 \in 1..n /\ q[l] = p[l - 1]
          /\ k # l - 1 /\ at <= l - 1
      BY <1>6, <2>1, <2>5
    <3>2. f[p[k]] <= f[n + 1] /\ f[n + 1] <= f[p[l - 1]]
      BY <1>4, <1>5, <2>5, <3>1
    <3>3. f[p[k]] <= f[p[l - 1]]
      BY <1>2a, <3>1, <3>2
    <3> QED
      BY <1>2, <3>1, <3>3
  <2>6. CASE at < k
    <3>1. /\ k - 1 \in 1..n /\ l - 1 \in 1..n /\ k - 1 < l - 1
          /\ q[k] = p[k - 1] /\ q[l] = p[l - 1]
      BY <1>6, <1>9, <2>1, <2>6
    <3>2. p[k - 1] # p[l - 1]
      BY <1>2, <2>1, <3>1
    <3> QED
      BY <1>1, <3>1, <3>2
  <2> QED
    BY <1>7, <2>1, <2>2, <2>3, <2>4, <2>5, <2>6
<1>10. \A k, l \in 1..(n + 1) : q[k] = q[l] => k = l
  <2>1. \A k, l \in 1..(n + 1) : k < l \/ l < k \/ k = l
    OBVIOUS
  <2> QED
    BY <1>9, <2>1
<1>11. ASSUME NEW m \in 1..(n + 1) PROVE \E k \in 1..(n + 1) : q[k] = m
  <2>1. CASE m = n + 1
    BY <1>4, <1>6, <2>1
  <2>2. CASE m # n + 1
    <3>1. m \in 1..n
      BY <2>2
    <3>2. PICK k \in 1..n : p[k] = m
      BY <1>2, <3>1
    <3>3. CASE k < at
      <4>1. k \in 1..(n + 1) /\ q[k] = p[k]
        BY <1>6, <3>3
      <4> QED
        BY <3>2, <4>1
    <3>4. CASE ~ (k < at)
      <4>1. k + 1 \in 1..(n + 1) /\ at < k + 1 /\ (k + 1) - 1 = k
        BY <1>4, <3>4
      <4>2. q[k + 1] = p[k]
        BY <1>6, <4>1
      <4> QED
        BY <3>2, <4>1, <4>2
    <3> QED
      BY <3>3, <3>4
  <2> QED
    BY <2>1, <2>2
<1>12. q \in Bijection(1..(n + 1), 1..(n + 1))
  BY <1>8, <1>10, <1>11 DEF Bijection, Injection, Surjection, IsInjective
<1> QED
  BY <1>9, <1>12 DEF HasOrder

LEMMA AlwaysInOrder ==
  ASSUME NEW n \in Nat, NEW f \in [1..n -> Nat]
  PROVE  HasOrder(f, n)
<1> DEFINE P == {m \in Nat : m <= n => HasOrder([k \in 1..m |-> f[k]], m)}
<1>1. 0 \in P
  <2> DEFINE none == [k \in 1..0 |-> k]
  <2>1. none \in Bijection(1..0, 1..0)
    BY DEF Bijection, Injection, Surjection, IsInjective
  <2> QED
    BY <2>1 DEF HasOrder
<1>2. ASSUME NEW m \in Nat, m \in P PROVE m + 1 \in P
  <2> DEFINE g == [k \in 1..m |-> f[k]]
             h == [k \in 1..(m + 1) |-> f[k]]
  <2> SUFFICES ASSUME m + 1 <= n PROVE HasOrder(h, m + 1)
    OBVIOUS
  <2>1. HasOrder(g, m)
    BY <1>2
  <2>2. PICK p \in Bijection(1..m, 1..m) : \A k, l \in 1..m : k < l => g[p[k]] <= g[p[l]]
    BY <2>1 DEF HasOrder
  <2>3. \A k \in 1..m : p[k] \in 1..m
    BY <2>2 DEF Bijection, Injection
  <2>4. \A k \in 1..m : h[p[k]] = g[p[k]]
    BY <2>3
  <2>5. HasOrder(h, m)
    BY <2>2, <2>4 DEF HasOrder
  <2>6. h \in [1..(m + 1) -> Nat]
    OBVIOUS
  <2> HIDE DEF h
  <2> QED
    BY <2>5, <2>6, OneMoreInOrder
<1> HIDE DEF P
<1>3. n \in P
  BY <1>1, <1>2, HoldsAll
<1>4. HasOrder([k \in 1..n |-> f[k]], n)
  BY <1>3 DEF P
<1>5. f = [k \in 1..n |-> f[k]]
  OBVIOUS
<1> QED
  BY <1>4, <1>5

-----------------------------------------------------------------------------
(* The fold over the mounts.                                                  *)

\* The value of the fold at each set of places of the list.
IsFold(g, s, n) ==
  g = [t \in SUBSET (1..n) |->
         IF t = {} THEN <<>> ELSE AddVolume(g[t \ {Max(t)}], s[Max(t)])]

LEMMA MaxIs ==
  ASSUME NEW n \in Nat, NEW t \in SUBSET (1..n), n \in t
  PROVE  Max(t) = n
<1>1. n \in t /\ \A y \in t : n >= y
  OBVIOUS
<1>2. \A x \in t : (\A y \in t : x >= y) => x = n
  BY <1>1
<1> QED
  BY <1>1, <1>2, Zenon DEF Max

\* The recursion by which the fold is defined has a solution.
LEMMA FoldExists ==
  ASSUME NEW s, NEW n \in Nat
  PROVE  \E g : IsFold(g, s, n)
<1> DEFINE P == {m \in Nat : \E g : IsFold(g, s, m)}
<1>1. 0 \in P
  <2> DEFINE none == [t \in SUBSET (1..0) |-> <<>>]
  <2>1. \A t \in SUBSET (1..0) : t = {}
    OBVIOUS
  <2>2. IsFold(none, s, 0)
    BY <2>1 DEF IsFold
  <2> QED
    BY <2>2
<1>2. ASSUME NEW m \in Nat, m \in P PROVE m + 1 \in P
  <2>1. PICK g : IsFold(g, s, m)
    BY <1>2
  <2> DEFINE h == [t \in SUBSET (1..(m + 1)) |->
                     IF m + 1 \notin t THEN g[t]
                     ELSE AddVolume(g[t \ {m + 1}], s[m + 1])]
  <2>2. ASSUME NEW t \in SUBSET (1..(m + 1))
        PROVE  h[t] = IF t = {} THEN <<>>
                      ELSE AddVolume(h[t \ {Max(t)}], s[Max(t)])
    <3>1. CASE m + 1 \notin t
      <4>0. \A x \in t : x \in 1..m /\ x \in 1..(m + 1)
        BY <3>1
      <4>1. t \in SUBSET (1..m) /\ t \ {Max(t)} \in SUBSET (1..(m + 1))
        BY <4>0
      <4>2. h[t] = g[t] /\ h[t \ {Max(t)}] = g[t \ {Max(t)}]
        BY <3>1, <4>1
      <4>3. g[t] = IF t = {} THEN <<>>
                   ELSE AddVolume(g[t \ {Max(t)}], s[Max(t)])
        BY <2>1, <4>1 DEF IsFold
      <4> QED
        BY <4>2, <4>3
    <3>2. CASE m + 1 \in t
      <4>1. Max(t) = m + 1
        BY <3>2, MaxIs
      <4>2. t \ {m + 1} \in SUBSET (1..(m + 1))
        OBVIOUS
      <4>3. h[t \ {m + 1}] = g[t \ {m + 1}]
        BY <4>2
      <4>4. h[t] = AddVolume(g[t \ {m + 1}], s[m + 1])
        BY <3>2
      <4> QED
        BY <3>2, <4>1, <4>3, <4>4
    <3> QED
      BY <3>1, <3>2
  <2>3. h = [t \in SUBSET (1..(m + 1)) |-> h[t]]
    OBVIOUS
  <2> HIDE DEF h
  <2>4. IsFold(h, s, m + 1)
    BY <2>2, <2>3 DEF IsFold
  <2> QED
    BY <2>4
<1> HIDE DEF P
<1>3. n \in P
  BY <1>1, <1>2, HoldsAll
<1> QED
  BY <1>3 DEF P

\* The fold takes the mounts one after the other.
LEMMA FoldSteps ==
  ASSUME NEW s \in Seq(Mount)
  PROVE  \E acc :
           /\ acc[0] = <<>>
           /\ \A n \in 1..Len(s) : acc[n] = AddVolume(acc[n - 1], s[n])
           /\ FoldLeft(AddVolume, <<>>, s) = acc[Len(s)]
<1> DEFINE g == CHOOSE g : IsFold(g, s, Len(s))
           acc == [n \in 0..Len(s) |-> g[1..n]]
<1>1. Len(s) \in Nat /\ DOMAIN s = 1..Len(s)
  OBVIOUS
<1>2. IsFold(g, s, Len(s))
  BY <1>1, FoldExists, Zenon
<1>3. FoldLeft(AddVolume, <<>>, s) = g[1..Len(s)]
  BY <1>1 DEF FoldLeft, MapThenFoldSet, IsFold
<1> HIDE DEF g
<1>4. ASSUME NEW n \in 0..Len(s)
      PROVE  g[1..n] = IF n = 0 THEN <<>> ELSE AddVolume(g[1..(n - 1)], s[n])
  <2>1. 1..n \in SUBSET (1..Len(s))
    BY <1>1
  <2>2. g[1..n] = IF 1..n = {} THEN <<>>
                  ELSE AddVolume(g[(1..n) \ {Max(1..n)}], s[Max(1..n)])
    BY <1>2, <2>1 DEF IsFold
  <2>3. n = 0 => 1..n = {}
    OBVIOUS
  <2>4. n # 0 => 1..n # {} /\ Max(1..n) = n /\ (1..n) \ {n} = 1..(n - 1)
    BY MaxIs
  <2> QED
    BY <2>2, <2>3, <2>4
<1>5. acc[0] = <<>> /\ \A n \in 1..Len(s) : acc[n] = AddVolume(acc[n - 1], s[n])
  BY <1>1, <1>4
<1>6. FoldLeft(AddVolume, <<>>, s) = acc[Len(s)]
  BY <1>1, <1>3
<1> HIDE DEF acc
<1> QED
  BY <1>5, <1>6

-----------------------------------------------------------------------------
(* The volumes.                                                               *)

\* A mount list as a machine answers with it: no more is free than there is.
IsMountList(s) == s \in Seq(Mount) /\ \A i \in DOMAIN s : s[i].available <= s[i].size

\* Its mounts are within the bounds.
LEMMA MountsFit ==
  ASSUME NEW s, IsMountList(s), NEW i \in DOMAIN s
  PROVE  /\ s[i].on \in MountPoint \cup {System} /\ s[i].size \in 0..MaxSize
         /\ s[i].available \in 0..MaxSize /\ s[i].available <= s[i].size
<1>1. s[i] \in Mount /\ s[i].available <= s[i].size
  BY DEF IsMountList
<1> QED
  BY <1>1 DEF Mount

\* The first mount of its point that qualifies.
IsFirst(s, i) ==
  /\ Qualifies(s[i])
  /\ \A j \in 1..(i - 1) : Qualifies(s[j]) => s[j].on # s[i].on

\* What the loop has collected after n mounts: a volume of each point's first.
Collected(v, s, n) ==
  /\ v \in Seq(Volume)
  /\ \A k, l \in DOMAIN v : v[k].on = v[l].on => k = l
  /\ \A k \in DOMAIN v : \E i \in 1..n : IsFirst(s, i) /\ v[k] = VolumeOf(s[i])
  /\ \A i \in 1..n : IsFirst(s, i) => \E k \in DOMAIN v : v[k] = VolumeOf(s[i])

\* A point of which some mount qualifies has a first that does.
LEMMA FirstExists ==
  ASSUME NEW s, NEW n \in Nat, NEW i \in 1..n, Qualifies(s[i])
  PROVE  \E j \in 1..n : IsFirst(s, j) /\ s[j].on = s[i].on
<1> DEFINE I == {j \in 1..n : Qualifies(s[j]) /\ s[j].on = s[i].on}
<1>1. I \in SUBSET Nat /\ I # {}
  OBVIOUS
<1>2. PICK j \in I : \A k \in I : j <= k
  BY <1>1, LeastIndex, Zenon
<1>3. ASSUME NEW k \in 1..(j - 1), Qualifies(s[k]) PROVE s[k].on # s[j].on
  <2>1. k \in 1..n /\ ~ (j <= k)
    BY <1>2
  <2> QED
    BY <1>2, <1>3, <2>1
<1> QED
  BY <1>2, <1>3 DEF IsFirst

\* The volume of a mount that qualifies has a size to divide by.
LEMMA VolumeType ==
  ASSUME NEW s, IsMountList(s), NEW i \in DOMAIN s, Qualifies(s[i])
  PROVE  VolumeOf(s[i]) \in Volume
<1>1. s[i].on \in MountPoint /\ s[i].size \in 1..MaxSize
  BY MountsFit, MountAssumption DEF Qualifies
<1>2. s[i].size - s[i].available \in 0..MaxSize
  BY MountsFit, MountAssumption
<1> QED
  BY <1>1, <1>2 DEF VolumeOf, Volume

\* One more mount: AddVolume keeps what was collected and adds the mount if it
\* is a first.
LEMMA CollectedNext ==
  ASSUME NEW s, IsMountList(s), NEW n \in Nat, n + 1 \in DOMAIN s,
         NEW v, Collected(v, s, n)
  PROVE  Collected(AddVolume(v, s[n + 1]), s, n + 1)
<1> DEFINE m == s[n + 1]
<1>1. \A i \in 1..(n + 1) : i \in 1..n \/ i = n + 1
  OBVIOUS
<1>2. /\ v \in Seq(Volume) /\ DOMAIN v = 1..Len(v) /\ Len(v) \in Nat
      /\ \A i \in 1..n : i \in 1..(n + 1)
      /\ n + 1 \in 1..(n + 1) /\ (n + 1) - 1 = n
  BY DEF Collected
<1>3. Listed(v, m) <=> \E i \in 1..n : Qualifies(s[i]) /\ s[i].on = m.on
  <2>1. \A i \in 1..n : IsFirst(s, i) => Qualifies(s[i])
    BY DEF IsFirst
  <2>2. \A i \in 1..n : VolumeOf(s[i]).on = s[i].on
    BY DEF VolumeOf
  <2>3. ASSUME Listed(v, m) PROVE \E i \in 1..n : Qualifies(s[i]) /\ s[i].on = m.on
    <3>1. PICK k \in DOMAIN v : v[k].on = m.on
      BY <2>3 DEF Listed
    <3>2. PICK i \in 1..n : IsFirst(s, i) /\ v[k] = VolumeOf(s[i])
      BY <3>1 DEF Collected
    <3> QED
      BY <2>1, <2>2, <3>1, <3>2
  <2>4. ASSUME NEW i \in 1..n, Qualifies(s[i]), s[i].on = m.on PROVE Listed(v, m)
    <3>1. PICK j \in 1..n : IsFirst(s, j) /\ s[j].on = s[i].on
      BY <2>4, FirstExists
    <3> QED
      BY <2>2, <2>4, <3>1 DEF Listed, Collected
  <2> QED
    BY <2>3, <2>4
<1>4. IsFirst(s, n + 1) <=> Qualifies(m) /\ ~Listed(v, m)
  BY <1>2, <1>3 DEF IsFirst
<1>5. CASE ~ IsFirst(s, n + 1)
  <2>1. AddVolume(v, m) = v
    BY <1>4, <1>5 DEF AddVolume
  <2> QED
    BY <1>1, <1>2, <1>5, <2>1 DEF Collected
<1>6. CASE IsFirst(s, n + 1)
  <2> DEFINE w == Append(v, VolumeOf(m))
  <2>1. AddVolume(v, m) = w
    BY <1>4, <1>6 DEF AddVolume
  <2>2. VolumeOf(m) \in Volume
    BY <1>6, VolumeType DEF IsFirst
  <2>3. /\ w \in Seq(Volume) /\ DOMAIN w = 1..(Len(v) + 1)
        /\ w[Len(v) + 1] = VolumeOf(m)
        /\ \A k \in 1..Len(v) : w[k] = v[k]
    BY <1>2, <2>2
  <2>4. \A k \in DOMAIN w : k \in DOMAIN v \/ k = Len(v) + 1
    BY <1>2, <2>3
  <2>5. Len(v) + 1 \in DOMAIN w /\ \A k \in DOMAIN v : k \in DOMAIN w
    BY <1>2, <2>3
  <2>6. VolumeOf(m).on = m.on
    BY DEF VolumeOf
  <2> HIDE DEF w
  <2>7. \A k, l \in DOMAIN w : w[k].on = w[l].on => k = l
    <3>1. \A k \in DOMAIN v : v[k].on # m.on
      BY <1>4, <1>6 DEF Listed
    <3> QED
      BY <1>2, <2>3, <2>4, <2>6, <3>1 DEF Collected
  <2>8. \A k \in DOMAIN w : \E i \in 1..(n + 1) : IsFirst(s, i) /\ w[k] = VolumeOf(s[i])
    BY <1>2, <1>6, <2>3, <2>4 DEF Collected
  <2>9. \A i \in 1..(n + 1) : IsFirst(s, i) => \E k \in DOMAIN w : w[k] = VolumeOf(s[i])
    BY <1>1, <1>2, <2>3, <2>5 DEF Collected
  <2> QED
    BY <2>1, <2>3, <2>7, <2>8, <2>9 DEF Collected
<1> QED
  BY <1>5, <1>6

\* The loop of _volumes collects a volume of each point's first mount.
LEMMA LoopCollects ==
  ASSUME NEW s, IsMountList(s)
  PROVE  Collected(FoldLeft(AddVolume, <<>>, s), s, Len(s))
<1>1. s \in Seq(Mount) /\ Len(s) \in Nat /\ DOMAIN s = 1..Len(s)
  BY DEF IsMountList
<1>2. PICK acc :
        /\ acc[0] = <<>>
        /\ \A n \in 1..Len(s) : acc[n] = AddVolume(acc[n - 1], s[n])
        /\ FoldLeft(AddVolume, <<>>, s) = acc[Len(s)]
  BY <1>1, FoldSteps
<1> DEFINE P == {n \in Nat : n <= Len(s) => Collected(acc[n], s, n)}
<1>3. 0 \in P
  <2>1. Collected(<<>>, s, 0)
    BY DEF Collected
  <2> QED
    BY <1>2, <2>1
<1>4. ASSUME NEW n \in Nat, n \in P PROVE n + 1 \in P
  <2> SUFFICES ASSUME n + 1 <= Len(s) PROVE Collected(acc[n + 1], s, n + 1)
    OBVIOUS
  <2>1. Collected(acc[n], s, n) /\ n + 1 \in 1..Len(s) /\ (n + 1) - 1 = n
    BY <1>1, <1>4
  <2>2. acc[n + 1] = AddVolume(acc[n], s[n + 1])
    BY <1>2, <2>1
  <2> QED
    BY <1>1, <2>1, <2>2, CollectedNext
<1> HIDE DEF P
<1>5. Len(s) \in P
  BY <1>1, <1>3, <1>4, HoldsAll
<1> QED
  BY <1>1, <1>2, <1>5 DEF P

\* sorted puts volumes of different points in the order of their points.
LEMMA SortedOrders ==
  ASSUME NEW v \in Seq(Volume),
         \A k, l \in DOMAIN v : v[k].on = v[l].on => k = l
  PROVE  /\ Sorted(v) \in Seq(Volume)
         /\ {Sorted(v)[k] : k \in DOMAIN Sorted(v)} = {v[k] : k \in DOMAIN v}
         /\ \A k, l \in DOMAIN Sorted(v) : k < l => Sorted(v)[k].on < Sorted(v)[l].on
<1> DEFINE n == Len(v)
           f == [k \in 1..n |-> v[k].on]
           IsOrder(p) == \A k, l \in 1..n : k < l => v[p[k]].on <= v[p[l]].on
           order == CHOOSE p \in Bijection(1..n, 1..n) : IsOrder(p)
<1>1. n \in Nat /\ DOMAIN v = 1..n /\ \A k \in 1..n : v[k] \in Volume
  OBVIOUS
<1>2. \A k \in 1..n : v[k].on \in Nat
  BY <1>1, MountAssumption DEF Volume
<1>3. PICK p \in Bijection(1..n, 1..n) : \A k, l \in 1..n : k < l => f[p[k]] <= f[p[l]]
  <2>1. f \in [1..n -> Nat]
    BY <1>2
  <2> HIDE DEF f, n
  <2> QED
    BY <1>1, <2>1, AlwaysInOrder DEF HasOrder
<1>4. IsOrder(p)
  <2>1. \A k \in 1..n : p[k] \in 1..n
    BY <1>3 DEF Bijection, Injection
  <2> QED
    BY <1>3, <2>1
<1>5. order \in Bijection(1..n, 1..n) /\ IsOrder(order)
  <2> HIDE DEF IsOrder
  <2> QED
    BY <1>3, <1>4
<1>6. Sorted(v) = [k \in 1..n |-> v[order[k]]]
  BY <1>1 DEF Sorted
<1> HIDE DEF order, n
<1>7. /\ \A k \in 1..n : order[k] \in 1..n
      /\ \A k, l \in 1..n : order[k] = order[l] => k = l
      /\ \A m \in 1..n : \E k \in 1..n : order[k] = m
  BY <1>5 DEF Bijection, Injection, Surjection, IsInjective
<1>8. Sorted(v) \in Seq(Volume)
  BY <1>1, <1>6, <1>7
<1>9. {Sorted(v)[k] : k \in DOMAIN Sorted(v)} = {v[k] : k \in DOMAIN v}
  <2>1. \A k \in 1..n : Sorted(v)[k] = v[order[k]] /\ order[k] \in 1..n
    BY <1>6, <1>7
  <2>2. \A m \in 1..n : \E k \in 1..n : Sorted(v)[k] = v[m]
    BY <1>6, <1>7
  <2>3. DOMAIN Sorted(v) = 1..n
    BY <1>6
  <2>4. \A k \in DOMAIN Sorted(v) : Sorted(v)[k] \in {v[j] : j \in DOMAIN v}
    BY <1>1, <2>1, <2>3
  <2>5. \A k \in DOMAIN v : v[k] \in {Sorted(v)[j] : j \in DOMAIN Sorted(v)}
    BY <1>1, <2>2, <2>3
  <2> QED
    BY <2>4, <2>5
<1>10. ASSUME NEW k \in 1..n, NEW l \in 1..n, k < l
       PROVE  v[order[k]].on < v[order[l]].on
  <2>1. v[order[k]].on <= v[order[l]].on
    BY <1>5, <1>10
  <2>2. order[k] \in 1..n /\ order[l] \in 1..n /\ order[k] # order[l]
    BY <1>1, <1>7, <1>10
  <2>3. v[order[k]].on # v[order[l]].on
    BY <1>1, <2>2
  <2>4. v[order[k]].on \in Nat /\ v[order[l]].on \in Nat
    BY <1>2, <2>2
  <2> QED
    BY <2>1, <2>3, <2>4
<1> QED
  BY <1>6, <1>8, <1>9, <1>10

\* coordinator.py:298-327: whatever the mount list holds twice, without a size
\* or on no block device, the volumes are each point's first that qualifies,
\* in the order of the points, and each has a size to divide by.
THEOREM VolumesCorrect ==
  ASSUME NEW s, IsMountList(s)
  PROVE  Volumes(s) \in Seq(Volume) /\ IsVolumesOf(Volumes(s), s)
<1> DEFINE v == FoldLeft(AddVolume, <<>>, s)
           w == Sorted(v)
<1>1. Collected(v, s, Len(s)) /\ DOMAIN s = 1..Len(s) /\ Len(s) \in Nat
  BY LoopCollects DEF IsMountList
<1>2. Volumes(s) = w
  BY DEF Volumes
<1> HIDE DEF v
<1>3. /\ w \in Seq(Volume)
      /\ {w[k] : k \in DOMAIN w} = {v[k] : k \in DOMAIN v}
      /\ \A k, l \in DOMAIN w : k < l => w[k].on < w[l].on
  BY <1>1, SortedOrders DEF Collected
<1> HIDE DEF w
<1> DEFINE blocks == {i \in DOMAIN s : s[i].on # System /\ s[i].device /\ s[i].size > 0}
           first(i) == \A j \in blocks : s[j].on = s[i].on => i <= j
<1>4. \A i \in DOMAIN s : Qualifies(s[i]) <=> i \in blocks
  <2>1. \A i \in DOMAIN s : s[i].size \in Nat
    BY <1>1, MountsFit, MountAssumption
  <2> QED
    BY <2>1 DEF Qualifies
<1>5. ASSUME NEW i \in DOMAIN s PROVE IsFirst(s, i) <=> i \in blocks /\ first(i)
  <2>1. ASSUME IsFirst(s, i), NEW j \in blocks, s[j].on = s[i].on PROVE i <= j
    <3>1. j \in DOMAIN s /\ Qualifies(s[j])
      BY <1>4
    <3>2. j \notin 1..(i - 1)
      BY <2>1, <3>1 DEF IsFirst
    <3> QED
      BY <1>1, <3>1, <3>2
  <2>2. ASSUME i \in blocks, first(i), NEW j \in 1..(i - 1), Qualifies(s[j])
        PROVE  s[j].on # s[i].on
    <3>1. j \in DOMAIN s /\ ~ (i <= j)
      BY <1>1
    <3> QED
      BY <1>4, <2>2, <3>1
  <2> QED
    BY <1>4, <2>1, <2>2 DEF IsFirst
<1>6. {v[k] : k \in DOMAIN v} = {VolumeOf(s[i]) : i \in {j \in blocks : first(j)}}
  <2>1. \A i \in {j \in blocks : first(j)} : \E k \in DOMAIN v : v[k] = VolumeOf(s[i])
    BY <1>1, <1>5 DEF Collected
  <2>2. \A k \in DOMAIN v : \E i \in {j \in blocks : first(j)} : v[k] = VolumeOf(s[i])
    BY <1>1, <1>5 DEF Collected
  <2> HIDE DEF blocks, first
  <2> QED
    BY <2>1, <2>2
<1>7. IsVolumesOf(w, s)
  BY <1>3, <1>6 DEF IsVolumesOf
<1> QED
  BY <1>2, <1>3, <1>7

\* coordinator.py:291-297: the usage of the system disk is that of its first
\* mount that has a size, and there is none only where there is no such mount.
THEOREM UsageCorrect ==
  ASSUME NEW s, IsMountList(s)
  PROVE  DiskUsage(s) \in Usage \cup {NoUsage} /\ IsUsageOf(DiskUsage(s), s)
<1> DEFINE I == {i \in 1..Len(s) : IsSystemDisk(s[i])}
<1>1. DOMAIN s = 1..Len(s) /\ Len(s) \in Nat
  BY DEF IsMountList
<1>2. \A i \in DOMAIN s : /\ s[i].size \in 0..MaxSize
                          /\ s[i].available \in 0..MaxSize
                          /\ s[i].available <= s[i].size
  BY MountsFit
<1>3. CASE I = {}
  <2>1. SelectInSeq(s, IsSystemDisk) = 0
    BY <1>3 DEF SelectInSeq
  <2>2. DiskUsage(s) = NoUsage
    BY <2>1 DEF DiskUsage
  <2>3. \A i \in DOMAIN s : s[i].on = System => s[i].size = 0
    BY <1>1, <1>3 DEF IsSystemDisk
  <2> QED
    BY <2>2, <2>3 DEF IsUsageOf
<1>4. CASE I # {}
  <2> DEFINE i == Min(I)
  <2>1. I \in SUBSET Nat
    OBVIOUS
  <2>2. i \in I /\ \A j \in I : i <= j
    BY <1>4, <2>1, MinIsLeast
  <2>3. SelectInSeq(s, IsSystemDisk) = i
    BY <1>4 DEF SelectInSeq
  <2> HIDE DEF i
  <2>4. i \in DOMAIN s /\ i # 0 /\ s[i].on = System /\ s[i].size # 0
    BY <1>1, <2>2 DEF IsSystemDisk
  <2>5. DiskUsage(s) = UsageOf(s[i])
    BY <2>3, <2>4 DEF DiskUsage
  <2>6. UsageOf(s[i]) \in Usage
    <3>1. s[i].size \in 1..MaxSize /\ s[i].size - s[i].available \in 0..MaxSize
      BY <1>2, <2>4, MountAssumption
    <3> QED
      BY <3>1 DEF UsageOf, Usage
  <2>7. UsageOf(s[i]) # NoUsage
    BY DEF UsageOf, NoUsage
  <2>8. ASSUME NEW j \in 1..(i - 1), s[j].on = System PROVE s[j].size = 0
    <3>1. j \in DOMAIN s /\ ~ (i <= j)
      BY <1>1, <2>4
    <3> QED
      BY <1>1, <2>2, <2>8, <3>1 DEF IsSystemDisk
  <2>9. s[i].size > 0
    BY <1>2, <2>4, MountAssumption
  <2> QED
    BY <2>4, <2>5, <2>6, <2>7, <2>8, <2>9 DEF IsUsageOf
<1> QED
  BY <1>3, <1>4
=============================================================================
