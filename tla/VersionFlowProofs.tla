-------------------------- MODULE VersionFlowProofs --------------------------
(***************************************************************************)
(* Proofs about VersionFlow, for any branches, groups, projects and        *)
(* versions, and any number of runs and bumps.                             *)
(*                                                                         *)
(* Part 1 says what the operators compute: the order of versions, the      *)
(* bumps, and that the body of a PR is read back as it was meant.  Part 2  *)
(* is the invariant of the flow, part 3 the properties that follow.        *)
(***************************************************************************)
EXTENDS VersionFlow, WellFoundedInduction, FiniteSetTheorems, TLAPS

-----------------------------------------------------------------------------
(* Part 1: numbers                                                          *)

\* Every nonempty set of numbers has a least one.
LEMMA LeastOf ==
  ASSUME NEW S \in SUBSET Nat, S # {}
  PROVE  \E m \in S : \A k \in S : m <= k
<1> DEFINE R == {r \in Nat \X Nat : r[1] < r[2]}
<1>1. IsWellFoundedOn(R, Nat)
  BY NatLessThanWellFounded DEF OpToRel
<1>2. PICK x \in S : \A y \in S : ~(<<y, x>> \in R)
  <2> HIDE DEF R
  <2> QED
    BY <1>1, WFMin
<1>3. \A y \in S : ~(y < x)
  BY <1>2
<1> QED
  BY <1>3

\* Induction, for a set: the library's theorem takes a predicate, which no
\* prover here instantiates, so it is derived from the well-foundedness of <.
LEMMA Induction ==
  ASSUME NEW S, 0 \in S, \A n \in Nat : n \in S => n + 1 \in S
  PROVE  Nat \subseteq S
<1> DEFINE T == Nat \ S
<1> SUFFICES ASSUME T # {} PROVE FALSE
  OBVIOUS
<1>1. PICK m \in T : \A k \in T : m <= k
  <2>1. T \in SUBSET Nat
    OBVIOUS
  <2> HIDE DEF T
  <2> QED
    BY <2>1, LeastOf
<1>2. m - 1 \in S
  BY <1>1
<1> QED
  BY <1>1, <1>2

\* Max of a nonempty set of numbers up to n.
LEMMA MaxOf ==
  ASSUME NEW n \in Nat, NEW s \in SUBSET (1..n), s # {}
  PROVE  Max(s) \in s /\ \A k \in s : k <= Max(s)
<1> DEFINE T == {n - k : k \in s}
<1>1. PICK m \in T : \A k \in T : m <= k
  <2>0. \A k \in s : k \in Int /\ n - k \in Nat
    OBVIOUS
  <2>1. T \in SUBSET Nat /\ T # {}
    BY <2>0
  <2> HIDE DEF T
  <2> QED
    BY <2>1, LeastOf
<1>2. PICK x \in s : m = n - x
  OBVIOUS
<1>3. \A k \in s : x >= k
  BY <1>1, <1>2
<1>4. \E y \in s : \A k \in s : y >= k
  BY <1>3
<1> QED
  BY <1>4 DEF Max

\* Min of a nonempty set of numbers.
LEMMA MinOf ==
  ASSUME NEW s \in SUBSET Nat, s # {}
  PROVE  Min(s) \in s /\ \A k \in s : Min(s) <= k
BY LeastOf DEF Min

-----------------------------------------------------------------------------
(* Part 1: what FlattenSeq and FoldLeft compute                             *)

\* The recursive function behind FlattenSeq exists.
LEMMA FlattenDefined ==
  ASSUME NEW ss, Len(ss) \in Nat
  PROVE  \E G : G = [i \in 1..Len(ss) |-> IF i = 1 THEN ss[i] ELSE G[i-1] \o ss[i]]
<1> DEFINE Fits(G, n) == G = [i \in 1..n |-> IF i = 1 THEN ss[i] ELSE G[i-1] \o ss[i]]
           S == {n \in Nat : \E G : Fits(G, n)}
<1>1. 0 \in S
  <2>1. Fits([i \in 1..0 |-> 0], 0)
    OBVIOUS
  <2> QED
    BY <2>1
<1>2. ASSUME NEW n \in Nat, n \in S PROVE n + 1 \in S
  <2>1. PICK G : Fits(G, n)
    BY <1>2
  <2> DEFINE H == [i \in 1..(n+1) |->
                     IF i = n + 1 THEN (IF i = 1 THEN ss[i] ELSE G[i-1] \o ss[i]) ELSE G[i]]
  <2>2. ASSUME NEW i \in 1..(n+1)
        PROVE  H[i] = IF i = 1 THEN ss[i] ELSE H[i-1] \o ss[i]
    <3>1. CASE i = n + 1
      BY <3>1
    <3>2. CASE i # n + 1
      <4>1. i \in 1..n /\ H[i] = G[i] /\ (i # 1 => i - 1 \in 1..n /\ H[i-1] = G[i-1])
        BY <3>2
      <4>2. G[i] = IF i = 1 THEN ss[i] ELSE G[i-1] \o ss[i]
        BY <2>1, <4>1
      <4> QED
        BY <4>1, <4>2
    <3> QED
      BY <3>1, <3>2
  <2>3. Fits(H, n + 1)
    BY <2>2
  <2>4. \E g : Fits(g, n + 1)
    <3> HIDE DEF H, Fits
    <3> QED
      BY <2>3
  <2>5. n + 1 \in Nat
    OBVIOUS
  <2> HIDE DEF Fits
  <2> QED
    BY <2>4, <2>5
<1>3. Nat \subseteq S
  <2> HIDE DEF S
  <2> QED
    BY <1>1, <1>2, Induction
<1> QED
  BY <1>3

\* A flattened sequence is built up one member at a time.
LEMMA Flattened ==
  ASSUME NEW X, NEW ss \in Seq(Seq(X))
  PROVE  \E F \in [0..Len(ss) -> Seq(X)] :
           /\ F[0] = <<>>
           /\ \A k \in 1..Len(ss) : F[k] = F[k-1] \o ss[k]
           /\ F[Len(ss)] = FlattenSeq(ss)
<1> DEFINE Step(G) == [i \in 1..Len(ss) |-> IF i = 1 THEN ss[i] ELSE G[i-1] \o ss[i]]
           G == CHOOSE g : g = Step(g)
           F == [k \in 0..Len(ss) |-> IF k = 0 THEN <<>> ELSE G[k]]
<1>0. Len(ss) \in Nat /\ \A i \in 1..Len(ss) : ss[i] \in Seq(X)
  OBVIOUS
<1>1. G = Step(G)
  BY <1>0, FlattenDefined
<1> HIDE DEF G
<1>2. \A i \in 1..Len(ss) : G[i] = IF i = 1 THEN ss[i] ELSE G[i-1] \o ss[i]
  BY <1>1
<1> DEFINE S == {n \in Nat : n \in 1..Len(ss) => G[n] \in Seq(X)}
<1>3. \A i \in 1..Len(ss) : G[i] \in Seq(X)
  <2>1. 0 \in S
    OBVIOUS
  <2>2. ASSUME NEW n \in Nat, n \in S PROVE n + 1 \in S
    <3> SUFFICES ASSUME n + 1 \in 1..Len(ss) PROVE G[n+1] \in Seq(X)
      OBVIOUS
    <3>1. CASE n # 0
      <4>1. G[n] \in Seq(X) /\ ss[n+1] \in Seq(X)
        BY <3>1, <2>2, <1>0
      <4>2. n + 1 # 1 /\ (n + 1) - 1 = n
        BY <3>1
      <4>3. G[n+1] = G[n] \o ss[n+1]
        BY <4>2, <1>2
      <4>4. G[n] \o ss[n+1] \in Seq(X)
        BY <4>1
      <4> QED
        BY <4>3, <4>4
    <3>2. CASE n = 0
      BY <3>2, <1>2, <1>0
    <3> QED
      BY <3>1, <3>2
  <2>3. Nat \subseteq S
    <3> HIDE DEF S
    <3> QED
      BY <2>1, <2>2, Induction
  <2> QED
    BY <2>3, <1>0
<1>4. F \in [0..Len(ss) -> Seq(X)] /\ F[0] = <<>>
  BY <1>3, <1>0
<1>5. ASSUME NEW k \in 1..Len(ss) PROVE F[k] = F[k-1] \o ss[k]
  <2>1. CASE k = 1
    BY <2>1, <1>0, <1>2
  <2>2. CASE k # 1
    <3>1. k - 1 \in 1..Len(ss) /\ k - 1 # 0 /\ k # 0
      BY <2>2, <1>0
    <3>2. F[k] = G[k] /\ F[k-1] = G[k-1]
      BY <3>1, <1>0
    <3> QED
      BY <2>2, <3>2, <1>2
  <2> QED
    BY <2>1, <2>2
<1>6. F[Len(ss)] = FlattenSeq(ss)
  <2>1. CASE Len(ss) = 0
    BY <2>1 DEF FlattenSeq
  <2>2. CASE Len(ss) # 0
    <3>1. FlattenSeq(ss) = G[Len(ss)]
      BY <2>2 DEF FlattenSeq, G
    <3> QED
      BY <2>2, <3>1, <1>0
  <2> QED
    BY <2>1, <2>2
<1> QED
  BY <1>4, <1>5, <1>6

\* The recursive function behind FoldLeft exists, for the reader of a body.
LEMMA FoldDefined ==
  ASSUME NEW body, NEW len \in Nat
  PROVE  \E G : G = [s \in SUBSET (1..len) |->
                       IF s = {} THEN Start ELSE Read(G[s \ {Max(s)}], body[Max(s)])]
<1> DEFINE Fits(G, n) == G = [s \in SUBSET (1..n) |->
                       IF s = {} THEN Start ELSE Read(G[s \ {Max(s)}], body[Max(s)])]
           S == {n \in Nat : \E G : Fits(G, n)}
<1>1. 0 \in S
  <2>0. SUBSET (1..0) = {{}}
    OBVIOUS
  <2>1. Fits([s \in {{}} |-> Start], 0)
    BY <2>0
  <2> QED
    BY <2>1
<1>2. ASSUME NEW n \in Nat, n \in S PROVE n + 1 \in S
  <2>1. PICK G : Fits(G, n)
    BY <1>2
  <2> DEFINE H == [s \in SUBSET (1..(n+1)) |->
                     IF n + 1 \in s THEN Read(G[s \ {n+1}], body[n+1]) ELSE G[s]]
  <2>2. ASSUME NEW s \in SUBSET (1..(n+1))
        PROVE  H[s] = IF s = {} THEN Start ELSE Read(H[s \ {Max(s)}], body[Max(s)])
    <3>1. CASE n + 1 \in s
      <4>0. Max(s) \in s /\ \A k \in s : k <= Max(s)
        BY <3>1, MaxOf, n + 1 \in Nat
      <4>1. Max(s) = n + 1
        <5>1. Max(s) \in 1..(n+1) /\ n + 1 <= Max(s)
          BY <3>1, <4>0
        <5> QED
          BY <5>1
      <4>2. s \ {n+1} \in SUBSET (1..(n+1)) /\ H[s \ {n+1}] = G[s \ {n+1}]
        OBVIOUS
      <4> QED
        BY <3>1, <4>1, <4>2
    <3>2. CASE n + 1 \notin s
      <4>1. s \in SUBSET (1..n) /\ H[s] = G[s]
        BY <3>2
      <4>2. G[s] = IF s = {} THEN Start ELSE Read(G[s \ {Max(s)}], body[Max(s)])
        BY <2>1, <4>1
      <4>3. s \ {Max(s)} \in SUBSET (1..(n+1)) /\ n + 1 \notin s \ {Max(s)}
        BY <3>2
      <4>4. H[s \ {Max(s)}] = G[s \ {Max(s)}]
        BY <4>3
      <4> QED
        BY <4>1, <4>2, <4>4
    <3> QED
      BY <3>1, <3>2
  <2>3. Fits(H, n + 1)
    <3> HIDE DEF H
    <3>1. H = [s \in SUBSET (1..(n+1)) |-> H[s]]
      BY DEF H
    <3> QED
      BY <2>2, <3>1
  <2>4. \E g : Fits(g, n + 1)
    <3> HIDE DEF H, Fits
    <3> QED
      BY <2>3
  <2>5. n + 1 \in Nat
    OBVIOUS
  <2> HIDE DEF Fits
  <2> QED
    BY <2>4, <2>5
<1>3. Nat \subseteq S
  <2> HIDE DEF S
  <2> QED
    BY <1>1, <1>2, Induction
<1> QED
  BY <1>3

\* The reader goes through the lines one by one.
LEMMA Folded ==
  ASSUME NEW X, NEW body \in Seq(X), NEW R, R[0] = Start,
         \A i \in 1..Len(body) : R[i] = Read(R[i-1], body[i])
  PROVE  FoldLeft(Read, Start, body) = R[Len(body)]
<1> DEFINE Step(G) == [s \in SUBSET (1..Len(body)) |->
                        IF s = {} THEN Start ELSE Read(G[s \ {Max(s)}], body[Max(s)])]
           G == CHOOSE g : g = Step(g)
<1>0. Len(body) \in Nat /\ DOMAIN body = 1..Len(body)
  OBVIOUS
<1>1. G = Step(G)
  BY <1>0, FoldDefined
<1>2. FoldLeft(Read, Start, body) = G[1..Len(body)]
  BY <1>0 DEF FoldLeft, MapThenFoldSet
<1> HIDE DEF G
<1>3. \A s \in SUBSET (1..Len(body)) :
        G[s] = IF s = {} THEN Start ELSE Read(G[s \ {Max(s)}], body[Max(s)])
  BY <1>1
<1> DEFINE S == {n \in Nat : n \in 0..Len(body) => G[1..n] = R[n]}
<1>4. 0 \in S
  <2>1. 1..0 = {} /\ 1..0 \in SUBSET (1..Len(body))
    OBVIOUS
  <2> QED
    BY <2>1, <1>3
<1>5. ASSUME NEW n \in Nat, n \in S PROVE n + 1 \in S
  <2> SUFFICES ASSUME n + 1 \in 0..Len(body) PROVE G[1..(n+1)] = R[n+1]
    OBVIOUS
  <2>1. 1..(n+1) \in SUBSET (1..Len(body)) /\ 1..(n+1) # {} /\ n + 1 \in 1..(n+1)
    OBVIOUS
  <2>2. Max(1..(n+1)) = n + 1
    <3> DEFINE T == 1..(n+1)
    <3>0. n + 1 \in T /\ n + 1 \in Nat
      OBVIOUS
    <3>1. T \in SUBSET (1..(n+1)) /\ T # {}
      BY <3>0
    <3>2. Max(T) \in T /\ \A k \in T : k <= Max(T)
      <4> HIDE DEF T
      <4> QED
        BY <3>0, <3>1, MaxOf
    <3>3. Max(T) \in 1..(n+1) /\ n + 1 <= Max(T)
      BY <3>0, <3>2
    <3> QED
      BY <3>3
  <2>3. (1..(n+1)) \ {n+1} = 1..n
    OBVIOUS
  <2>4. G[1..n] = R[n] /\ R[n+1] = Read(R[n], body[n+1])
    BY <1>5, <1>0
  <2>5. G[1..(n+1)] = Read(G[(1..(n+1)) \ {n+1}], body[n+1])
    BY <2>1, <2>2, <1>3
  <2> QED
    BY <2>3, <2>4, <2>5
<1>6. Nat \subseteq S
  <2> HIDE DEF S
  <2> QED
    BY <1>4, <1>5, Induction
<1> QED
  BY <1>0, <1>2, <1>6

-----------------------------------------------------------------------------
(* Part 1: the order of versions                                            *)

\* One identifier sorts before another.
IdentBefore(i, j) == i[1] < j[1] \/ (i[1] = j[1] /\ i[2] < j[2])

\* semver's order of identifiers is a strict total order.
LEMMA IdentOrder ==
  /\ \A i \in Ident : ~IdentBefore(i, i)
  /\ \A i, j, k \in Ident : IdentBefore(i, j) /\ IdentBefore(j, k) => IdentBefore(i, k)
  /\ \A i, j \in Ident : i = j \/ IdentBefore(i, j) \/ IdentBefore(j, i)
BY DEF Ident, IdentBefore

\* Before, position by position.
LEMMA BeforeMeans ==
  ASSUME NEW s \in Seq(Ident), NEW t \in Seq(Ident)
  PROVE  Before(s, t) <=>
           \/ \E i \in 1..Len(s) : /\ i <= Len(t)
                                   /\ \A j \in 1..(i-1) : s[j] = t[j]
                                   /\ IdentBefore(s[i], t[i])
           \/ Len(s) < Len(t) /\ \A j \in 1..Len(s) : s[j] = t[j]
<1>1. /\ DOMAIN s = 1..Len(s) /\ DOMAIN t = 1..Len(t) /\ Len(s) \in Nat /\ Len(t) \in Nat
      /\ \A i : i \in DOMAIN s \cap DOMAIN t <=> i \in 1..Len(s) /\ i <= Len(t)
  OBVIOUS
<1> QED
  BY <1>1 DEF Before, IdentBefore

\* No sequence of identifiers sorts before itself.
LEMMA BeforeIrreflexive == ASSUME NEW s \in Seq(Ident) PROVE ~Before(s, s)
<1>1. \A i \in 1..Len(s) : ~IdentBefore(s[i], s[i])
  BY IdentOrder
<1>2. Len(s) \in Nat
  OBVIOUS
<1> QED
  BY <1>1, <1>2, BeforeMeans

\* Where two sequences first differ decides, however the third compares.
LEMMA BeforeTransitive ==
  ASSUME NEW s \in Seq(Ident), NEW t \in Seq(Ident), NEW u \in Seq(Ident),
         Before(s, t), Before(t, u)
  PROVE  Before(s, u)
<1> DEFINE First(a, b, i) == /\ i \in 1..Len(a) /\ i <= Len(b)
                             /\ \A j \in 1..(i-1) : a[j] = b[j]
                             /\ IdentBefore(a[i], b[i])
           Part(a, b) == Len(a) < Len(b) /\ \A j \in 1..Len(a) : a[j] = b[j]
<1>0. /\ Len(s) \in Nat /\ Len(t) \in Nat /\ Len(u) \in Nat
      /\ \A i \in 1..Len(s) : s[i] \in Ident
      /\ \A i \in 1..Len(t) : t[i] \in Ident
      /\ \A i \in 1..Len(u) : u[i] \in Ident
  OBVIOUS
<1>1. (\E i : First(s, t, i)) \/ Part(s, t)
  BY BeforeMeans
<1>2. (\E i : First(t, u, i)) \/ Part(t, u)
  BY BeforeMeans
<1>3. ASSUME (\E i : First(s, u, i)) \/ Part(s, u) PROVE Before(s, u)
  BY <1>3, BeforeMeans
<1>4. CASE \E i : First(s, t, i)
  <2>1. PICK i : First(s, t, i)
    BY <1>4
  <2>2. CASE Part(t, u)
    <3>1. First(s, u, i)
      BY <2>1, <2>2, <1>0
    <3> QED
      BY <3>1, <1>3
  <2>3. CASE \E k : First(t, u, k)
    <3>1. PICK k : First(t, u, k)
      BY <2>3
    <3>2. CASE i < k
      <4>1. First(s, u, i)
        BY <2>1, <3>1, <3>2, <1>0
      <4> QED
        BY <4>1, <1>3
    <3>3. CASE k < i
      <4>1. First(s, u, k)
        BY <2>1, <3>1, <3>3, <1>0
      <4> QED
        BY <4>1, <1>3
    <3>4. CASE i = k
      <4>1. s[i] \in Ident /\ t[i] \in Ident /\ u[i] \in Ident
        BY <2>1, <3>1, <3>4, <1>0
      <4>2. IdentBefore(s[i], u[i])
        BY <2>1, <3>1, <3>4, <4>1, IdentOrder
      <4>3. First(s, u, i)
        BY <2>1, <3>1, <3>4, <4>2, <1>0
      <4> QED
        BY <4>3, <1>3
    <3> QED
      BY <2>1, <3>1, <3>2, <3>3, <3>4, <1>0
  <2> QED
    BY <1>2, <2>2, <2>3
<1>5. CASE Part(s, t)
  <2>1. CASE Part(t, u)
    <3>1. Part(s, u)
      BY <1>5, <2>1, <1>0
    <3> QED
      BY <3>1, <1>3
  <2>2. CASE \E k : First(t, u, k)
    <3>1. PICK k : First(t, u, k)
      BY <2>2
    <3>2. CASE k <= Len(s)
      <4>1. First(s, u, k)
        BY <1>5, <3>1, <3>2, <1>0
      <4> QED
        BY <4>1, <1>3
    <3>3. CASE k > Len(s)
      <4>1. Part(s, u)
        BY <1>5, <3>1, <3>3, <1>0
      <4> QED
        BY <4>1, <1>3
    <3> QED
      BY <3>1, <3>2, <3>3, <1>0
  <2> QED
    BY <1>2, <2>1, <2>2
<1> QED
  BY <1>1, <1>4, <1>5

\* Of two different sequences one sorts before the other.
LEMMA BeforeTotal ==
  ASSUME NEW s \in Seq(Ident), NEW t \in Seq(Ident)
  PROVE  s = t \/ Before(s, t) \/ Before(t, s)
<1> DEFINE D == {i \in 1..Len(s) : i <= Len(t) /\ s[i] # t[i]}
<1>0. /\ Len(s) \in Nat /\ Len(t) \in Nat
      /\ \A i \in 1..Len(s) : s[i] \in Ident
      /\ \A i \in 1..Len(t) : t[i] \in Ident
  OBVIOUS
<1>1. CASE D = {}
  <2>1. \A j \in 1..Len(s) : j <= Len(t) => s[j] = t[j]
    BY <1>1
  <2>2. CASE Len(s) < Len(t)
    BY <2>1, <2>2, <1>0, BeforeMeans
  <2>3. CASE Len(t) < Len(s)
    <3>1. \A j \in 1..Len(t) : t[j] = s[j]
      BY <2>1, <2>3, <1>0
    <3> QED
      BY <3>1, <2>3, <1>0, BeforeMeans
  <2>4. CASE Len(s) = Len(t)
    BY <2>1, <2>4, <1>0
  <2> QED
    BY <2>2, <2>3, <2>4, <1>0
<1>2. CASE D # {}
  <2>0. D \in SUBSET Nat
    BY <1>0
  <2>1. PICK i \in D : \A k \in D : i <= k
    <3> HIDE DEF D
    <3> QED
      BY <1>2, <2>0, LeastOf
  <2>2. \A j \in 1..(i-1) : s[j] = t[j]
    <3> TAKE j \in 1..(i-1)
    <3>1. j \in 1..Len(s) /\ j <= Len(t) /\ ~(i <= j)
      BY <1>0, <2>1
    <3> QED
      BY <2>1, <3>1
  <2>3. /\ i \in 1..Len(s) /\ i \in 1..Len(t) /\ i <= Len(s) /\ i <= Len(t)
        /\ s[i] \in Ident /\ t[i] \in Ident /\ s[i] # t[i]
    BY <1>0, <2>1
  <2>4. IdentBefore(s[i], t[i]) \/ IdentBefore(t[i], s[i])
    BY <2>3, IdentOrder
  <2>5. \A j \in 1..(i-1) : t[j] = s[j]
    BY <2>2
  <2> QED
    BY <2>2, <2>3, <2>4, <2>5, BeforeMeans
<1> QED
  BY <1>1, <1>2

\* The order of major, minor and patch is a strict total order.
LEMMA BaseOrder ==
  /\ \A b \in Triple : ~BaseBefore(b, b)
  /\ \A b, c, d \in Triple : BaseBefore(b, c) /\ BaseBefore(c, d) => BaseBefore(b, d)
  /\ \A b, c \in Triple : b = c \/ BaseBefore(b, c) \/ BaseBefore(c, b)
<1>1. \A b, c \in Triple :
        BaseBefore(b, c) <=> \/ b[1] < c[1]
                             \/ b[1] = c[1] /\ b[2] < c[2]
                             \/ b[1] = c[1] /\ b[2] = c[2] /\ b[3] < c[3]
  <2> TAKE b, c \in Triple
  <2>1. 1..3 = {1, 2, 3} /\ 1..(1-1) = {} /\ 1..(2-1) = {1} /\ 1..(3-1) = {1, 2}
    OBVIOUS
  <2> QED
    BY <2>1 DEF BaseBefore
<1>2. \A b \in Triple : b[1] \in Nat /\ b[2] \in Nat /\ b[3] \in Nat /\ b = <<b[1], b[2], b[3]>>
  BY DEF Triple
<1> QED
  BY <1>1, <1>2

\* The order of versions is strict and total.
THEOREM LessOrder ==
  /\ \A v \in Version : ~Less(v, v)
  /\ \A v, w, x \in Version : Less(v, w) /\ Less(w, x) => Less(v, x)
  /\ \A v, w \in Version : v = w \/ Less(v, w) \/ Less(w, v)
<1>0. \A v \in Version : v.base \in Triple /\ v.pre \in Seq(Ident)
  BY DEF Version
<1>1. \A v \in Version : ~Less(v, v)
  BY <1>0, BaseOrder, BeforeIrreflexive DEF Less
<1>2. ASSUME NEW v \in Version, NEW w \in Version, NEW x \in Version, Less(v, w), Less(w, x)
      PROVE  Less(v, x)
  <2>1. v.base \in Triple /\ w.base \in Triple /\ x.base \in Triple
        /\ v.pre \in Seq(Ident) /\ w.pre \in Seq(Ident) /\ x.pre \in Seq(Ident)
    BY <1>0
  <2>2. Before(v.pre, w.pre) /\ Before(w.pre, x.pre) => Before(v.pre, x.pre)
    BY <2>1, BeforeTransitive
  <2>3. BaseBefore(v.base, w.base) /\ BaseBefore(w.base, x.base) => BaseBefore(v.base, x.base)
    BY <2>1, BaseOrder
  <2> QED
    BY <1>2, <2>2, <2>3 DEF Less
<1>3. ASSUME NEW v \in Version, NEW w \in Version, v # w PROVE Less(v, w) \/ Less(w, v)
  <2>1. v.base \in Triple /\ w.base \in Triple /\ v.pre \in Seq(Ident) /\ w.pre \in Seq(Ident)
    BY <1>0
  <2>2. v.base # w.base \/ v.pre # w.pre
    BY <1>3 DEF Version
  <2>3. v.base = w.base \/ BaseBefore(v.base, w.base) \/ BaseBefore(w.base, v.base)
    BY <2>1, BaseOrder
  <2>4. v.pre = w.pre \/ Before(v.pre, w.pre) \/ Before(w.pre, v.pre)
    BY <2>1, BeforeTotal
  <2> QED
    BY <2>2, <2>3, <2>4 DEF Less, IsPre
<1> QED
  BY <1>1, <1>2, <1>3

\* A finite set of versions has a highest, and only one.
LEMMA HighestExists ==
  ASSUME NEW S \in SUBSET Version, IsFiniteSet(S), S # {}
  PROVE  \E v \in S : \A w \in S : w = v \/ Less(w, v)
<1> DEFINE Has(T) == \E v \in T : \A w \in T : w = v \/ Less(w, v)
           N == {n \in Nat : \A T \in SUBSET Version :
                   IsFiniteSet(T) /\ Cardinality(T) = n /\ T # {} => Has(T)}
<1>1. 0 \in N
  BY FS_EmptySet
<1>2. ASSUME NEW n \in Nat, n \in N PROVE n + 1 \in N
  <2> SUFFICES ASSUME NEW T \in SUBSET Version, IsFiniteSet(T), Cardinality(T) = n + 1, T # {}
               PROVE  Has(T)
    OBVIOUS
  <2>1. PICK x : x \in T
    OBVIOUS
  <2>2. IsFiniteSet(T \ {x}) /\ Cardinality(T \ {x}) = n
    <3>1. IsFiniteSet(T \ {x}) /\ Cardinality(T \ {x}) = Cardinality(T) - 1
      BY <2>1, FS_RemoveElement
    <3>2. Cardinality(T) - 1 = n
      OBVIOUS
    <3> QED
      BY <3>1, <3>2
  <2>3. CASE T \ {x} = {}
    BY <2>1, <2>3
  <2>4. CASE T \ {x} # {}
    <3>1. Has(T \ {x})
      BY <1>2, <2>2, <2>4
    <3>2. PICK v \in T \ {x} : \A w \in T \ {x} : w = v \/ Less(w, v)
      BY <3>1
    <3>3. v \in Version /\ x \in Version /\ v # x
      BY <3>2, <2>1
    <3>4. CASE Less(x, v)
      BY <3>2, <3>4
    <3>5. CASE Less(v, x)
      <4>1. \A w \in T : w = x \/ Less(w, x)
        BY <3>2, <3>3, <3>5, LessOrder
      <4> QED
        BY <4>1, <2>1
    <3> QED
      BY <3>3, <3>4, <3>5, LessOrder
  <2> QED
    BY <2>3, <2>4
<1>3. Nat \subseteq N
  <2> HIDE DEF N
  <2> QED
    BY <1>1, <1>2, Induction
<1> QED
  BY <1>3, FS_CardinalityType

\* rsort(S)[0] is there and is the highest: Highest is defined by a choice, and
\* this is what the choice is worth.
THEOREM HighestIs ==
  ASSUME NEW S \in SUBSET Version, IsFiniteSet(S), S # {}
  PROVE  /\ Highest(S) \in S
         /\ \A w \in S : w = Highest(S) \/ Less(w, Highest(S))
BY HighestExists DEF Highest

\* Nothing else is the highest.
LEMMA HighestUnique ==
  ASSUME NEW S \in SUBSET Version, IsFiniteSet(S), NEW v \in S,
         \A w \in S : w = v \/ Less(w, v)
  PROVE  Highest(S) = v
<1>1. Highest(S) \in S /\ \A w \in S : w = Highest(S) \/ Less(w, Highest(S))
  BY HighestIs
<1>2. Highest(S) \in Version /\ v \in Version
  BY <1>1
<1>3. ~(Less(Highest(S), v) /\ Less(v, Highest(S)))
  BY <1>2, LessOrder
<1> QED
  BY <1>1, <1>3

-----------------------------------------------------------------------------
(* Part 1: bumps                                                            *)

\* A pre-release without the word that create-release-pr adds.
NoBuild(pre) == \A i \in 1..Len(pre) : pre[i] # Word("build")

\* Where the words stand in ASCII order.
LEMMA WordIs ==
  /\ Word("alpha") = <<1, 1>>
  /\ Word("beta") = <<1, 2>>
  /\ Word("build") = <<1, 3>>
  /\ Word("rc") = <<1, 6>>
<1>1. DOMAIN Words = 1..8
  BY DEF Words
<1>2. \A k \in 1..8 : /\ Words[k] = "alpha" <=> k = 1
                      /\ Words[k] = "beta" <=> k = 2
                      /\ Words[k] = "build" <=> k = 3
                      /\ Words[k] = "rc" <=> k = 6
  BY DEF Words
<1>3. (CHOOSE k \in DOMAIN Words : Words[k] = "alpha") = 1
  BY <1>1, <1>2
<1>4. (CHOOSE k \in DOMAIN Words : Words[k] = "beta") = 2
  BY <1>1, <1>2
<1>5. (CHOOSE k \in DOMAIN Words : Words[k] = "build") = 3
  BY <1>1, <1>2
<1>6. (CHOOSE k \in DOMAIN Words : Words[k] = "rc") = 6
  BY <1>1, <1>2
<1> QED
  BY <1>3, <1>4, <1>5, <1>6 DEF Word

\* The channels; the word that marks a taken version is none of them.
LEMMA ChannelIdsAre ==
  /\ ChannelIds = {<<1, 1>>, <<1, 2>>, <<1, 6>>}
  /\ ChannelIds \subseteq Ident
  /\ Word("build") \notin ChannelIds
  /\ Word("build") \in Ident
<1>1. DOMAIN Channels = 1..3 /\ Channels[1] = "alpha" /\ Channels[2] = "beta" /\ Channels[3] = "rc"
  BY DEF Channels
<1>2. ChannelIds = {Word("alpha"), Word("beta"), Word("rc")}
  BY <1>1 DEF ChannelIds
<1> QED
  BY <1>2, WordIs DEF Ident

\* The first channel of a pre-release is where ChannelAt says.
LEMMA ChannelFound ==
  ASSUME NEW pre \in Seq(Ident), ChannelAt(pre) # 0
  PROVE  ChannelAt(pre) \in 1..Len(pre) /\ pre[ChannelAt(pre)] \in ChannelIds
<1> DEFINE at == {i \in DOMAIN pre : pre[i] \in ChannelIds}
<1>1. DOMAIN pre = 1..Len(pre) /\ Len(pre) \in Nat
  OBVIOUS
<1>2. at # {} /\ ChannelAt(pre) = Min(at)
  BY DEF ChannelAt
<1>3. at \in SUBSET Nat
  BY <1>1
<1>4. Min(at) \in at
  <2> HIDE DEF at
  <2> QED
    BY <1>2, <1>3, MinOf
<1> QED
  BY <1>1, <1>2, <1>4

\* next: the last number goes up, or a number follows.
LEMMA AdvanceGoesUp ==
  ASSUME NEW pre \in Seq(Ident)
  PROVE  /\ Advance(pre) \in Seq(Ident)
         /\ Before(pre, Advance(pre))
         /\ NoBuild(pre) => NoBuild(Advance(pre))
<1> DEFINE at == {i \in DOMAIN pre : IsNum(pre[i])}
           m == Max(at)
<1>0. DOMAIN pre = 1..Len(pre) /\ Len(pre) \in Nat /\ \A i \in 1..Len(pre) : pre[i] \in Ident
  OBVIOUS
<1>b. Word("build") = <<1, 3>>
  BY WordIs
<1>1. CASE at = {}
  <2>1. Advance(pre) = Append(pre, Num(1)) /\ Num(1) \in Ident
    BY <1>1 DEF Advance, Num, Ident
  <2>2. /\ Append(pre, Num(1)) \in Seq(Ident) /\ Len(Append(pre, Num(1))) = Len(pre) + 1
        /\ \A i \in 1..Len(pre) : Append(pre, Num(1))[i] = pre[i]
        /\ Append(pre, Num(1))[Len(pre) + 1] = Num(1)
    BY <2>1
  <2>3. Before(pre, Append(pre, Num(1)))
    <3> DEFINE a == Append(pre, Num(1))
    <3>1. a \in Seq(Ident) /\ Len(pre) < Len(a) /\ \A i \in 1..Len(pre) : pre[i] = a[i]
      BY <2>2, <1>0
    <3> HIDE DEF a
    <3>2. Before(pre, a)
      BY <3>1, BeforeMeans
    <3> QED
      BY <3>2 DEF a
  <2>4. NoBuild(pre) => NoBuild(Append(pre, Num(1)))
    BY <2>2, <1>0, <1>b DEF NoBuild, Num
  <2> QED
    BY <2>1, <2>2, <2>3, <2>4
<1>2. CASE at # {}
  <2>1. m \in at
    <3>1. at \in SUBSET (1..Len(pre)) /\ Len(pre) \in Nat
      BY <1>0
    <3> HIDE DEF at
    <3> QED
      BY <1>2, <3>1, MaxOf
  <2> DEFINE n == Num(pre[m][2] + 1)
             a == [pre EXCEPT ![m] = n]
  <2>2. Advance(pre) = a
    BY <1>2 DEF Advance
  <2>3. m \in 1..Len(pre) /\ pre[m] \in Ident /\ pre[m][1] = 0
    BY <2>1, <1>0 DEF IsNum
  <2>4. n \in Ident /\ IdentBefore(pre[m], n) /\ n # Word("build")
    BY <2>3, <1>b DEF Ident, IdentBefore, Num
  <2> HIDE DEF m, n
  <2>5. a \in Seq(Ident) /\ Len(a) = Len(pre) /\ a[m] = n
        /\ \A i \in 1..Len(pre) : i # m => a[i] = pre[i]
    BY <2>3, <2>4
  <2> HIDE DEF a
  <2>6. Before(pre, a)
    <3>1. m <= Len(a) /\ \A j \in 1..(m-1) : pre[j] = a[j]
      BY <2>3, <2>5
    <3> QED
      BY <3>1, <2>3, <2>4, <2>5, BeforeMeans
  <2>7. NoBuild(pre) => NoBuild(a)
    BY <2>4, <2>5 DEF NoBuild
  <2> QED
    BY <2>2, <2>5, <2>6, <2>7
<1> QED
  BY <1>1, <1>2

\* A later channel goes up, whatever follows it.
LEMMA ChannelGoesUp ==
  ASSUME NEW pre \in Seq(Ident), NEW c \in ChannelIds, ChannelAt(pre) # 0,
         c[2] > pre[ChannelAt(pre)][2]
  PROVE  /\ ChangeChannel(pre, c) \in Seq(Ident)
         /\ Before(pre, ChangeChannel(pre, c))
         /\ NoBuild(pre) => NoBuild(ChangeChannel(pre, c))
<1> DEFINE k == ChannelAt(pre)
           head == SubSeq(pre, 1, k - 1)
           new == Append(Append(head, c), Num(0))
<1>1. k \in 1..Len(pre) /\ pre[k] \in ChannelIds /\ Len(pre) \in Nat
      /\ \A i \in 1..Len(pre) : pre[i] \in Ident
  BY ChannelFound
<1>2. IdentBefore(pre[k], c) /\ c \in Ident /\ c # Word("build")
  <2>1. c[1] = 1 /\ c[2] \in Nat /\ pre[k][1] = 1 /\ pre[k][2] \in Nat
    BY <1>1, ChannelIdsAre
  <2>2. c \in Ident /\ c # Word("build")
    BY ChannelIdsAre
  <2> QED
    BY <2>1, <2>2 DEF IdentBefore
<1>3. Num(0) \in Ident /\ Num(0) # Word("build")
  BY WordIs DEF Num, Ident
<1>4. ChangeChannel(pre, c) = new
  BY DEF ChangeChannel
<1> HIDE DEF k
<1>5. head \in Seq(Ident) /\ Len(head) = k - 1 /\ \A i \in 1..(k-1) : head[i] = pre[i]
  BY <1>1
<1> HIDE DEF head
<1>6. /\ new \in Seq(Ident) /\ Len(new) = k + 1 /\ new[k] = c /\ new[k+1] = Num(0)
      /\ \A i \in 1..(k-1) : new[i] = pre[i]
  BY <1>1, <1>2, <1>3, <1>5
<1> HIDE DEF new
<1>7. Before(pre, new)
  BY <1>1, <1>2, <1>6, BeforeMeans
<1>8. NoBuild(pre) => NoBuild(new)
  <2> SUFFICES ASSUME NoBuild(pre), NEW i \in 1..(k+1) PROVE new[i] # Word("build")
    BY <1>6 DEF NoBuild
  <2>1. CASE i \in 1..(k-1)
    BY <2>1, <1>1, <1>6 DEF NoBuild
  <2>2. CASE i \in {k, k+1}
    BY <2>2, <1>2, <1>3, <1>6
  <2> QED
    BY <2>1, <2>2, <1>1
<1> QED
  BY <1>4, <1>6, <1>7, <1>8

\* Every bump on offer goes up, and to a version nobody has released.
THEOREM OfferedGoesUp ==
  ASSUME NEW v \in Version, NEW released, NEW o \in Offered(v, released)
  PROVE  /\ o \in Version /\ Less(v, o) /\ o \notin released
         /\ NoBuild(v.pre) => NoBuild(o.pre)
<1>0. v.base \in Triple /\ v.pre \in Seq(Ident)
  BY DEF Version
<1>1. o \in BumpOptions(v) /\ o \notin released
  BY DEF Offered
<1>2. CASE o \in NextVersions(v.base)
  <2>1. PICK b \in {Patch(v.base), Minor(v.base), Major(v.base)} :
          o \in {Ver(b, <<Word("alpha"), Num(0)>>), Stable(b)}
    BY <1>2 DEF NextVersions
  <2>2. b \in Triple /\ BaseBefore(v.base, b)
    <3>1. PICK x \in Nat, y \in Nat, z \in Nat : v.base = <<x, y, z>>
      BY <1>0 DEF Triple
    <3>2. b \in {<<x, y, z + 1>>, <<x, y + 1, 0>>, <<x + 1, 0, 0>>}
      BY <3>1, <2>1 DEF Patch, Minor, Major
    <3>3. 1..3 = {1, 2, 3} /\ 1..(1-1) = {} /\ 1..(2-1) = {1} /\ 1..(3-1) = {1, 2}
      OBVIOUS
    <3> QED
      BY <3>1, <3>2, <3>3 DEF Triple, BaseBefore
  <2>3. /\ Word("alpha") \in Ident /\ Num(0) \in Ident
        /\ Word("alpha") # Word("build") /\ Num(0) # Word("build")
    BY WordIs DEF Ident, Num
  <2>4. o.base = b /\ o.pre \in {<<Word("alpha"), Num(0)>>, <<>>} /\ o = [base |-> b, pre |-> o.pre]
    BY <2>1 DEF Ver, Stable
  <2>5. o.pre \in Seq(Ident) /\ NoBuild(o.pre)
    <3>1. CASE o.pre = <<>>
      BY <3>1 DEF NoBuild
    <3>2. CASE o.pre = <<Word("alpha"), Num(0)>>
      BY <3>2, <2>3 DEF NoBuild
    <3> QED
      BY <3>1, <3>2, <2>4
  <2>6. o \in Version
    BY <2>2, <2>4, <2>5 DEF Version
  <2> QED
    BY <1>1, <2>2, <2>4, <2>5, <2>6 DEF Less
<1>3. CASE o \notin NextVersions(v.base)
  <2>1. IsPre(v)
    BY <1>1, <1>3 DEF BumpOptions
  <2>2. CASE o = Stable(v.base)
    BY <2>1, <2>2, <1>0, <1>1 DEF Less, Stable, IsPre, Version, NoBuild
  <2>3. ASSUME NEW p \in Seq(Ident), Before(v.pre, p), o = Ver(v.base, p)
        PROVE  o \in Version /\ Less(v, o)
    <3>1. o.base = v.base /\ o.pre = p /\ o \in Version
      BY <2>3, <1>0 DEF Ver, Version
    <3>2. p # <<>>
      BY <2>3, <1>0, BeforeMeans
    <3> QED
      BY <2>1, <2>3, <3>1, <3>2 DEF Less, IsPre
  <2>4. CASE o = Ver(v.base, Advance(v.pre))
    BY <2>3, <2>4, <1>0, <1>1, AdvanceGoesUp DEF Ver
  <2>5. CASE \E c \in ChannelIds : /\ ChannelAt(v.pre) # 0
                                   /\ c[2] > v.pre[ChannelAt(v.pre)][2]
                                   /\ o = Ver(v.base, ChangeChannel(v.pre, c))
    BY <2>3, <2>5, <1>0, <1>1, ChannelGoesUp DEF Ver
  <2> QED
    BY <2>1, <2>2, <2>4, <2>5, <1>1, <1>3 DEF BumpOptions
<1> QED
  BY <1>2, <1>3

-----------------------------------------------------------------------------
(* Part 1: reading a body                                                   *)

\* The projects and groups a body is about, and the lines it is made of.
ProjectSet == [name : Names, version : Version, prerelease : BOOLEAN, id : Nat]
GroupSet   == [name : Groups, projects : Seq(ProjectSet)]
Lines    == [key : {"group", "tags", "- tag", "projects", "- name", "version", "prerelease",
                    "releaseId"},
             value : {"-"} \cup Groups \cup Names \cup Version \cup BOOLEAN \cup Nat]

\* Ids that build-pack may record; none for a body that is read as it was
\* rendered.
Ids(ids) == ids \in [DOMAIN ids -> Nat \ {0}]

\* A line with what setReleaseIdsInPRBody adds to it, and the reader's step
\* over both.
HasId(ids, l)   == l.key = "- name" /\ l.value \in DOMAIN ids
IdLine(ids, l)  == Line("releaseId", ids[l.value])
Block(ids, l)   == IF HasId(ids, l) THEN <<l, IdLine(ids, l)>> ELSE <<l>>
StepOf(ids, r, l) == IF HasId(ids, l) THEN Read(Read(r, l), IdLine(ids, l)) ELSE Read(r, l)

\* The reader comes from s to t over the lines of w.
Traces(ids, s, w, t, R) ==
  R[0] = s /\ R[Len(w)] = t /\ \A i \in 1..Len(w) : R[i] = StepOf(ids, R[i-1], w[i])
Reads(ids, s, w, t) == \E R : Traces(ids, s, w, t, R)

\* No lines, no change.
LEMMA ReadsNothing == ASSUME NEW ids, NEW s PROVE Reads(ids, s, <<>>, s)
<1>1. Traces(ids, s, <<>>, s, [i \in 0..0 |-> s])
  BY DEF Traces
<1> QED
  BY <1>1 DEF Reads

\* The reader goes through two pieces one after the other.
LEMMA ReadsBoth ==
  ASSUME NEW X, NEW ids, NEW s, NEW t, NEW u, NEW w \in Seq(X), NEW x \in Seq(X),
         Reads(ids, s, w, t), Reads(ids, t, x, u)
  PROVE  Reads(ids, s, w \o x, u)
<1>1. PICK R : Traces(ids, s, w, t, R)
  BY DEF Reads
<1>2. PICK Q : Traces(ids, t, x, u, Q)
  BY DEF Reads
<1> DEFINE m == Len(w)
           n == Len(x)
           T == [i \in 0..(m + n) |-> IF i <= m THEN R[i] ELSE Q[i - m]]
<1>3. /\ m \in Nat /\ n \in Nat /\ Len(w \o x) = m + n
      /\ \A i \in 1..m : (w \o x)[i] = w[i]
      /\ \A i \in 1..n : (w \o x)[m + i] = x[i]
  OBVIOUS
<1>4. R[0] = s /\ R[m] = t /\ \A i \in 1..m : R[i] = StepOf(ids, R[i-1], w[i])
  BY <1>1 DEF Traces
<1>5. Q[0] = t /\ Q[n] = u /\ \A i \in 1..n : Q[i] = StepOf(ids, Q[i-1], x[i])
  BY <1>2 DEF Traces
<1>6. T[0] = s
  BY <1>3, <1>4
<1>7. T[m + n] = u
  <2>1. CASE n = 0
    BY <2>1, <1>3, <1>4, <1>5
  <2>2. CASE n # 0
    BY <2>2, <1>3, <1>5
  <2> QED
    BY <2>1, <2>2
<1>8. ASSUME NEW i \in 1..(m + n) PROVE T[i] = StepOf(ids, T[i-1], (w \o x)[i])
  <2>1. CASE i <= m
    <3>1. i \in 1..m /\ T[i] = R[i] /\ T[i-1] = R[i-1]
      BY <2>1, <1>3
    <3> QED
      BY <3>1, <1>3, <1>4
  <2>2. CASE i > m
    <3> DEFINE j == i - m
    <3>1. j \in 1..n /\ i = m + j /\ T[i] = Q[j]
      BY <2>2, <1>3
    <3>2. T[i-1] = Q[j-1]
      <4>1. CASE j = 1
        BY <4>1, <3>1, <1>3, <1>4, <1>5
      <4>2. CASE j # 1
        <5>1. ~(i - 1 <= m) /\ (i - 1) - m = j - 1 /\ i - 1 \in 0..(m+n)
          BY <4>2, <3>1, <1>3
        <5> QED
          BY <5>1
      <4> QED
        BY <4>1, <4>2
    <3>3. (w \o x)[i] = x[j]
      BY <3>1, <1>3
    <3> QED
      BY <3>1, <3>2, <3>3, <1>5
  <2> QED
    BY <2>1, <2>2, <1>3
<1>9. Traces(ids, s, w \o x, u, T)
  <2> HIDE DEF T, m, n
  <2>1. Len(w \o x) = m + n
    BY <1>3
  <2> QED
    BY <2>1, <1>6, <1>7, <1>8 DEF Traces
<1> QED
  BY <1>9 DEF Reads

\* A body as it was rendered has no ids.
NoIdLine(w) == \A i \in 1..Len(w) : w[i].key # "releaseId"

\* Reading a body that has been given its ids is reading it with them.
LEMMA SetIdsReads ==
  ASSUME NEW ids, Ids(ids), NEW w \in Seq(Lines), NoIdLine(w), NEW s, NEW t,
         Reads(ids, s, w, t)
  PROVE  SetIds(w, ids) \in Seq(Lines) /\ Reads(<<>>, s, SetIds(w, ids), t)
<1> DEFINE ss == [k \in 1..Len(w) |-> Block(ids, w[k])]
<1>0. Len(w) \in Nat /\ DOMAIN w = 1..Len(w) /\ \A k \in 1..Len(w) : w[k] \in Lines
  OBVIOUS
<1>1. \A k \in 1..Len(w) : Block(ids, w[k]) \in Seq(Lines)
  <2> TAKE k \in 1..Len(w)
  <2>1. HasId(ids, w[k]) => IdLine(ids, w[k]) \in Lines
    BY DEF HasId, IdLine, Ids, Line, Lines
  <2> QED
    BY <2>1, <1>0 DEF Block
<1>2. ss \in Seq(Seq(Lines)) /\ Len(ss) = Len(w)
  BY <1>0, <1>1
<1>3. SetIds(w, ids) = FlattenSeq(ss)
  <2>1. \A k \in 1..Len(w) :
          (CASE w[k].key = "- name" /\ w[k].value \in DOMAIN ids ->
                  <<w[k], Line("releaseId", ids[w[k].value])>>
             [] w[k].key = "releaseId" /\ Owner(w, k) \in DOMAIN ids -> <<>>
             [] OTHER -> <<w[k]>>) = Block(ids, w[k])
    BY DEF NoIdLine, Block, HasId, IdLine
  <2>2. [k \in 1..Len(w) |->
          (CASE w[k].key = "- name" /\ w[k].value \in DOMAIN ids ->
                  <<w[k], Line("releaseId", ids[w[k].value])>>
             [] w[k].key = "releaseId" /\ Owner(w, k) \in DOMAIN ids -> <<>>
             [] OTHER -> <<w[k]>>)] = ss
    BY <2>1
  <2> HIDE DEF ss
  <2> QED
    BY <2>2, <1>0 DEF SetIds
<1>4. PICK F \in [0..Len(ss) -> Seq(Lines)] :
        /\ F[0] = <<>>
        /\ \A k \in 1..Len(ss) : F[k] = F[k-1] \o ss[k]
        /\ F[Len(ss)] = FlattenSeq(ss)
  <2> HIDE DEF ss
  <2> QED
    BY <1>2, Flattened
<1>5. PICK R : Traces(ids, s, w, t, R)
  BY DEF Reads
<1> DEFINE S == {n \in Nat : n <= Len(w) => Reads(<<>>, s, F[n], R[n])}
<1>6. 0 \in S
  BY <1>4, <1>5, ReadsNothing DEF Traces
<1>7. ASSUME NEW n \in Nat, n \in S PROVE n + 1 \in S
  <2> SUFFICES ASSUME n + 1 <= Len(w) PROVE Reads(<<>>, s, F[n+1], R[n+1])
    OBVIOUS
  <2> DEFINE l == w[n+1]
  <2>1. n + 1 \in 1..Len(w) /\ n \in 0..Len(w)
    BY <1>0
  <2>2. Reads(<<>>, s, F[n], R[n]) /\ F[n] \in Seq(Lines) /\ F[n+1] = F[n] \o Block(ids, l)
    <3>1. ss[n+1] = Block(ids, l)
      BY <2>1
    <3>2. n <= Len(w) /\ (n+1) - 1 = n
      BY <1>0
    <3>3. Reads(<<>>, s, F[n], R[n])
      BY <1>7, <3>2
    <3> HIDE DEF ss, l, S
    <3>4. F[n+1] = F[(n+1)-1] \o ss[n+1]
      BY <1>2, <1>4, <2>1
    <3>5. F[n] \in Seq(Lines)
      BY <1>2, <1>4, <2>1
    <3> QED
      BY <3>1, <3>2, <3>3, <3>4, <3>5
  <2>3. R[n+1] = StepOf(ids, R[n], l)
    BY <1>5, <2>1 DEF Traces
  <2>4. DOMAIN <<>> = {}
    OBVIOUS
  <2>7. Block(ids, l) \in Seq(Lines)
    BY <1>1, <2>1
  <2> HIDE DEF l
  <2>5. CASE HasId(ids, l)
    <3> DEFINE i == IdLine(ids, l)
               T == [k \in 0..2 |-> IF k = 0 THEN R[n] ELSE IF k = 1 THEN Read(R[n], l)
                                    ELSE Read(Read(R[n], l), i)]
    <3>1. Block(ids, l) = <<l, i>> /\ R[n+1] = Read(Read(R[n], l), i)
      BY <2>3, <2>5 DEF Block, StepOf
    <3>2. i.key # "- name"
      BY DEF IdLine, Line
    <3>3. StepOf(<<>>, R[n], l) = Read(R[n], l)
          /\ StepOf(<<>>, Read(R[n], l), i) = Read(Read(R[n], l), i)
      BY <2>4 DEF StepOf, HasId
    <3>4. Traces(<<>>, R[n], <<l, i>>, R[n+1], T)
      <4> HIDE DEF i
      <4>1. Len(<<l, i>>) = 2 /\ <<l, i>>[1] = l /\ <<l, i>>[2] = i /\ 1..2 = {1, 2}
        OBVIOUS
      <4>2. T[0] = R[n] /\ T[1] = Read(R[n], l) /\ T[2] = R[n+1]
        BY <3>1
      <4> QED
        BY <3>3, <4>1, <4>2, <3>1 DEF Traces
    <3>5. Reads(<<>>, R[n], Block(ids, l), R[n+1])
      <4> HIDE DEF i, T
      <4> QED
        BY <3>1, <3>4 DEF Reads
    <3> HIDE DEF i, T
    <3> QED
      BY <3>5, <2>2, <2>7, ReadsBoth
  <2>6. CASE ~HasId(ids, l)
    <3> DEFINE T == [k \in 0..1 |-> IF k = 0 THEN R[n] ELSE Read(R[n], l)]
    <3>1. Block(ids, l) = <<l>> /\ R[n+1] = Read(R[n], l)
      BY <2>3, <2>6 DEF Block, StepOf
    <3>2. StepOf(<<>>, R[n], l) = Read(R[n], l)
      BY <2>4 DEF StepOf, HasId
    <3>3. Traces(<<>>, R[n], <<l>>, R[n+1], T)
      BY <3>1, <3>2 DEF Traces
    <3>4. Reads(<<>>, R[n], Block(ids, l), R[n+1])
      <4> HIDE DEF T
      <4> QED
        BY <3>1, <3>3 DEF Reads
    <3> HIDE DEF T
    <3> QED
      BY <3>4, <2>2, <2>7, ReadsBoth
  <2> QED
    BY <2>5, <2>6
<1>8. Nat \subseteq S
  <2> HIDE DEF S
  <2> QED
    BY <1>6, <1>7, Induction
<1>9. Reads(<<>>, s, F[Len(w)], R[Len(w)]) /\ R[Len(w)] = t
  BY <1>0, <1>5, <1>8 DEF Traces
<1>10. F[Len(w)] = FlattenSeq(ss) /\ F[Len(w)] \in Seq(Lines)
  <2> HIDE DEF ss
  <2> QED
    BY <1>0, <1>2, <1>4
<1> QED
  <2> HIDE DEF ss
  <2> QED
    BY <1>3, <1>9, <1>10

\* What the reader does line by line is what extractPRMetadata folds.
LEMMA ReadsFold ==
  ASSUME NEW w \in Seq(Lines), NEW t, Reads(<<>>, Start, w, t)
  PROVE  FoldLeft(Read, Start, w) = t
<1>1. PICK R : Traces(<<>>, Start, w, t, R)
  BY DEF Reads
<1>2. \A i \in 1..Len(w) : R[i] = Read(R[i-1], w[i])
  BY <1>1 DEF Traces, StepOf, HasId
<1> QED
  BY <1>1, <1>2, Folded DEF Traces

(* What has been read: the projects of w, all of which are pushed but the     *)
(* last one.                                                                  *)
Partial == [name : Names \cup {""}, version : Version \cup {<<>>}, prerelease : BOOLEAN, id : Nat]
Entry   == [group : Groups, project : ProjectSet]
Reader  == [group : Groups \cup {""}, current : Partial, inProjects : BOOLEAN, out : Seq(Entry)]

\* The reader has read the projects of w, the last of which is not yet pushed.
HasRead(r, w) ==
  /\ r \in Reader
  /\ w = <<>> => r.current = Nobody /\ r.out = <<>>
  /\ w # <<>> => /\ r.group \in Groups
                 /\ r.current = w[Len(w)]
                 /\ Len(r.out) = Len(w) - 1
                 /\ \A i \in 1..Len(r.out) : r.out[i].project = w[i]

\* A project with its id in ids, or without one.
WithId(ids, p) == [p EXCEPT !.id = IF p.name \in DOMAIN ids THEN ids[p.name] ELSE 0]

\* A project with its id is a project.
LEMMA WithIdTyped ==
  ASSUME NEW ids, Ids(ids), NEW p \in ProjectSet
  PROVE  /\ WithId(ids, p) \in ProjectSet
         /\ WithId(ids, p) = ProjectOf(p.name, p.version, p.prerelease,
                                       IF p.name \in DOMAIN ids THEN ids[p.name] ELSE 0)
BY DEF WithId, ProjectSet, Ids, ProjectOf

\* No group and no project has an empty name.
LEMMA Nameless == "" \notin Groups \cup Names
BY FlowAssumption

\* The reader in group g, at project c, with o behind it.
At(g, c, i, o) == [group |-> g, current |-> c, inProjects |-> i, out |-> o]

\* The fields of a reader's state.
LEMMA AtFields ==
  ASSUME NEW g, NEW c, NEW i, NEW o
  PROVE  /\ At(g, c, i, o).group = g /\ At(g, c, i, o).current = c
         /\ At(g, c, i, o).inProjects = i /\ At(g, c, i, o).out = o
BY DEF At

\* The kinds of lines.
Yes(b)         == b = TRUE
Named(n)       == n # ""
Unset          == FALSE
IsGroup(l)     == l.key = "group"
IsProjects(l)  == l.key = "projects"
IsTag(l)       == l.key = "tags" \/ l.key = "- tag"
IsName(l)      == l.key = "- name"
IsVersion(l)   == l.key = "version"
IsFlag(l)      == l.key = "prerelease"
IsId(l)        == l.key = "releaseId" /\ l.value > 0

\* A line that names a group.
LEMMA ReadGroup ==
  ASSUME NEW g, NEW c, NEW i, NEW o, NEW l, IsGroup(l)
  PROVE  \E f : Read(At(g, c, i, o), l) = At(l.value, c, f, o)
<1> DEFINE f == FALSE
           r == At(g, c, i, o)
<1>1. Read(r, l) = [r EXCEPT !.group = l.value, !.inProjects = f]
  <2> HIDE DEF r
  <2> QED
    BY DEF Read, IsGroup
<1>2. [r EXCEPT !.group = l.value, !.inProjects = f]
        = [[r EXCEPT !.group = l.value] EXCEPT !.inProjects = f]
  BY DEF At
<1>3. [r EXCEPT !.group = l.value] = At(l.value, c, i, o)
  BY DEF At
<1>4. [At(l.value, c, i, o) EXCEPT !.inProjects = f] = At(l.value, c, f, o)
  <2> HIDE DEF f
  <2> QED
    BY DEF At
<1>5. Read(r, l) = At(l.value, c, f, o)
  BY <1>1, <1>2, <1>3, <1>4
<1> HIDE DEF f
<1> QED
  BY <1>5

\* The line that opens the projects of a group.
LEMMA ReadProjects ==
  ASSUME NEW g, NEW c, NEW i, NEW o, NEW l, IsProjects(l)
  PROVE  \E f : Yes(f) /\ Read(At(g, c, i, o), l) = At(g, c, f, o)
<1> DEFINE f == TRUE
           r == At(g, c, i, o)
<1>1. Read(r, l) = [r EXCEPT !.inProjects = f]
  <2> HIDE DEF r
  <2> QED
    BY DEF Read, IsProjects
<1>2. [r EXCEPT !.inProjects = f] = At(g, c, f, o)
  <2> HIDE DEF f
  <2> QED
    BY DEF At
<1>3. Yes(f)
  BY DEF Yes
<1> HIDE DEF f
<1> QED
  BY <1>1, <1>2, <1>3

\* A line no reader looks at.
LEMMA ReadTags ==
  ASSUME NEW r, NEW l, IsTag(l)
  PROVE  Read(r, l) = r
BY DEF Read, IsTag

\* A reader's state with another current project.
LEMMA SetCurrent ==
  ASSUME NEW g, NEW c, NEW i, NEW o, NEW d
  PROVE  [At(g, c, i, o) EXCEPT !.current = d] = At(g, d, i, o)
BY DEF At

\* A reader's state with one more project pushed.
LEMMA Appended ==
  ASSUME NEW g, NEW c, NEW i, NEW o, NEW d
  PROVE  [At(g, c, i, o) EXCEPT !.out = Append(o, d)] = At(g, c, i, Append(o, d))
BY DEF At

\* A line that names a project: the one before it is pushed.
LEMMA ReadName ==
  ASSUME NEW g, NEW c, NEW i, Yes(i), NEW o, NEW x, NEW l, IsName(l),
         NEW n, n = ProjectOf(l.value, <<>>, Unset, 0),
         Push(At(g, c, i, o)) = At(g, c, i, x)
  PROVE  Read(At(g, c, i, o), l) = At(g, n, i, x)
<1> DEFINE r == At(g, c, i, o)
<1>1. r.inProjects = TRUE
  BY DEF At, Yes
<1>2. Read(r, l) = [Push(r) EXCEPT !.current = n]
  <2> HIDE DEF r
  <2> QED
    BY <1>1 DEF Read, IsName, Unset
<1>3. Read(r, l) = [At(g, c, i, x) EXCEPT !.current = n]
  BY <1>2
<1>4. [At(g, c, i, x) EXCEPT !.current = n] = At(g, n, i, x)
  BY ONLY SetCurrent
<1> QED
  BY <1>3, <1>4

\* A project that has been read is pushed.
LEMMA PushAppends ==
  ASSUME NEW g, Named(g), NEW c, c # Nobody, NEW o, NEW i,
         NEW e, e = [group |-> g, project |-> c]
  PROVE  Push(At(g, c, i, o)) = At(g, c, i, Append(o, e))
<1> DEFINE r == At(g, c, i, o)
<1>0. r.current = c /\ r.group = g /\ r.out = o
  BY DEF At
<1>1. Push(r) = [r EXCEPT !.out = Append(r.out, [group |-> r.group, project |-> r.current])]
  <2> HIDE DEF r
  <2> QED
    BY <1>0 DEF Push, Named
<1>2. Push(r) = [r EXCEPT !.out = Append(r.out, e)]
  BY <1>1, <1>0
<1>3. Push(r) = [r EXCEPT !.out = Append(o, e)]
  <2> HIDE DEF r
  <2> QED
    BY <1>0, <1>2
<1>4. [r EXCEPT !.out = Append(o, e)] = At(g, c, i, Append(o, e))
  BY ONLY Appended
<1> QED
  BY <1>3, <1>4

\* Without one, nothing is.
LEMMA PushNothing ==
  ASSUME NEW g, NEW o, NEW i
  PROVE  Push(At(g, Nobody, i, o)) = At(g, Nobody, i, o)
BY DEF Push, At

\* The line with the version of the current project.
LEMMA ReadVersion ==
  ASSUME NEW g, NEW n, Named(n), NEW v, NEW b, NEW d, NEW i, NEW o, NEW l, IsVersion(l)
  PROVE  Read(At(g, ProjectOf(n, v, b, d), i, o), l) = At(g, ProjectOf(n, l.value, b, d), i, o)
<1> DEFINE p == ProjectOf(n, v, b, d)
           r == At(g, p, i, o)
<1>1. r.current # Nobody
  <2>1. p # Nobody
    BY DEF ProjectOf, Nobody, Named
  <2>2. r.current = p
    BY DEF At
  <2> QED
    BY <2>1, <2>2
<1>2. Read(r, l) = [r EXCEPT !.current[l.key] = l.value]
  <2> HIDE DEF r
  <2> QED
    BY <1>1 DEF Read, IsVersion
<1>3. [p EXCEPT ![l.key] = l.value] = ProjectOf(n, l.value, b, d)
  BY DEF ProjectOf, IsVersion
<1> HIDE DEF p
<1>4. [r EXCEPT !.current[l.key] = l.value] = At(g, [p EXCEPT ![l.key] = l.value], i, o)
  BY ONLY DEF At
<1> QED
  BY <1>2, <1>3, <1>4 DEF p

\* The line with its pre-release flag.
LEMMA ReadFlag ==
  ASSUME NEW g, NEW n, Named(n), NEW v, NEW b, NEW d, NEW i, NEW o, NEW l, IsFlag(l)
  PROVE  Read(At(g, ProjectOf(n, v, b, d), i, o), l) = At(g, ProjectOf(n, v, l.value, d), i, o)
<1> DEFINE p == ProjectOf(n, v, b, d)
           r == At(g, p, i, o)
<1>1. r.current # Nobody
  <2>1. p # Nobody
    BY DEF ProjectOf, Nobody, Named
  <2>2. r.current = p
    BY DEF At
  <2> QED
    BY <2>1, <2>2
<1>2. Read(r, l) = [r EXCEPT !.current[l.key] = l.value]
  <2> HIDE DEF r
  <2> QED
    BY <1>1 DEF Read, IsFlag
<1>3. [p EXCEPT ![l.key] = l.value] = ProjectOf(n, v, l.value, d)
  BY DEF ProjectOf, IsFlag
<1> HIDE DEF p
<1>4. [r EXCEPT !.current[l.key] = l.value] = At(g, [p EXCEPT ![l.key] = l.value], i, o)
  BY ONLY DEF At
<1> QED
  BY <1>2, <1>3, <1>4 DEF p

\* The line with the id of its release.
LEMMA ReadId ==
  ASSUME NEW g, NEW n, Named(n), NEW v, NEW b, NEW d, NEW i, NEW o, NEW l, IsId(l)
  PROVE  Read(At(g, ProjectOf(n, v, b, d), i, o), l) = At(g, ProjectOf(n, v, b, l.value), i, o)
<1> DEFINE p == ProjectOf(n, v, b, d)
           r == At(g, p, i, o)
<1>1. r.current # Nobody
  <2>1. p # Nobody
    BY DEF ProjectOf, Nobody, Named
  <2>2. r.current = p
    BY DEF At
  <2> QED
    BY <2>1, <2>2
<1>2. Read(r, l) = [r EXCEPT !.current.id = l.value]
  <2> HIDE DEF r
  <2> QED
    BY <1>1 DEF Read, IsId
<1>3. [p EXCEPT !.id = l.value] = ProjectOf(n, v, b, l.value)
  BY DEF ProjectOf
<1> HIDE DEF p
<1>4. [r EXCEPT !.current.id = l.value] = At(g, [p EXCEPT !.id = l.value], i, o)
  BY ONLY DEF At
<1> QED
  BY <1>2, <1>3, <1>4 DEF p

\* What the renderer writes is of these kinds.
LEMMA LineKinds ==
  \A v : /\ IsGroup(Line("group", v)) /\ Line("group", v).value = v
         /\ IsProjects(Line("projects", v))
         /\ IsTag(Line("tags", v)) /\ IsTag(Line("- tag", v))
         /\ IsName(Line("- name", v)) /\ Line("- name", v).value = v
         /\ IsVersion(Line("version", v)) /\ Line("version", v).value = v
         /\ IsFlag(Line("prerelease", v)) /\ Line("prerelease", v).value = v
BY DEF Line, IsGroup, IsProjects, IsTag, IsName, IsVersion, IsFlag

\* The same with the line that setReleaseIdsInPRBody adds.
LEMMA Owned ==
  ASSUME NEW ids, Ids(ids), NEW l, IsName(l), l.value \in DOMAIN ids
  PROVE  \E m : IsId(m) /\ m.value = ids[l.value]
                 /\ \A r : StepOf(ids, r, l) = Read(Read(r, l), m)
<1>1. IdLine(ids, l).key = "releaseId" /\ IdLine(ids, l).value = ids[l.value]
  BY DEF IdLine, Line
<1>2. ids[l.value] > 0
  BY DEF Ids
<1>3. HasId(ids, l)
  BY DEF HasId, IsName
<1> QED
  BY <1>1, <1>2, <1>3 DEF IsId, StepOf

\* Any other line stays alone.
LEMMA NotOwned ==
  ASSUME NEW ids, NEW l, IsName(l) => l.value \notin DOMAIN ids, NEW r
  PROVE  StepOf(ids, r, l) = Read(r, l)
BY DEF StepOf, HasId, IsName

\* Only a line of its own names a project.
LEMMA Kinds ==
  ASSUME NEW l, IsGroup(l) \/ IsProjects(l) \/ IsTag(l) \/ IsVersion(l) \/ IsFlag(l)
  PROVE  ~IsName(l)
BY DEF IsGroup, IsProjects, IsTag, IsVersion, IsFlag, IsName

\* A project's name, with the id that may follow it.
LEMMA NameStep ==
  ASSUME NEW ids, Ids(ids), NEW n, Named(n), NEW g, NEW c, NEW j, Yes(j), NEW o, NEW x,
         Push(At(g, c, j, o)) = At(g, c, j, x), NEW l, IsName(l), l.value = n,
         NEW d, n \in DOMAIN ids => d = ids[n], n \notin DOMAIN ids => d = 0
  PROVE  StepOf(ids, At(g, c, j, o), l) = At(g, ProjectOf(n, <<>>, Unset, d), j, x)
<1>1. PICK c0 : c0 = ProjectOf(n, <<>>, Unset, 0)
  OBVIOUS
<1>2. Read(At(g, c, j, o), l) = At(g, c0, j, x)
  BY <1>1, ReadName
<1>3. CASE n \in DOMAIN ids
  <2>1. PICK m : IsId(m) /\ m.value = ids[l.value]
                 /\ \A r : StepOf(ids, r, l) = Read(Read(r, l), m)
    BY <1>3, Owned
  <2>2. m.value = d
    BY <2>1, <1>3
  <2>3. StepOf(ids, At(g, c, j, o), l) = Read(At(g, c0, j, x), m)
    BY <1>2, <2>1
  <2>4. Read(At(g, c0, j, x), m) = At(g, ProjectOf(n, <<>>, Unset, m.value), j, x)
    BY <2>1, <1>1, ReadId
  <2> QED
    BY <2>2, <2>3, <2>4
<1>4. CASE n \notin DOMAIN ids
  <2>1. StepOf(ids, At(g, c, j, o), l) = Read(At(g, c, j, o), l)
    BY <1>4, NotOwned
  <2> QED
    BY <1>1, <1>2, <1>4, <2>1
<1> QED
  BY <1>3, <1>4

\* Its version.
LEMMA VersionStep ==
  ASSUME NEW ids, NEW g, NEW n, Named(n), NEW v, NEW b, NEW d, NEW j, NEW o, NEW l, IsVersion(l)
  PROVE  StepOf(ids, At(g, ProjectOf(n, v, b, d), j, o), l) = At(g, ProjectOf(n, l.value, b, d), j, o)
BY Kinds, NotOwned, ReadVersion

\* Its flag.
LEMMA FlagStep ==
  ASSUME NEW ids, NEW g, NEW n, Named(n), NEW v, NEW b, NEW d, NEW j, NEW o, NEW l, IsFlag(l)
  PROVE  StepOf(ids, At(g, ProjectOf(n, v, b, d), j, o), l) = At(g, ProjectOf(n, v, l.value, d), j, o)
BY Kinds, NotOwned, ReadFlag

\* Its tag lines.
LEMMA TagStep ==
  ASSUME NEW ids, NEW r, NEW l, IsTag(l)
  PROVE  StepOf(ids, r, l) = r
BY Kinds, NotOwned, ReadTags

\* The head of a group.
LEMMA GroupStep ==
  ASSUME NEW ids, NEW g, NEW c, NEW i, NEW o, NEW l, IsGroup(l)
  PROVE  \E f : StepOf(ids, At(g, c, i, o), l) = At(l.value, c, f, o)
BY Kinds, NotOwned, ReadGroup

\* The head of its projects.
LEMMA ProjectsStep ==
  ASSUME NEW ids, NEW g, NEW c, NEW i, NEW o, NEW l, IsProjects(l)
  PROVE  \E f : Yes(f) /\ StepOf(ids, At(g, c, i, o), l) = At(g, c, f, o)
BY Kinds, NotOwned, ReadProjects

\* A state put together from typed parts is typed.
LEMMA AtTyped ==
  ASSUME NEW g \in Groups \cup {""}, NEW c \in Partial, NEW i \in BOOLEAN, NEW o \in Seq(Entry)
  PROVE  At(g, c, i, o) \in Reader
BY DEF Reader, At

\* A reader's state is made of its parts.
LEMMA AtReader ==
  ASSUME NEW r \in Reader
  PROVE  r = At(r.group, r.current, r.inProjects, r.out)
BY DEF Reader, At

\* Pushing the last one.
LEMMA Pushed ==
  ASSUME NEW r, NEW w \in Seq(ProjectSet), HasRead(r, w)
  PROVE  /\ Push(r) = At(r.group, r.current, r.inProjects, Push(r).out)
         /\ Push(r).out \in Seq(Entry)
         /\ Len(Push(r).out) = Len(w)
         /\ \A i \in 1..Len(w) : Push(r).out[i].project = w[i]
<1>0. r \in Reader
  BY DEF HasRead
<1>1. CASE w = <<>>
  <2>1. Push(r) = r /\ r.out = <<>>
    BY <1>1 DEF HasRead, Push
  <2>2. r = At(r.group, r.current, r.inProjects, r.out)
    BY <1>0, AtReader
  <2>3. r.out \in Seq(Entry) /\ Len(r.out) = 0 /\ Len(w) = 0
    BY <2>1, <1>1, <1>0 DEF Reader
  <2>4. \A i \in 1..Len(w) : FALSE
    BY <2>3
  <2> QED
    BY <2>1, <2>2, <2>3, <2>4
<1>2. CASE w # <<>>
  <2> DEFINE e == [group |-> r.group, project |-> r.current]
  <2>1. Len(w) \in Nat /\ Len(w) # 0 /\ w[Len(w)] \in ProjectSet
    BY <1>2
  <2>2. r.group \in Groups /\ r.current \in ProjectSet /\ Named(r.group) /\ r.current # Nobody
    <3>1. r.group \in Groups /\ r.current \in ProjectSet
      BY <1>2, <2>1 DEF HasRead
    <3>2. r.current.name # "" /\ r.group # ""
      BY <3>1, Nameless DEF ProjectSet
    <3>3. Nobody.name = ""
      BY DEF Nobody, ProjectOf
    <3> QED
      BY <3>1, <3>2, <3>3 DEF Named
  <2>3. e \in Entry /\ e.project = r.current
    BY <2>2 DEF Entry
  <2>4. r = At(r.group, r.current, r.inProjects, r.out) /\ r.out \in Seq(Entry)
    BY <1>0, AtReader DEF Reader
  <2>5. Push(r) = At(r.group, r.current, r.inProjects, Append(r.out, e))
    <3>1. e = [group |-> r.group, project |-> r.current]
      OBVIOUS
    <3> HIDE DEF e
    <3> QED
      BY <2>2, <2>4, <3>1, PushAppends
  <2> HIDE DEF e
  <2>6. Len(r.out) = Len(w) - 1 /\ \A i \in 1..Len(r.out) : r.out[i].project = w[i]
    BY <1>2 DEF HasRead
  <2>7. e.project = w[Len(w)]
    BY <1>2, <2>3 DEF HasRead
  <2>8. Append(r.out, e) \in Seq(Entry) /\ Len(Append(r.out, e)) = Len(w)
    BY <2>1, <2>3, <2>4, <2>6
  <2>9. \A i \in 1..Len(w) : Append(r.out, e)[i] = IF i = Len(w) THEN e ELSE r.out[i]
    BY <2>1, <2>3, <2>4, <2>6
  <2> HIDE DEF HasRead
  <2>10. \A i \in 1..Len(w) : Append(r.out, e)[i].project = w[i]
    BY <2>1, <2>6, <2>7, <2>9
  <2> QED
    <3>1. PICK x : x = Append(r.out, e)
      OBVIOUS
    <3>2. Push(r) = At(r.group, r.current, r.inProjects, x)
      BY <2>5, <3>1
    <3>3. Push(r).out = x
      BY <3>2, AtFields
    <3>4. x \in Seq(Entry) /\ Len(x) = Len(w) /\ \A i \in 1..Len(w) : x[i].project = w[i]
      BY <2>8, <2>10, <3>1
    <3> QED
      BY <3>2, <3>3, <3>4
<1> QED
  BY <1>1, <1>2

\* The five lines of a project.
LEMMA ProjectRead ==
  ASSUME NEW ids, Ids(ids), NEW p \in ProjectSet, NEW r, NEW w \in Seq(ProjectSet),
         HasRead(r, w), r.group \in Groups, Yes(r.inProjects)
  PROVE  /\ ProjectLines(p) \in Seq(Lines) /\ NoIdLine(ProjectLines(p))
         /\ \E t : /\ Reads(ids, r, ProjectLines(p), t)
                   /\ HasRead(t, Append(w, WithId(ids, p)))
                   /\ t.group \in Groups /\ Yes(t.inProjects)
<1> DEFINE ls == ProjectLines(p)
           id == IF p.name \in DOMAIN ids THEN ids[p.name] ELSE 0
           out == Push(r).out
           C(c) == At(r.group, c, r.inProjects, out)
           c1 == ProjectOf(p.name, <<>>, Unset, id)
           c2 == ProjectOf(p.name, p.version, Unset, id)
           c3 == ProjectOf(p.name, p.version, p.prerelease, id)
           R == [i \in 0..5 |-> IF i = 0 THEN r ELSE IF i = 1 THEN C(c1)
                                ELSE IF i = 2 THEN C(c2) ELSE C(c3)]
<1>0. /\ p.name \in Names /\ Named(p.name) /\ p.version \in Version /\ p.prerelease \in BOOLEAN
      /\ id \in Nat
  BY Nameless DEF ProjectSet, Ids, Named
<1>1. /\ Len(ls) = 5
      /\ ls[1] = Line("- name", p.name) /\ ls[2] = Line("version", p.version)
      /\ ls[3] = Line("prerelease", p.prerelease) /\ ls[4] = Line("tags", "-")
      /\ ls[5] = Line("- tag", p.name)
  BY DEF ProjectLines
<1>2. ls \in Seq(Lines)
  <2>1. /\ Line("- name", p.name) \in Lines /\ Line("version", p.version) \in Lines
        /\ Line("prerelease", p.prerelease) \in Lines /\ Line("tags", "-") \in Lines
        /\ Line("- tag", p.name) \in Lines
    BY <1>0 DEF Line, Lines
  <2>2. \A a, b, c, d, e : a \in Lines /\ b \in Lines /\ c \in Lines /\ d \in Lines /\ e \in Lines
          => <<a, b, c, d, e>> \in Seq(Lines)
    OBVIOUS
  <2> HIDE DEF Lines
  <2> QED
    BY <2>1, <2>2 DEF ProjectLines
<1>13. /\ IsName(ls[1]) /\ ls[1].value = p.name
       /\ IsVersion(ls[2]) /\ ls[2].value = p.version
       /\ IsFlag(ls[3]) /\ ls[3].value = p.prerelease
       /\ IsTag(ls[4]) /\ IsTag(ls[5])
  <2> HIDE DEF ls
  <2> QED
    BY <1>1, LineKinds
<1>3. NoIdLine(ls)
  <2>1. \A i \in 1..5 : i = 1 \/ i = 2 \/ i = 3 \/ i = 4 \/ i = 5
    OBVIOUS
  <2> HIDE DEF ls
  <2>2. /\ ls[1].key # "releaseId" /\ ls[2].key # "releaseId" /\ ls[3].key # "releaseId"
        /\ ls[4].key # "releaseId" /\ ls[5].key # "releaseId"
    <3>1. \A v : /\ Line("- name", v).key # "releaseId" /\ Line("version", v).key # "releaseId"
                 /\ Line("prerelease", v).key # "releaseId" /\ Line("tags", v).key # "releaseId"
                 /\ Line("- tag", v).key # "releaseId"
      BY DEF Line
    <3> HIDE DEF Line
    <3> QED
      BY <1>1, <3>1
  <2>3. \A i \in 1..5 : ls[i].key # "releaseId"
    BY <2>1, <2>2
  <2> QED
    BY <2>3, <1>1 DEF NoIdLine
<1>4. /\ Push(r) = At(r.group, r.current, r.inProjects, out)
      /\ out \in Seq(Entry) /\ Len(out) = Len(w)
      /\ \A i \in 1..Len(w) : out[i].project = w[i]
  BY Pushed
<1> HIDE DEF out, id
<1>5. ASSUME NEW l, IsName(l), l.value = p.name PROVE StepOf(ids, r, l) = C(c1)
  <2>1. r = At(r.group, r.current, r.inProjects, r.out)
    BY AtReader DEF HasRead
  <2>2. (p.name \in DOMAIN ids => id = ids[p.name]) /\ (p.name \notin DOMAIN ids => id = 0)
    BY DEF id
  <2> QED
    BY <1>0, <1>4, <1>5, <2>1, <2>2, NameStep
<1>7. ASSUME NEW l, IsVersion(l), l.value = p.version PROVE StepOf(ids, C(c1), l) = C(c2)
  BY <1>0, <1>7, VersionStep
<1>8. ASSUME NEW l, IsFlag(l), l.value = p.prerelease PROVE StepOf(ids, C(c2), l) = C(c3)
  BY <1>0, <1>8, FlagStep
<1>10. Traces(ids, r, ls, C(c3), R)
  <2>1. /\ R[0] = r /\ R[1] = C(c1) /\ R[2] = C(c2) /\ R[3] = C(c3) /\ R[4] = C(c3)
        /\ R[5] = C(c3)
    OBVIOUS
  <2>a. /\ IsName(ls[1]) /\ ls[1].value = p.name
        /\ IsVersion(ls[2]) /\ ls[2].value = p.version
        /\ IsFlag(ls[3]) /\ ls[3].value = p.prerelease
        /\ IsTag(ls[4]) /\ IsTag(ls[5])
    BY <1>13
  <2> HIDE DEF R, ls, C, c1, c2, c3
  <2>2. /\ R[1] = StepOf(ids, R[0], ls[1]) /\ R[2] = StepOf(ids, R[1], ls[2])
        /\ R[3] = StepOf(ids, R[2], ls[3]) /\ R[4] = StepOf(ids, R[3], ls[4])
        /\ R[5] = StepOf(ids, R[4], ls[5])
    BY <2>1, <2>a, <1>5, <1>7, <1>8, TagStep
  <2>3. \A i \in 1..5 : R[i] = StepOf(ids, R[i-1], ls[i])
    <3> TAKE i \in 1..5
    <3>1. i = 1 \/ i = 2 \/ i = 3 \/ i = 4 \/ i = 5
      OBVIOUS
    <3>2. 1 - 1 = 0 /\ 2 - 1 = 1 /\ 3 - 1 = 2 /\ 4 - 1 = 3 /\ 5 - 1 = 4
      OBVIOUS
    <3> QED
      BY <3>1, <3>2, <2>2
  <2> QED
    BY <2>1, <2>3, <1>1 DEF Traces
<1>11. HasRead(C(c3), Append(w, WithId(ids, p)))
  <2>1. c3 = WithId(ids, p) /\ c3 \in ProjectSet
    BY WithIdTyped DEF id
  <2>2. c3 \in Partial
    BY <2>1 DEF ProjectSet, Partial
  <2> HIDE DEF c3
  <2>3. C(c3) \in Reader
    <3>1. r.group \in Groups \cup {""} /\ r.inProjects \in BOOLEAN
      BY DEF HasRead, Reader
    <3> QED
      BY <2>2, <3>1, <1>4, AtTyped
  <2>4. /\ Append(w, c3) # <<>> /\ Len(Append(w, c3)) = Len(w) + 1
        /\ Append(w, c3)[Len(w) + 1] = c3 /\ \A i \in 1..Len(w) : Append(w, c3)[i] = w[i]
        /\ Len(w) \in Nat
    BY <2>1
  <2>5. Len(w) + 1 - 1 = Len(w)
    BY <2>4
  <2> DEFINE x == Append(w, c3)
  <2>6. /\ x # <<>> /\ Len(x) = Len(w) + 1 /\ x[Len(x)] = c3
        /\ \A i \in 1..Len(w) : x[i] = w[i]
    BY <2>4
  <2>7. /\ C(c3).group = r.group /\ C(c3).current = c3 /\ C(c3).out = out
    BY AtFields
  <2> HIDE DEF x, C
  <2>8. HasRead(C(c3), x)
    <3>1. out = C(c3).out /\ Len(out) = Len(x) - 1 /\ x # <<>>
      BY <2>5, <2>6, <2>7, <1>4
    <3>2. \A i \in 1..Len(out) : out[i].project = x[i]
      BY <1>4, <2>6
    <3> QED
      BY <2>3, <2>6, <2>7, <3>1, <3>2 DEF HasRead
  <2> QED
    BY <2>1, <2>8 DEF x
<1>12. C(c3).group \in Groups /\ Yes(C(c3).inProjects)
  BY AtFields
<1> QED
  <2> HIDE DEF ls, C, c3, R
  <2>1. Reads(ids, r, ls, C(c3))
    BY <1>10 DEF Reads
  <2> QED
    BY <2>1, <1>2, <1>3, <1>11, <1>12 DEF ls

\* Two pieces without an id line make one.
LEMMA NoIdBoth ==
  ASSUME NEW w \in Seq(Lines), NEW x \in Seq(Lines), NoIdLine(w), NoIdLine(x)
  PROVE  w \o x \in Seq(Lines) /\ NoIdLine(w \o x)
<1>1. /\ w \o x \in Seq(Lines) /\ Len(w \o x) = Len(w) + Len(x)
      /\ \A i \in 1..(Len(w) + Len(x)) : (w \o x)[i] = IF i <= Len(w) THEN w[i] ELSE x[i - Len(w)]
      /\ Len(w) \in Nat /\ Len(x) \in Nat
  <2> HIDE DEF Lines
  <2> QED
    OBVIOUS
<1>2. ASSUME NEW i \in 1..(Len(w) + Len(x)) PROVE (w \o x)[i].key # "releaseId"
  <2>1. CASE i <= Len(w)
    <3>1. i \in 1..Len(w) /\ (w \o x)[i] = w[i]
      BY <2>1, <1>1
    <3> QED
      BY <3>1 DEF NoIdLine
  <2>2. CASE ~(i <= Len(w))
    <3>1. i - Len(w) \in 1..Len(x) /\ (w \o x)[i] = x[i - Len(w)]
      BY <2>2, <1>1
    <3> QED
      BY <3>1 DEF NoIdLine
  <2> QED
    BY <2>1, <2>2
<1> QED
  BY <1>1, <1>2 DEF NoIdLine

\* The first n.
Cut(q, n) == [k \in 1..n |-> q[k]]

\* One more element of a sequence behind another.
LEMMA OneMore ==
  ASSUME NEW X, NEW w \in Seq(X), NEW q \in Seq(X), NEW n \in Nat, n + 1 <= Len(q)
  PROVE  /\ w \o Cut(q, n) \in Seq(X)
         /\ w \o Cut(q, n+1) = Append(w \o Cut(q, n), q[n+1])
<1> DEFINE a == Cut(q, n)
           b == Cut(q, n+1)
<1>1. \A k \in 1..(n+1) : q[k] \in X
  OBVIOUS
<1>2. /\ a \in Seq(X) /\ Len(a) = n /\ \A k \in 1..n : a[k] = q[k]
      /\ b \in Seq(X) /\ Len(b) = n+1 /\ \A k \in 1..(n+1) : b[k] = q[k]
  BY <1>1 DEF Cut
<1> HIDE DEF a, b
<1>3. b = Append(a, q[n+1])
  BY <1>1, <1>2
<1>4. w \o Append(a, q[n+1]) = Append(w \o a, q[n+1])
  BY <1>1, <1>2
<1>5. w \o a \in Seq(X) /\ w \o b = Append(w \o a, q[n+1])
  <2>1. w \o a \in Seq(X)
    BY <1>2
  <2> QED
    BY <2>1, <1>3, <1>4
<1> QED
  BY <1>5 DEF a, b

HeaderLines(g)   == <<Line("group", g), Line("tags", "-"), Line("- tag", g), Line("projects", "-")>>
WithIds(ids, ps) == [k \in DOMAIN ps |-> WithId(ids, ps[k])]

\* The reader goes through the head of a group and has read what it had.
LEMMA HeaderRead ==
  ASSUME NEW ids, NEW g \in Groups, NEW r, NEW w \in Seq(ProjectSet), HasRead(r, w)
  PROVE  /\ HeaderLines(g) \in Seq(Lines) /\ NoIdLine(HeaderLines(g))
         /\ \E t : Reads(ids, r, HeaderLines(g), t) /\ HasRead(t, w) /\ t.group \in Groups /\ Yes(t.inProjects)
<1> DEFINE ls == HeaderLines(g)
<1>1. /\ Len(ls) = 4 /\ ls[1] = Line("group", g) /\ ls[2] = Line("tags", "-")
      /\ ls[3] = Line("- tag", g) /\ ls[4] = Line("projects", "-")
  BY DEF HeaderLines
<1>2. ls \in Seq(Lines)
  <2>1. /\ Line("group", g) \in Lines /\ Line("tags", "-") \in Lines
        /\ Line("- tag", g) \in Lines /\ Line("projects", "-") \in Lines
    BY DEF Line, Lines
  <2>2. \A a, b, c, d : a \in Lines /\ b \in Lines /\ c \in Lines /\ d \in Lines
          => <<a, b, c, d>> \in Seq(Lines)
    OBVIOUS
  <2> HIDE DEF Lines
  <2> QED
    BY <2>1, <2>2 DEF HeaderLines
<1> HIDE DEF ls
<1>3. /\ IsGroup(ls[1]) /\ ls[1].value = g /\ IsTag(ls[2]) /\ IsTag(ls[3]) /\ IsProjects(ls[4])
  BY <1>1, LineKinds
<1>4. NoIdLine(ls)
  <2>1. \A i \in 1..4 : i = 1 \/ i = 2 \/ i = 3 \/ i = 4
    OBVIOUS
  <2>2. /\ ls[1].key # "releaseId" /\ ls[2].key # "releaseId"
        /\ ls[3].key # "releaseId" /\ ls[4].key # "releaseId"
    BY <1>3 DEF IsGroup, IsTag, IsProjects
  <2>3. \A i \in 1..4 : ls[i].key # "releaseId"
    BY <2>1, <2>2
  <2> QED
    BY <2>3, <1>1 DEF NoIdLine
<1>5. r = At(r.group, r.current, r.inProjects, r.out) /\ r \in Reader
  BY AtReader DEF HasRead
<1>6. PICK i : StepOf(ids, r, ls[1]) = At(g, r.current, i, r.out)
  <2>1. PICK i : StepOf(ids, At(r.group, r.current, r.inProjects, r.out), ls[1])
                   = At(ls[1].value, r.current, i, r.out)
    BY <1>3, GroupStep
  <2> QED
    BY <2>1, <1>3, <1>5
<1> DEFINE s == At(g, r.current, i, r.out)
<1>7. PICK j : Yes(j) /\ StepOf(ids, s, ls[4]) = At(g, r.current, j, r.out)
  BY <1>3, ProjectsStep
<1> DEFINE t == At(g, r.current, j, r.out)
           R == [k \in 0..4 |-> IF k = 0 THEN r ELSE IF k = 4 THEN t ELSE s]
<1>8. StepOf(ids, s, ls[2]) = s /\ StepOf(ids, s, ls[3]) = s
  BY <1>3, TagStep
<1>9. Traces(ids, r, ls, t, R)
  <2>1. R[0] = r /\ R[1] = s /\ R[2] = s /\ R[3] = s /\ R[4] = t
    OBVIOUS
  <2> HIDE DEF R
  <2>2. /\ R[1] = StepOf(ids, R[0], ls[1]) /\ R[2] = StepOf(ids, R[1], ls[2])
        /\ R[3] = StepOf(ids, R[2], ls[3]) /\ R[4] = StepOf(ids, R[3], ls[4])
    BY <2>1, <1>6, <1>7, <1>8
  <2> HIDE DEF s, t
  <2>3. \A k \in 1..4 : R[k] = StepOf(ids, R[k-1], ls[k])
    <3> TAKE k \in 1..4
    <3>1. k = 1 \/ k = 2 \/ k = 3 \/ k = 4
      OBVIOUS
    <3>2. 1 - 1 = 0 /\ 2 - 1 = 1 /\ 3 - 1 = 2 /\ 4 - 1 = 3
      OBVIOUS
    <3> QED
      BY <3>1, <3>2, <2>2
  <2> QED
    BY <2>1, <2>3, <1>1 DEF Traces
<1>10. t.group = g /\ t.current = r.current /\ t.inProjects = j /\ t.out = r.out
  BY AtFields
<1>11. t \in Reader
  <2>1. r.current \in Partial /\ r.out \in Seq(Entry) /\ j \in BOOLEAN
    BY <1>5, <1>7 DEF Reader, Yes
  <2> QED
    BY <2>1, AtTyped
<1>12. HasRead(t, w)
  <2> HIDE DEF t
  <2> QED
    BY <1>10, <1>11 DEF HasRead
<1>13. Reads(ids, r, ls, t)
  <2> HIDE DEF t, R
  <2> QED
    BY <1>9 DEF Reads
<1> HIDE DEF t
<1> QED
  BY <1>2, <1>4, <1>7, <1>10, <1>12, <1>13 DEF ls

\* The reader goes through a group: its projects are what it has read since.
LEMMA GroupRead ==
  ASSUME NEW ids, Ids(ids), NEW g \in GroupSet, NEW r, NEW w \in Seq(ProjectSet), HasRead(r, w)
  PROVE  /\ GroupLines(g) \in Seq(Lines) /\ NoIdLine(GroupLines(g))
         /\ WithIds(ids, g.projects) \in Seq(ProjectSet)
         /\ \E t : Reads(ids, r, GroupLines(g), t) /\ HasRead(t, w \o WithIds(ids, g.projects))
<1> DEFINE ps == g.projects
           ss == [k \in DOMAIN ps |-> ProjectLines(ps[k])]
           N == Len(ps)
           h == HeaderLines(g.name)
           q == WithIds(ids, ps)
<1>0. /\ g.name \in Groups /\ ps \in Seq(ProjectSet) /\ N \in Nat /\ DOMAIN ps = 1..N
      /\ \A k \in 1..N : ps[k] \in ProjectSet
  BY DEF GroupSet
<1>2. h \in Seq(Lines) /\ NoIdLine(h)
  BY <1>0, HeaderRead
<1>3. PICK s : Reads(ids, r, h, s) /\ HasRead(s, w) /\ s.group \in Groups /\ Yes(s.inProjects)
  BY <1>0, HeaderRead
<1>4. /\ \A k \in 1..N : q[k] = WithId(ids, ps[k]) /\ q[k] \in ProjectSet
      /\ q \in Seq(ProjectSet) /\ Len(q) = N /\ q = [k \in 1..N |-> q[k]]
  <2>1. \A k \in 1..N : WithId(ids, ps[k]) \in ProjectSet
    BY <1>0, WithIdTyped
  <2> QED
    BY <1>0, <2>1 DEF WithIds
<1>5. /\ \A k \in 1..N : ss[k] = ProjectLines(ps[k]) /\ ss[k] \in Seq(Lines) /\ NoIdLine(ss[k])
      /\ ss \in Seq(Seq(Lines)) /\ Len(ss) = N
  <2>1. \A k \in 1..N : ProjectLines(ps[k]) \in Seq(Lines) /\ NoIdLine(ProjectLines(ps[k]))
    BY <1>0, <1>3, ProjectRead
  <2> HIDE DEF Lines
  <2> QED
    BY <1>0, <2>1
<1>6. GroupLines(g) = h \o FlattenSeq(ss)
  BY DEF GroupLines, HeaderLines
<1>16. N \in Nat
  BY <1>0
<1> HIDE DEF ss, ps, N, h, q
<1>7. PICK F \in [0..N -> Seq(Lines)] :
        F[0] = <<>> /\ (\A k \in 1..N : F[k] = F[k-1] \o ss[k]) /\ F[N] = FlattenSeq(ss)
  BY <1>5, Flattened
<1> DEFINE Upto(n) == w \o Cut(q, n)
           Good(n, t) == /\ Reads(ids, s, F[n], t) /\ HasRead(t, Upto(n))
                         /\ t.group \in Groups /\ Yes(t.inProjects)
           S == {n \in Nat : n <= N => NoIdLine(F[n]) /\ \E t : Good(n, t)}
<1>8. 0 \in S
  <2>1. Upto(0) = w
    BY DEF Cut
  <2>2. NoIdLine(F[0])
    BY <1>7 DEF NoIdLine
  <2>3. Good(0, s)
    BY <2>1, <1>3, <1>7, ReadsNothing
  <2> QED
    BY <2>2, <2>3
<1>9. ASSUME NEW n \in Nat, n \in S PROVE n + 1 \in S
  <2> SUFFICES ASSUME n + 1 <= N PROVE NoIdLine(F[n+1]) /\ \E t : Good(n+1, t)
    OBVIOUS
  <2>1. n \in 0..N /\ n + 1 \in 1..N /\ (n + 1) - 1 = n
    BY <1>16
  <2>2. NoIdLine(F[n]) /\ F[n] \in Seq(Lines) /\ F[n+1] = F[n] \o ss[n+1]
    <3>1. NoIdLine(F[n])
      BY <1>9, <2>1
    <3> HIDE DEF S, Good
    <3> QED
      BY <3>1, <1>7, <2>1
  <2>3. PICK u : Good(n, u)
    <3> HIDE DEF Good
    <3> QED
      BY <1>9, <2>1
  <2>4. Upto(n) \in Seq(ProjectSet) /\ Upto(n+1) = Append(Upto(n), q[n+1])
    BY <1>4, OneMore
  <2> HIDE DEF S, Upto
  <2>5. PICK t : /\ Reads(ids, u, ss[n+1], t) /\ HasRead(t, Append(Upto(n), q[n+1]))
                 /\ t.group \in Groups /\ Yes(t.inProjects)
    <3>1. ps[n+1] \in ProjectSet /\ ss[n+1] = ProjectLines(ps[n+1]) /\ q[n+1] = WithId(ids, ps[n+1])
      BY <1>0, <1>4, <1>5, <2>1 DEF ps, N
    <3> QED
      BY <3>1, <2>3, <2>4, ProjectRead
  <2>6. Reads(ids, s, F[n+1], t)
    BY <2>1, <2>2, <2>3, <2>5, <1>5, ReadsBoth
  <2>7. NoIdLine(F[n+1])
    BY <2>1, <2>2, <1>5, NoIdBoth
  <2>8. Good(n+1, t)
    BY <2>4, <2>5, <2>6
  <2> HIDE DEF Good
  <2> QED
    BY <2>7, <2>8
<1>10. Nat \subseteq S
  <2> HIDE DEF S
  <2> QED
    BY <1>8, <1>9, Induction
<1>11. N \in S /\ N \in Nat /\ N \in 0..N
  BY <1>10, <1>16
<1>12. PICK t : Good(N, t)
  <2> HIDE DEF Good
  <2> QED
    BY <1>11
<1>13. NoIdLine(F[N]) /\ F[N] \in Seq(Lines)
  <2>1. NoIdLine(F[N])
    BY <1>11
  <2> QED
    BY <2>1, <1>7, <1>11
<1>14. Upto(N) = w \o q
  BY <1>4 DEF Cut
<1> HIDE DEF S, Upto
<1>15. Reads(ids, r, h \o F[N], t) /\ HasRead(t, w \o q)
  BY <1>2, <1>3, <1>12, <1>13, <1>14, ReadsBoth
<1> QED
  BY <1>2, <1>4, <1>6, <1>7, <1>13, <1>15, NoIdBoth DEF q, ps

\* All projects of all groups, with their ids.
ProjectsOf(ids, groups) ==
  FlattenSeq([k \in DOMAIN groups |-> WithIds(ids, groups[k].projects)])

\* Projects with their ids, one by one.
LEMMA WithIdsTyped ==
  ASSUME NEW ids, Ids(ids), NEW ps \in Seq(ProjectSet)
  PROVE  /\ WithIds(ids, ps) \in Seq(ProjectSet)
         /\ Len(WithIds(ids, ps)) = Len(ps)
         /\ \A k \in 1..Len(ps) : WithIds(ids, ps)[k] = WithId(ids, ps[k])
<1>1. \A k \in DOMAIN ps : WithId(ids, ps[k]) \in ProjectSet
  BY WithIdTyped
<1> QED
  BY <1>1 DEF WithIds

\* At the start nothing has been read.
LEMMA StartRead == HasRead(Start, <<>>)
<1>1. Nobody \in Partial
  BY DEF Nobody, ProjectOf, Partial
<1>2. Start \in Reader
  <2>1. FALSE \in BOOLEAN /\ <<>> \in Seq(Entry)
    OBVIOUS
  <2> QED
    BY <1>1, <2>1 DEF Start, Reader
<1> QED
  BY <1>2 DEF HasRead, Start

\* The reader goes through a rendered body: it has read all projects of all
\* groups, in order, the last of a group under the name of the next one.
LEMMA RenderRead ==
  ASSUME NEW ids, Ids(ids), NEW groups \in Seq(GroupSet)
  PROVE  /\ Render(groups) \in Seq(Lines) /\ NoIdLine(Render(groups))
         /\ ProjectsOf(ids, groups) \in Seq(ProjectSet)
         /\ \E t : Reads(ids, Start, Render(groups), t) /\ HasRead(t, ProjectsOf(ids, groups))
<1> DEFINE N == Len(groups)
           ss == [k \in DOMAIN groups |-> GroupLines(groups[k])]
           qq == [k \in DOMAIN groups |-> WithIds(ids, groups[k].projects)]
<1>1. N \in Nat /\ DOMAIN groups = 1..N /\ \A k \in 1..N : groups[k] \in GroupSet
  OBVIOUS
<1>2. \A k \in 1..N : /\ qq[k] = WithIds(ids, groups[k].projects)
                      /\ qq[k] \in Seq(ProjectSet)
  BY <1>1, WithIdsTyped DEF GroupSet
<1>3. \A k \in 1..N : /\ ss[k] = GroupLines(groups[k])
                      /\ ss[k] \in Seq(Lines) /\ NoIdLine(ss[k])
  <2>1. <<>> \in Seq(ProjectSet)
    OBVIOUS
  <2>2. \A k \in 1..N : GroupLines(groups[k]) \in Seq(Lines) /\ NoIdLine(GroupLines(groups[k]))
    BY <1>1, <2>1, StartRead, GroupRead
  <2> QED
    BY <1>1, <2>2
<1>4. ss \in Seq(Seq(Lines)) /\ Len(ss) = N /\ qq \in Seq(Seq(ProjectSet)) /\ Len(qq) = N
  BY <1>1, <1>2, <1>3
<1>5. Render(groups) = FlattenSeq(ss) /\ ProjectsOf(ids, groups) = FlattenSeq(qq)
  BY DEF Render, ProjectsOf
<1> HIDE DEF ss, qq, N
<1>6. PICK F \in [0..N -> Seq(Lines)] :
        F[0] = <<>> /\ (\A k \in 1..N : F[k] = F[k-1] \o ss[k]) /\ F[N] = FlattenSeq(ss)
  BY <1>4, Flattened
<1>7. PICK P \in [0..N -> Seq(ProjectSet)] :
        P[0] = <<>> /\ (\A k \in 1..N : P[k] = P[k-1] \o qq[k]) /\ P[N] = FlattenSeq(qq)
  BY <1>4, Flattened
<1> DEFINE Good(n, t) == Reads(ids, Start, F[n], t) /\ HasRead(t, P[n])
           S == {n \in Nat : n <= N => NoIdLine(F[n]) /\ \E t : Good(n, t)}
<1>8. 0 \in S
  <2>1. NoIdLine(F[0])
    BY <1>6 DEF NoIdLine
  <2>2. Good(0, Start)
    BY <1>6, <1>7, ReadsNothing, StartRead
  <2> QED
    BY <2>1, <2>2
<1>9. ASSUME NEW n \in Nat, n \in S PROVE n + 1 \in S
  <2> SUFFICES ASSUME n + 1 <= N PROVE NoIdLine(F[n+1]) /\ \E t : Good(n+1, t)
    OBVIOUS
  <2>1. n \in 0..N /\ n + 1 \in 1..N /\ (n + 1) - 1 = n
    BY <1>1
  <2>2. NoIdLine(F[n])
    BY <1>9, <2>1
  <2>3. PICK u : Good(n, u)
    <3> HIDE DEF Good
    <3> QED
      BY <1>9, <2>1
  <2> HIDE DEF S
  <2>4. /\ F[n] \in Seq(Lines) /\ F[n+1] = F[n] \o ss[n+1]
        /\ P[n] \in Seq(ProjectSet) /\ P[n+1] = P[n] \o qq[n+1]
    <3> HIDE DEF Good
    <3> QED
      BY <1>6, <1>7, <2>1
  <2>5. PICK t : Reads(ids, u, ss[n+1], t) /\ HasRead(t, P[n] \o qq[n+1])
    <3>1. groups[n+1] \in GroupSet /\ ss[n+1] = GroupLines(groups[n+1])
          /\ qq[n+1] = WithIds(ids, groups[n+1].projects)
      BY <1>1, <1>2, <1>3, <2>1
    <3>2. P[n] \in Seq(ProjectSet) /\ HasRead(u, P[n])
      BY <2>3, <2>4
    <3>3. PICK t : /\ Reads(ids, u, GroupLines(groups[n+1]), t)
                   /\ HasRead(t, P[n] \o WithIds(ids, groups[n+1].projects))
      BY <3>1, <3>2, GroupRead
    <3> QED
      BY <3>1, <3>3
  <2>6. Reads(ids, Start, F[n+1], t)
    BY <2>1, <2>3, <2>4, <2>5, <1>3, ReadsBoth
  <2>7. NoIdLine(F[n+1])
    BY <2>1, <2>2, <2>4, <1>3, NoIdBoth
  <2>8. Good(n+1, t)
    BY <2>4, <2>5, <2>6
  <2> HIDE DEF Good
  <2> QED
    BY <2>7, <2>8
<1>10. Nat \subseteq S
  <2> HIDE DEF S
  <2> QED
    BY <1>8, <1>9, Induction
<1>11. N \in S /\ N \in 0..N
  BY <1>1, <1>10
<1>12. PICK t : Good(N, t)
  <2> HIDE DEF Good
  <2> QED
    BY <1>11
<1>13. NoIdLine(F[N])
  BY <1>11
<1>14. F[N] \in Seq(Lines) /\ P[N] \in Seq(ProjectSet)
  <2> HIDE DEF S, Good
  <2> QED
    BY <1>6, <1>7, <1>11
<1> HIDE DEF S
<1> QED
  BY <1>5, <1>6, <1>7, <1>12, <1>13, <1>14

\* What is read back from a body that was given ids.
LEMMA ReadBackWithIds ==
  ASSUME NEW ids, Ids(ids), NEW groups \in Seq(GroupSet)
  PROVE  LET body == SetIds(Render(groups), ids)
         IN  /\ Extract(body) \in Seq(Entry)
             /\ Len(Extract(body)) = Len(ProjectsOf(ids, groups))
             /\ \A i \in 1..Len(ProjectsOf(ids, groups)) :
                  Extract(body)[i].project = ProjectsOf(ids, groups)[i]
<1> DEFINE body == SetIds(Render(groups), ids)
           w == ProjectsOf(ids, groups)
<1>1. PICK t : Reads(ids, Start, Render(groups), t) /\ HasRead(t, w)
  BY RenderRead
<1>2. Render(groups) \in Seq(Lines) /\ NoIdLine(Render(groups)) /\ w \in Seq(ProjectSet)
  BY RenderRead
<1>3. body \in Seq(Lines) /\ Reads(<<>>, Start, body, t)
  BY <1>1, <1>2, SetIdsReads
<1> HIDE DEF w, body
<1>4. FoldLeft(Read, Start, body) = t
  BY <1>3, ReadsFold
<1>5. Extract(body) = Push(t).out
  BY <1>4 DEF Extract
<1>6. Extract(body) \in Seq(Entry) /\ Len(Extract(body)) = Len(w)
      /\ \A i \in 1..Len(w) : Extract(body)[i].project = w[i]
  BY <1>1, <1>2, <1>5, Pushed
<1> QED
  BY <1>6 DEF w, body

\* What create-release-pr reads back at once.
LEMMA ReadBackPlain ==
  ASSUME NEW groups \in Seq(GroupSet)
  PROVE  LET body == Render(groups)
         IN  /\ Extract(body) \in Seq(Entry)
             /\ Len(Extract(body)) = Len(ProjectsOf(<<>>, groups))
             /\ \A i \in 1..Len(ProjectsOf(<<>>, groups)) :
                  Extract(body)[i].project = ProjectsOf(<<>>, groups)[i]
<1> DEFINE body == Render(groups)
           w == ProjectsOf(<<>>, groups)
<1>0. Ids(<<>>)
  BY DEF Ids
<1>1. PICK t : Reads(<<>>, Start, body, t) /\ HasRead(t, w)
  BY <1>0, RenderRead
<1>2. body \in Seq(Lines) /\ w \in Seq(ProjectSet)
  BY <1>0, RenderRead
<1> HIDE DEF w, body
<1>4. FoldLeft(Read, Start, body) = t
  BY <1>1, <1>2, ReadsFold
<1>5. Extract(body) = Push(t).out
  BY <1>4 DEF Extract
<1>6. Extract(body) \in Seq(Entry) /\ Len(Extract(body)) = Len(w)
      /\ \A i \in 1..Len(w) : Extract(body)[i].project = w[i]
  BY <1>1, <1>2, <1>5, Pushed
<1> QED
  BY <1>6 DEF w, body

\* The elements of a flattened sequence are those of its parts; when no two of
\* these are the same, no element comes twice.
Parts(w, ss) ==
  /\ \A i \in 1..Len(w) : \E k \in 1..Len(ss) : \E j \in 1..Len(ss[k]) : w[i] = ss[k][j]
  /\ \A k \in 1..Len(ss) : \A j \in 1..Len(ss[k]) : \E i \in 1..Len(w) : w[i] = ss[k][j]
Once(ss) == \A k, l \in 1..Len(ss) : \A i \in 1..Len(ss[k]), j \in 1..Len(ss[l]) :
              ss[k][i] = ss[l][j] => k = l /\ i = j
Sole(w)  == \A i, j \in 1..Len(w) : w[i] = w[j] => i = j

\* A flattened sequence has the elements of its parts, each as often.
LEMMA FlattenElements ==
  ASSUME NEW X, NEW ss \in Seq(Seq(X))
  PROVE  /\ FlattenSeq(ss) \in Seq(X)
         /\ Parts(FlattenSeq(ss), ss)
         /\ Once(ss) => Sole(FlattenSeq(ss))
<1> DEFINE N == Len(ss)
           From(w, n) == \A i \in 1..Len(w) :
                     \E k \in 1..n : \E j \in 1..Len(ss[k]) : w[i] = ss[k][j]
           Into(w, n) == \A k \in 1..n : \A j \in 1..Len(ss[k]) :
                     \E i \in 1..Len(w) : w[i] = ss[k][j]
<1>1. N \in Nat /\ \A k \in 1..N : ss[k] \in Seq(X)
  OBVIOUS
<1> HIDE DEF N
<1>2. PICK F \in [0..N -> Seq(X)] :
        F[0] = <<>> /\ (\A k \in 1..N : F[k] = F[k-1] \o ss[k]) /\ F[N] = FlattenSeq(ss)
  BY Flattened DEF N
<1> DEFINE Good(n) == From(F[n], n) /\ Into(F[n], n) /\ (Once(ss) => Sole(F[n]))
           S == {n \in Nat : n <= N => Good(n)}
<1>3. 0 \in S
  BY <1>2 DEF Sole
<1>4. ASSUME NEW n \in Nat, n \in S PROVE n + 1 \in S
  <2> SUFFICES ASSUME n + 1 <= N PROVE Good(n+1)
    OBVIOUS
  <2>1. n \in 0..N /\ n + 1 \in 1..N /\ (n + 1) - 1 = n
    BY <1>1
  <2>2. Good(n)
    <3> HIDE DEF Good
    <3> QED
      BY <1>4, <2>1
  <2> HIDE DEF S
  <2> DEFINE w == F[n]
             x == ss[n+1]
             y == F[n+1]
             L == Len(w)
  <2>3. w \in Seq(X) /\ x \in Seq(X) /\ y = w \o x
    <3> HIDE DEF Good
    <3> QED
      BY <1>1, <1>2, <2>1
  <2>4. From(w, n) /\ Into(w, n) /\ (Once(ss) => Sole(w))
    BY <2>2
  <2> HIDE DEF Good, w, y, x, From, Into
  <2>5. /\ L \in Nat /\ Len(x) \in Nat /\ Len(y) = L + Len(x)
        /\ \A i \in 1..L : y[i] = w[i]
        /\ \A i \in 1..Len(x) : y[L + i] = x[i]
    BY <2>3
  <2> HIDE DEF L
  <2>6. \A i \in 1..Len(y) : \/ i \in 1..L /\ y[i] = w[i]
                             \/ i - L \in 1..Len(x) /\ y[i] = x[i - L]
    <3> TAKE i \in 1..Len(y)
    <3>1. i \in 1..L \/ (i - L \in 1..Len(x) /\ L + (i - L) = i)
      BY <2>5
    <3> QED
      BY <3>1, <2>5
  <2>7. From(y, n+1)
    <3> SUFFICES ASSUME NEW i \in 1..Len(y)
                 PROVE  \E k \in 1..(n+1) : \E j \in 1..Len(ss[k]) : y[i] = ss[k][j]
      BY DEF From
    <3>1. CASE i \in 1..L /\ y[i] = w[i]
      <4>1. PICK k \in 1..n : \E j \in 1..Len(ss[k]) : w[i] = ss[k][j]
        BY <3>1, <2>4 DEF From, L
      <4>2. k \in 1..(n+1)
        OBVIOUS
      <4> QED
        BY <4>1, <4>2, <3>1
    <3>2. CASE i - L \in 1..Len(x) /\ y[i] = x[i - L]
      <4>1. n + 1 \in 1..(n+1)
        OBVIOUS
      <4> QED
        BY <4>1, <3>2 DEF x
    <3> QED
      BY <3>1, <3>2, <2>6
  <2>8. Into(y, n+1)
    <3> SUFFICES ASSUME NEW k \in 1..(n+1), NEW j \in 1..Len(ss[k])
                 PROVE  \E i \in 1..Len(y) : y[i] = ss[k][j]
      BY DEF Into
    <3>1. CASE k = n + 1
      <4>1. j \in 1..Len(x) /\ L + j \in 1..Len(y)
        BY <3>1, <2>5 DEF x
      <4>2. y[L + j] = x[j] /\ x[j] = ss[k][j]
        BY <3>1, <4>1, <2>5 DEF x
      <4> QED
        BY <4>1, <4>2
    <3>2. CASE k # n + 1
      <4>1. k \in 1..n
        BY <3>2
      <4>2. PICK i \in 1..Len(w) : w[i] = ss[k][j]
        BY <4>1, <2>4 DEF Into
      <4>3. i \in 1..L /\ i \in 1..Len(y)
        BY <2>5 DEF L
      <4> QED
        BY <4>2, <4>3, <2>5
    <3> QED
      BY <3>1, <3>2
  <2>9. ASSUME Once(ss) PROVE Sole(y)
    <3>1. Sole(w)
      BY <2>4, <2>9
    <3> SUFFICES ASSUME NEW i \in 1..Len(y), NEW j \in 1..Len(y), y[i] = y[j] PROVE i = j
      BY DEF Sole
    <3>0. i \in Int /\ j \in Int
      OBVIOUS
    <3>2. CASE i \in 1..L /\ j \in 1..L
      BY <3>1, <3>2, <2>5 DEF Sole, L
    <3>3. CASE i - L \in 1..Len(x) /\ j - L \in 1..Len(x) /\ y[i] = x[i-L] /\ y[j] = x[j-L]
      <4>5. n + 1 \in 1..Len(ss)
        BY <2>1 DEF N
      <4>2. \A a, b \in 1..Len(ss[n+1]) : ss[n+1][a] = ss[n+1][b] => a = b
        BY ONLY <2>9, <4>5 DEF Once
      <4>3. \A a, b \in 1..Len(x) : x[a] = x[b] => a = b
        BY <4>2 DEF x
      <4>1. i - L = j - L
        BY <3>3, <4>3
      <4> QED
        BY <3>0, <4>1, <2>5
    <3>4. ASSUME NEW a \in 1..L, NEW b \in 1..Len(x), w[a] = x[b] PROVE FALSE
      <4>1. PICK k \in 1..n : \E c \in 1..Len(ss[k]) : w[a] = ss[k][c]
        BY <2>4 DEF From, L
      <4>4. PICK c \in 1..Len(ss[k]) : w[a] = ss[k][c]
        BY <4>1
      <4>2. k \in 1..N /\ k # n + 1
        BY <2>1, <1>1
      <4>3. ss[k][c] = ss[n+1][b] /\ b \in 1..Len(ss[n+1])
        BY <3>4, <4>4 DEF x
      <4> QED
        BY <4>2, <4>3, <2>1, <2>9 DEF Once, N
    <3>5. CASE i \in 1..L /\ j - L \in 1..Len(x) /\ y[j] = x[j-L]
      BY <3>4, <3>5, <2>5
    <3>6. CASE j \in 1..L /\ i - L \in 1..Len(x) /\ y[i] = x[i-L]
      BY <3>4, <3>6, <2>5
    <3> QED
      BY <3>2, <3>3, <3>5, <3>6, <2>6
  <2> QED
    BY <2>7, <2>8, <2>9 DEF Good, y
<1>5. Nat \subseteq S
  <2> HIDE DEF S
  <2> QED
    BY <1>3, <1>4, Induction
<1>6. Good(N)
  <2> HIDE DEF Good
  <2> QED
    BY <1>1, <1>5
<1>7. F[N] \in Seq(X)
  <2> HIDE DEF Good, S
  <2> QED
    BY <1>1, <1>2
<1> QED
  BY <1>2, <1>6, <1>7 DEF N, Parts

(* The groups that create-release-pr renders: those of GroupSeq with their    *)
(* projects, of one version each.                                             *)
Shaped(groups) ==
  /\ groups \in Seq(GroupSet)
  /\ Len(groups) = Len(GroupSeq)
  /\ \A k \in 1..Len(GroupSeq) :
       /\ Len(groups[k].projects) = Len(GroupSeq[k].names)
       /\ \A j \in 1..Len(GroupSeq[k].names) :
            groups[k].projects[j].name = GroupSeq[k].names[j]
       /\ \A i, j \in 1..Len(GroupSeq[k].names) :
            groups[k].projects[i].version = groups[k].projects[j].version

(* The metadata of a PR that names every project once, in the version of its  *)
(* group and with the id d.                                                   *)
Whole(meta, d) ==
  /\ meta \in Seq(Entry)
  /\ Len(meta) = Cardinality(Names)
  /\ {p.name : p \in Listed(meta)} = Names
  /\ \A p \in Listed(meta) : p \in ProjectSet /\ p.id = d
  /\ \A k \in DOMAIN GroupSeq : \A p, q \in Listed(meta) :
       p.name \in NamesOf(k) /\ q.name \in NamesOf(k) => p.version = q.version

(* It has what the groups had.                                                *)
CopyOf(meta, groups) ==
  \A p \in Listed(meta) : \E k \in DOMAIN GroupSeq : \E j \in DOMAIN GroupSeq[k].names :
    p.name = GroupSeq[k].names[j] /\ p.version = groups[k].projects[j].version

\* Ids that give every project the id d.
Same(ids, d) ==
  \/ DOMAIN ids \cap Names = {} /\ d = 0
  \/ Names \subseteq DOMAIN ids /\ \A n \in Names : ids[n] = d

\* The groups of the monorepo.
LEMMA GroupSeqTyped ==
  /\ Len(GroupSeq) \in Nat /\ DOMAIN GroupSeq = 1..Len(GroupSeq)
  /\ \A k \in 1..Len(GroupSeq) : /\ GroupSeq[k].name \in Groups
                                 /\ GroupSeq[k].names \in Seq(Names)
                                 /\ Len(GroupSeq[k].names) \in Nat
                                 /\ DOMAIN GroupSeq[k].names = 1..Len(GroupSeq[k].names)
                                 /\ \A j \in 1..Len(GroupSeq[k].names) : GroupSeq[k].names[j] \in Names
<1> DEFINE G == [name : Groups, names : Seq(Names)]
<1>1. GroupSeq \in Seq(G)
  BY FlowAssumption
<1>2. \A g \in G : /\ g.name \in Groups /\ g.names \in Seq(Names)
                   /\ Len(g.names) \in Nat /\ DOMAIN g.names = 1..Len(g.names)
                   /\ \A j \in 1..Len(g.names) : g.names[j] \in Names
  OBVIOUS
<1> HIDE DEF G
<1>3. /\ Len(GroupSeq) \in Nat /\ DOMAIN GroupSeq = 1..Len(GroupSeq)
      /\ \A k \in 1..Len(GroupSeq) : GroupSeq[k] \in G
  BY <1>1
<1> QED
  BY <1>2, <1>3

\* Every project is in one group, at one place.
LEMMA NamesOnce ==
  /\ \A n \in Names : \E k \in 1..Len(GroupSeq) : \E j \in 1..Len(GroupSeq[k].names) :
       n = GroupSeq[k].names[j]
  /\ \A k, l \in 1..Len(GroupSeq) :
       \A i \in 1..Len(GroupSeq[k].names), j \in 1..Len(GroupSeq[l].names) :
         GroupSeq[k].names[i] = GroupSeq[l].names[j] => k = l /\ i = j
<1>1. \A n \in Names : \E k \in 1..Len(GroupSeq) : \E j \in 1..Len(GroupSeq[k].names) :
        n = GroupSeq[k].names[j]
  BY GroupSeqTyped DEF Names, NamesOf
<1>2. \A k, l \in 1..Len(GroupSeq) :
       \A i \in 1..Len(GroupSeq[k].names), j \in 1..Len(GroupSeq[l].names) :
         GroupSeq[k].names[i] = GroupSeq[l].names[j] => k = l /\ i = j
  <2>1. \A k, l \in DOMAIN GroupSeq :
          \A i \in DOMAIN GroupSeq[k].names, j \in DOMAIN GroupSeq[l].names :
            GroupSeq[k].names[i] = GroupSeq[l].names[j] => k = l /\ i = j
    BY FlowAssumption
  <2> QED
    BY <2>1, GroupSeqTyped
<1> QED
  BY <1>1, <1>2

\* Metadata that list the projects of the groups in order name every project
\* once, in the version of its group.
LEMMA ReadWhole ==
  ASSUME NEW groups, Shaped(groups), NEW ids, Ids(ids), NEW d, Same(ids, d),
         NEW meta \in Seq(Entry), Len(meta) = Len(ProjectsOf(ids, groups)),
         \A i \in 1..Len(ProjectsOf(ids, groups)) : meta[i].project = ProjectsOf(ids, groups)[i]
  PROVE  Whole(meta, d) /\ CopyOf(meta, groups)
<1> DEFINE N == Len(GroupSeq)
           M(k) == Len(GroupSeq[k].names)
           qq == [k \in DOMAIN groups |-> WithIds(ids, groups[k].projects)]
           P == ProjectsOf(ids, groups)
<1>1. /\ N \in Nat /\ DOMAIN groups = 1..N /\ Len(groups) = N
      /\ \A k \in 1..N : groups[k] \in GroupSet
  BY GroupSeqTyped DEF Shaped
<1>2. \A k \in 1..N : groups[k].projects \in Seq(ProjectSet) /\ Len(groups[k].projects) = M(k)
                      /\ \A j \in 1..M(k) : groups[k].projects[j] \in ProjectSet
  <2> TAKE k \in 1..N
  <2>1. groups[k].projects \in Seq(ProjectSet) /\ Len(groups[k].projects) = M(k)
    BY <1>1 DEF Shaped, GroupSet
  <2> QED
    BY <2>1
<1>3. \A k \in 1..N : /\ qq[k] \in Seq(ProjectSet) /\ Len(qq[k]) = M(k)
                      /\ \A j \in 1..M(k) : qq[k][j] = WithId(ids, groups[k].projects[j])
  <2> TAKE k \in 1..N
  <2>1. qq[k] = WithIds(ids, groups[k].projects)
    BY <1>1
  <2> QED
    BY <2>1, <1>2, WithIdsTyped
<1>4. qq \in Seq(Seq(ProjectSet)) /\ Len(qq) = N
  BY <1>1, <1>3
<1>5. P = FlattenSeq(qq)
  BY DEF ProjectsOf
<1>6. \A k \in 1..N : \A j \in 1..M(k) :
        /\ qq[k][j] \in ProjectSet
        /\ qq[k][j].name = GroupSeq[k].names[j]
        /\ qq[k][j].version = groups[k].projects[j].version
        /\ qq[k][j].id = d
  <2> SUFFICES ASSUME NEW k \in 1..N, NEW j \in 1..M(k)
               PROVE  /\ qq[k][j] \in ProjectSet
                      /\ qq[k][j].name = GroupSeq[k].names[j]
                      /\ qq[k][j].version = groups[k].projects[j].version
                      /\ qq[k][j].id = d
    OBVIOUS
  <2> DEFINE p == groups[k].projects[j]
  <2>1. p \in ProjectSet /\ qq[k][j] = WithId(ids, p)
    BY <1>2, <1>3
  <2>2. p.name = GroupSeq[k].names[j] /\ p.name \in Names
    BY GroupSeqTyped DEF Shaped
  <2> HIDE DEF p, qq
  <2>3. WithId(ids, p) \in ProjectSet
        /\ WithId(ids, p) = ProjectOf(p.name, p.version, p.prerelease,
                                      IF p.name \in DOMAIN ids THEN ids[p.name] ELSE 0)
    BY <2>1, WithIdTyped
  <2>4. (IF p.name \in DOMAIN ids THEN ids[p.name] ELSE 0) = d
    BY <2>2 DEF Same
  <2>5. /\ WithId(ids, p).name = p.name /\ WithId(ids, p).version = p.version
        /\ WithId(ids, p).id = d
    BY <2>3, <2>4 DEF ProjectOf
  <2> QED
    BY <2>1, <2>2, <2>3, <2>5 DEF p
<1> HIDE DEF qq, P, N, M
<1>16. \A k, l \in 1..N : \A i \in 1..M(k), j \in 1..M(l) :
         GroupSeq[k].names[i] = GroupSeq[l].names[j] => k = l /\ i = j
  BY NamesOnce DEF N, M
<1>17. \A n \in Names : \E k \in 1..N : \E j \in 1..M(k) : n = GroupSeq[k].names[j]
  BY NamesOnce DEF N, M
<1>18. \A k \in 1..N : \A j \in 1..M(k) : GroupSeq[k].names[j] \in Names
  BY GroupSeqTyped DEF N, M
<1>7. /\ P \in Seq(ProjectSet)
      /\ \A i \in 1..Len(P) : \E k \in 1..N : \E j \in 1..M(k) : P[i] = qq[k][j]
      /\ \A k \in 1..N : \A j \in 1..M(k) : \E i \in 1..Len(P) : P[i] = qq[k][j]
      /\ \A i, j \in 1..Len(P) : P[i] = P[j] => i = j
  <2>1. \A k, l \in 1..N : \A i \in 1..Len(qq[k]), j \in 1..Len(qq[l]) :
          qq[k][i] = qq[l][j] => k = l /\ i = j
    <3> SUFFICES ASSUME NEW k \in 1..N, NEW l \in 1..N, NEW i \in 1..M(k), NEW j \in 1..M(l),
                        qq[k][i] = qq[l][j]
                 PROVE  k = l /\ i = j
      BY <1>3
    <3>1. GroupSeq[k].names[i] = GroupSeq[l].names[j]
      BY <1>6
    <3> QED
      BY <3>1, <1>16
  <2>2. P \in Seq(ProjectSet)
    BY <1>4, <1>5, FlattenElements
  <2>3. Parts(P, qq) /\ (Once(qq) => Sole(P))
    BY <1>4, <1>5, FlattenElements
  <2>4. Once(qq)
    BY <1>4, <2>1 DEF Once
  <2>5. \A i, j \in 1..Len(P) : P[i] = P[j] => i = j
    BY <2>3, <2>4 DEF Sole
  <2>6. \A i \in 1..Len(P) : \E k \in 1..N : \E j \in 1..M(k) : P[i] = qq[k][j]
    BY <2>3, <1>3, <1>4 DEF Parts
  <2>7. \A k \in 1..N : \A j \in 1..M(k) : \E i \in 1..Len(P) : P[i] = qq[k][j]
    BY <2>3, <1>3, <1>4 DEF Parts
  <2> QED
    BY <2>2, <2>5, <2>6, <2>7
<1>8. Listed(meta) = {P[i] : i \in 1..Len(P)}
  <2>1. DOMAIN meta = 1..Len(P) /\ \A i \in 1..Len(P) : meta[i].project = P[i]
    BY DEF P
  <2> QED
    BY <2>1 DEF Listed
<1>9. \A p \in Listed(meta) : \E k \in 1..N : \E j \in 1..M(k) : p = qq[k][j]
  BY <1>7, <1>8
<1>10. \A k \in 1..N : \A j \in 1..M(k) : qq[k][j] \in Listed(meta)
  BY <1>7, <1>8
<1>11. {p.name : p \in Listed(meta)} = Names
  <2>1. \A p \in Listed(meta) : p.name \in Names
    BY <1>9, <1>6, <1>18
  <2>2. \A n \in Names : \E p \in Listed(meta) : p.name = n
    <3> TAKE n \in Names
    <3>1. PICK k \in 1..N : \E j \in 1..M(k) : n = GroupSeq[k].names[j]
      BY <1>17
    <3>2. PICK j \in 1..M(k) : n = GroupSeq[k].names[j]
      BY <3>1
    <3> QED
      BY <3>2, <1>6, <1>10
  <2> QED
    BY <2>1, <2>2
<1>12. Len(meta) = Cardinality(Names)
  <2> DEFINE f == [i \in 1..Len(P) |-> P[i].name]
  <2>1. Len(P) \in Nat /\ Len(meta) = Len(P)
    BY <1>7 DEF P
  <2>2. \A i \in 1..Len(P) : P[i] \in Listed(meta)
    BY <1>8
  <2>3. f \in [1..Len(P) -> Names]
    BY <2>2, <1>11
  <2>4. \A n \in Names : \E i \in 1..Len(P) : f[i] = n
    BY <1>8, <1>11
  <2>5. \A i, j \in 1..Len(P) : f[i] = f[j] => i = j
    <3> SUFFICES ASSUME NEW i \in 1..Len(P), NEW j \in 1..Len(P), P[i].name = P[j].name
                 PROVE  i = j
      OBVIOUS
    <3>1. PICK k \in 1..N : \E a \in 1..M(k) : P[i] = qq[k][a]
      BY <1>7
    <3>2. PICK a \in 1..M(k) : P[i] = qq[k][a]
      BY <3>1
    <3>3. PICK l \in 1..N : \E b \in 1..M(l) : P[j] = qq[l][b]
      BY <1>7
    <3>4. PICK b \in 1..M(l) : P[j] = qq[l][b]
      BY <3>3
    <3>5. GroupSeq[k].names[a] = GroupSeq[l].names[b]
      BY <3>2, <3>4, <1>6
    <3>6. k = l /\ a = b
      BY <3>5, <1>16
    <3> QED
      BY <3>2, <3>4, <3>6, <1>7
  <2> HIDE DEF f
  <2>6. f \in Injection(1..Len(P), Names) /\ f \in Surjection(1..Len(P), Names)
    BY <2>3, <2>4, <2>5 DEF Injection, Surjection, IsInjective
  <2>7. IsFiniteSet(1..Len(P)) /\ Cardinality(1..Len(P)) = Len(P)
    <3>1. \A n \in Nat : IsFiniteSet(1..n) /\ Cardinality(1..n) = n
      <4> TAKE n \in Nat
      <4>1. Cardinality(1..n) = IF 1 > n THEN 0 ELSE n - 1 + 1
        BY FS_Interval
      <4> QED
        BY <4>1, FS_Interval
    <3> QED
      BY <2>1, <3>1
  <2> QED
    BY <2>1, <2>6, <2>7, FS_Surjection
<1>13. \A p \in Listed(meta) : p \in ProjectSet /\ p.id = d
  BY <1>6, <1>9
<1>14. ASSUME NEW k \in DOMAIN GroupSeq, NEW p \in Listed(meta), NEW q \in Listed(meta),
              p.name \in NamesOf(k), q.name \in NamesOf(k)
       PROVE  p.version = q.version
  <2>1. PICK a \in 1..M(k) : p.name = GroupSeq[k].names[a]
    BY <1>14, GroupSeqTyped DEF NamesOf, N, M
  <2>2. PICK b \in 1..M(k) : q.name = GroupSeq[k].names[b]
    BY <1>14, GroupSeqTyped DEF NamesOf, N, M
  <2>3. PICK l \in 1..N : \E i \in 1..M(l) : p = qq[l][i]
    BY <1>9
  <2>4. PICK i \in 1..M(l) : p = qq[l][i]
    BY <2>3
  <2>5. PICK m \in 1..N : \E j \in 1..M(m) : q = qq[m][j]
    BY <1>9
  <2>6. PICK j \in 1..M(m) : q = qq[m][j]
    BY <2>5
  <2>7. k \in 1..N
    BY GroupSeqTyped DEF N
  <2>8. l = k /\ i = a
    BY <2>1, <2>4, <2>7, <1>6, <1>16
  <2>9. m = k /\ j = b
    BY <2>2, <2>6, <2>7, <1>6, <1>16
  <2>10. groups[k].projects[a].version = groups[k].projects[b].version
    BY <2>7 DEF Shaped, N, M
  <2> QED
    BY <2>4, <2>6, <2>7, <2>8, <2>9, <2>10, <1>6
<1>15. CopyOf(meta, groups)
  <2> SUFFICES ASSUME NEW p \in Listed(meta)
               PROVE  \E k \in DOMAIN GroupSeq : \E j \in DOMAIN GroupSeq[k].names :
                        /\ p.name = GroupSeq[k].names[j]
                        /\ p.version = groups[k].projects[j].version
    BY DEF CopyOf
  <2>1. PICK k \in 1..N : \E j \in 1..M(k) : p = qq[k][j]
    BY <1>9
  <2>2. PICK j \in 1..M(k) : p = qq[k][j]
    BY <2>1
  <2>3. k \in DOMAIN GroupSeq /\ j \in DOMAIN GroupSeq[k].names
    BY GroupSeqTyped DEF N, M
  <2> QED
    BY <2>2, <2>3, <1>6
<1> QED
  BY <1>11, <1>12, <1>13, <1>14, <1>15 DEF Whole

-----------------------------------------------------------------------------
(* Part 1: resolved versions                                                *)

\* What tags and registries are sets of.
Pairs == Names \X Version

\* The versions of a project are those it is paired with.
LEMMA VersionsAre ==
  ASSUME NEW S \in SUBSET Pairs
  PROVE  /\ \A n, v : v \in VersionsIn(n, S) <=> <<n, v>> \in S
         /\ \A n : VersionsIn(n, S) \subseteq Version
<1>1. \A t \in S : t = <<t[1], t[2]>> /\ t[1] \in Names /\ t[2] \in Version
  BY DEF Pairs
<1>2. ASSUME NEW n, NEW v PROVE v \in VersionsIn(n, S) <=> <<n, v>> \in S
  <2>1. ASSUME v \in VersionsIn(n, S) PROVE <<n, v>> \in S
    <3>1. PICK t \in S : t[1] = n /\ t[2] = v
      BY <2>1 DEF VersionsIn
    <3> QED
      BY <3>1, <1>1
  <2>2. ASSUME <<n, v>> \in S PROVE v \in VersionsIn(n, S)
    BY <2>2 DEF VersionsIn
  <2> QED
    BY <2>1, <2>2
<1>3. \A n : VersionsIn(n, S) \subseteq Version
  BY <1>1 DEF VersionsIn
<1> QED
  BY <1>2, <1>3

\* Finitely many pairs, finitely many versions.
LEMMA VersionsFinite ==
  ASSUME NEW S \in SUBSET Pairs, IsFiniteSet(S), NEW n
  PROVE  IsFiniteSet(VersionsIn(n, S))
<1> DEFINE T == {u \in S : u[1] = n}
           f == [t \in T |-> t[2]]
<1>1. IsFiniteSet(T)
  BY FS_Subset
<1>2. f \in Surjection(T, VersionsIn(n, S))
  BY DEF Surjection, VersionsIn
<1> HIDE DEF T, f
<1> QED
  BY <1>1, <1>2, FS_Surjection

\* T has one pair more than S.
Grown(S, m, v, T) == T = S \cup {<<m, v>>}

\* One more pair is one more version of its project, and of no other.
LEMMA VersionsGrow ==
  ASSUME NEW S \in SUBSET Pairs, NEW m \in Names, NEW v \in Version, NEW U,
         Grown(S, m, v, U)
  PROVE  /\ U \in SUBSET Pairs
         /\ \A n : n # m => VersionsIn(n, U) = VersionsIn(n, S)
         /\ VersionsIn(m, U) = VersionsIn(m, S) \cup {v}
<1>0. U = S \cup {<<m, v>>}
  BY DEF Grown
<1>1. U \in SUBSET Pairs
  BY <1>0 DEF Pairs
<1>2. \A n, w : w \in VersionsIn(n, U) <=> <<n, w>> \in U
  BY <1>1, VersionsAre
<1>3. \A n, w : w \in VersionsIn(n, S) <=> <<n, w>> \in S
  BY VersionsAre
<1>4. \A n, w : <<n, w>> \in U <=> <<n, w>> \in S \/ (n = m /\ w = v)
  <2> TAKE n, w
  <2> DEFINE x == <<n, w>>
             y == <<m, v>>
  <2>1. x = y <=> n = m /\ w = v
    OBVIOUS
  <2>2. U = S \cup {y}
    BY <1>0
  <2> HIDE DEF x, y
  <2>3. x \in U <=> x \in S \/ (n = m /\ w = v)
    BY <2>1, <2>2
  <2> QED
    BY <2>3 DEF x
<1>5. \A n, w : w \in VersionsIn(n, U) <=> w \in VersionsIn(n, S) \/ (n = m /\ w = v)
  BY ONLY <1>2, <1>3, <1>4
<1>6. ASSUME NEW n, n # m PROVE VersionsIn(n, U) = VersionsIn(n, S)
  <2>1. \A w : w \in VersionsIn(n, U) <=> w \in VersionsIn(n, S)
    BY <1>5, <1>6
  <2> QED
    BY ONLY <2>1
<1>7. VersionsIn(m, U) = VersionsIn(m, S) \cup {v}
  <2>1. \A w : w \in VersionsIn(m, U) <=> w \in VersionsIn(m, S) \/ w = v
    BY <1>5
  <2> QED
    BY ONLY <2>1
<1> QED
  BY <1>1, <1>6, <1>7

\* What a branch makes of a version is a version.
LEMMA VerTyped ==
  ASSUME NEW base \in Triple, NEW pre \in Seq(Ident)
  PROVE  /\ Ver(base, pre) \in Version /\ Ver(base, pre).base = base /\ Ver(base, pre).pre = pre
BY DEF Ver, Version

\* The suffix of a run is two identifiers.
LEMMA SuffixTyped ==
  ASSUME NEW r \in Nat
  PROVE  /\ Suffix(r) \in Seq(Ident) /\ Len(Suffix(r)) = 2
         /\ Suffix(r)[1] = Word("build") /\ Suffix(r)[2] = <<0, r>>
<1>1. Word("build") \in Ident /\ Num(r) \in Ident /\ Num(r) = <<0, r>>
  BY ChannelIdsAre DEF Ident, Num
<1>2. \A i, j \in Ident : <<i, j>> \in Seq(Ident) /\ Len(<<i, j>>) = 2 /\ <<i, j>>[1] = i /\ <<i, j>>[2] = j
  OBVIOUS
<1> HIDE DEF Ident
<1> QED
  BY <1>1, <1>2 DEF Suffix

\* It is the version itself, that with the branch before it, or one of the two
\* with the number of the run behind it - and the latter if it would be taken.
Made(o, pre, b, v, taken, r) ==
    /\ pre = v.pre \/ pre = BranchIds[b] \/ pre = BranchIds[b] \o v.pre
    /\ \/ o = Ver(v.base, pre) /\ o \notin taken
       \/ o = Ver(v.base, pre \o Suffix(r))

\* resolveVersion makes a version of the one in versions.yml as Made says.
LEMMA ResolveIs ==
  ASSUME NEW b \in Branches, NEW v \in Version, NEW n, NEW r \in Nat
  PROVE  \E pre \in Seq(Ident) : Made(Resolve(b, v, n, r), pre, b, v, VersionsIn(n, tags), r)
<1> DEFINE taken == VersionsIn(n, tags)
           ids == BranchIds[b]
<1>1. ids \in Seq(Ident) /\ v.pre \in Seq(Ident) /\ ids \o v.pre \in Seq(Ident)
  <2>1. BranchIds \in [Branches -> Seq(Ident)]
    BY FlowAssumption
  <2>2. ids \in Seq(Ident)
    BY <2>1
  <2>3. v.pre \in Seq(Ident)
    BY DEF Version
  <2> HIDE DEF ids
  <2> QED
    BY <2>2, <2>3
<1>2. v = Ver(v.base, v.pre)
  BY DEF Ver, Version
<1> HIDE DEF ids, taken
<1>3. CASE b \in Mainlines
  <2>1. Resolve(b, v, n, r) = Mainline(v, ids, r, taken)
    BY <1>3 DEF Resolve, ids, taken
  <2>2. CASE v \notin taken
    <3>1. Resolve(b, v, n, r) = Ver(v.base, v.pre) /\ Resolve(b, v, n, r) \notin taken
      BY <2>1, <2>2, <1>2 DEF Mainline
    <3> QED
      BY <3>1, <1>1 DEF taken, ids, Made
  <2>3. CASE v \in taken
    <3>1. Resolve(b, v, n, r) = Ver(v.base, (IF IsPre(v) THEN v.pre ELSE ids) \o Suffix(r))
      BY <2>1, <2>3 DEF Mainline
    <3>2. CASE IsPre(v)
      BY <3>1, <3>2, <1>1 DEF taken, ids, Made
    <3>3. CASE ~IsPre(v)
      BY <3>1, <3>3, <1>1 DEF taken, ids, Made
    <3> QED
      BY <3>2, <3>3
  <2> QED
    BY <2>2, <2>3
<1>4. CASE b \notin Mainlines
  <2> DEFINE w == Ver(v.base, ids \o v.pre)
  <2>1. Resolve(b, v, n, r) = Development(v, ids, r, taken)
    BY <1>4 DEF Resolve, ids, taken
  <2>2. w.base = v.base /\ w.pre = ids \o v.pre
    BY DEF Ver
  <2>3. Resolve(b, v, n, r) = IF w \notin taken THEN w ELSE Ver(v.base, (ids \o v.pre) \o Suffix(r))
    BY <2>1, <2>2 DEF Development
  <2> HIDE DEF w
  <2>4. CASE w \notin taken
    BY <2>3, <2>4, <1>1 DEF w, taken, ids, Made
  <2>5. CASE w \in taken
    BY <2>3, <2>5, <1>1 DEF ids, Made
  <2> QED
    BY <2>4, <2>5
<1> QED
  BY <1>3, <1>4

\* It makes a version.
LEMMA ResolveTyped ==
  ASSUME NEW b \in Branches, NEW v \in Version, NEW n, NEW r \in Nat
  PROVE  Resolve(b, v, n, r) \in Version
<1>1. PICK pre \in Seq(Ident) : Made(Resolve(b, v, n, r), pre, b, v, VersionsIn(n, tags), r)
  BY ResolveIs
<1>2. v.base \in Triple /\ pre \o Suffix(r) \in Seq(Ident)
  BY SuffixTyped DEF Version
<1> QED
  BY <1>1, <1>2, VerTyped DEF Made

\* The versions of the projects of a group, and the highest of them.
LEMMA ResolvedAre ==
  ASSUME file \in [Branches -> [Groups -> Version]], tags \in SUBSET Pairs,
         NEW b \in Branches, NEW k \in 1..Len(GroupSeq), NEW r \in Nat,
         NEW j \in 1..Len(GroupSeq[k].names)
  PROVE  /\ Resolved(b, k, r) \in SUBSET Version /\ IsFiniteSet(Resolved(b, k, r))
         /\ Highest(Resolved(b, k, r)) \in Resolved(b, k, r)
<1> DEFINE ns == GroupSeq[k].names
           of(n) == Resolve(b, file[b][GroupSeq[k].name], n, r)
           f == [i \in 1..Len(ns) |-> of(ns[i])]
<1>1. /\ GroupSeq[k].name \in Groups /\ file[b][GroupSeq[k].name] \in Version
      /\ Len(ns) \in Nat /\ DOMAIN ns = 1..Len(ns)
  BY GroupSeqTyped
<1>2. Resolved(b, k, r) = {of(ns[i]) : i \in 1..Len(ns)}
  BY <1>1 DEF Resolved, NamesOf
<1>3. \A n : of(n) \in Version
  BY <1>1, ResolveTyped
<1> HIDE DEF of
<1>4. f \in Surjection(1..Len(ns), Resolved(b, k, r))
  BY <1>2 DEF Surjection
<1>5. IsFiniteSet(1..Len(ns))
  <2>1. \A m \in Nat : IsFiniteSet(1..m)
    BY FS_Interval
  <2> QED
    BY <2>1, <1>1
<1> HIDE DEF f
<1>6. IsFiniteSet(Resolved(b, k, r))
  BY <1>4, <1>5, FS_Surjection
<1>7. Resolved(b, k, r) \in SUBSET Version /\ Resolved(b, k, r) # {}
  BY <1>2, <1>3
<1> QED
  BY <1>6, <1>7, HighestIs

\* What create-release-pr renders.
LEMMA GroupsShaped ==
  ASSUME file \in [Branches -> [Groups -> Version]], tags \in SUBSET Pairs,
         NEW b \in Branches, NEW r \in Nat
  PROVE  LET groups == [k \in DOMAIN GroupSeq |-> GroupIn(b, k, r)]
         IN  /\ Shaped(groups)
             /\ \A k \in 1..Len(GroupSeq) : \A j \in 1..Len(GroupSeq[k].names) :
                  groups[k].projects[j].version = Highest(Resolved(b, k, r))
<1> DEFINE N == Len(GroupSeq)
           groups == [k \in DOMAIN GroupSeq |-> GroupIn(b, k, r)]
           M(k) == Len(GroupSeq[k].names)
<1>1. /\ N \in Nat /\ DOMAIN GroupSeq = 1..N
      /\ \A k \in 1..N : /\ GroupSeq[k].name \in Groups /\ M(k) \in Nat
                         /\ DOMAIN GroupSeq[k].names = 1..M(k)
                         /\ \A j \in 1..M(k) : GroupSeq[k].names[j] \in Names
  BY GroupSeqTyped
<1>2. ASSUME NEW k \in 1..N
      PROVE  /\ GroupIn(b, k, r) \in GroupSet /\ Len(GroupIn(b, k, r).projects) = M(k)
             /\ \A j \in 1..M(k) :
                  /\ GroupIn(b, k, r).projects[j].name = GroupSeq[k].names[j]
                  /\ GroupIn(b, k, r).projects[j].version = Highest(Resolved(b, k, r))
  <2> DEFINE v == Highest(Resolved(b, k, r))
             pre(n) == b \notin Mainlines \/ IsPre(Resolve(b, file[b][GroupSeq[k].name], n, r))
             ps == [j \in 1..M(k) |-> ProjectOf(GroupSeq[k].names[j], v, pre(GroupSeq[k].names[j]), 0)]
  <2>1. GroupIn(b, k, r) = [name |-> GroupSeq[k].name, projects |-> ps]
    BY <1>1 DEF GroupIn
  <2>2. \A n : pre(n) \in BOOLEAN
    BY DEF IsPre
  <2> HIDE DEF v, pre
  <2>3. ASSUME NEW j \in 1..M(k)
        PROVE  /\ ps[j] \in ProjectSet /\ ps[j].name = GroupSeq[k].names[j] /\ ps[j].version = v
    <3>1. v \in Version
      BY ResolvedAre DEF v
    <3>2. GroupSeq[k].names[j] \in Names
      BY <1>1
    <3> QED
      BY <3>1, <3>2, <2>2 DEF ProjectOf, ProjectSet
  <2>4. ps \in Seq(ProjectSet) /\ Len(ps) = M(k)
    <3>1. M(k) \in Nat /\ \A j \in 1..M(k) : ps[j] \in ProjectSet
      BY <2>3, <1>1
    <3>2. ps = [j \in 1..M(k) |-> ps[j]]
      OBVIOUS
    <3> HIDE DEF ps, M
    <3> QED
      BY <3>1, <3>2
  <2> HIDE DEF ps
  <2>5. GroupIn(b, k, r).projects = ps
    BY <2>1
  <2>6. GroupIn(b, k, r) \in GroupSet
    BY <2>1, <2>4, <1>1 DEF GroupSet
  <2> QED
    BY <2>3, <2>4, <2>5, <2>6 DEF v
<1>3. \A k \in 1..N : groups[k] = GroupIn(b, k, r)
  BY <1>1
<1>4. groups \in Seq(GroupSet) /\ Len(groups) = N
  BY <1>1, <1>2
<1> HIDE DEF groups
<1>5. \A k \in 1..N : \A j \in 1..M(k) :
        /\ groups[k].projects[j].name = GroupSeq[k].names[j]
        /\ groups[k].projects[j].version = Highest(Resolved(b, k, r))
  BY <1>2, <1>3
<1>6. \A k \in 1..N : Len(groups[k].projects) = M(k)
  BY <1>2, <1>3
<1>7. Shaped(groups)
  BY <1>4, <1>5, <1>6 DEF Shaped
<1> QED
  BY <1>5, <1>7 DEF groups

-----------------------------------------------------------------------------
(* Part 2: what the jobs read                                               *)

\* extractPRMetadata undoes what create-release-pr has rendered: every project is
\* read once, in the version of its group, without an id.
THEOREM OpenedReads ==
  ASSUME NEW groups, Shaped(groups)
  PROVE  /\ Render(groups) \in Seq(Lines)
         /\ Whole(Extract(Render(groups)), 0)
         /\ CopyOf(Extract(Render(groups)), groups)
<1> DEFINE none == <<>>
           meta == Extract(Render(groups))
<1>1. Ids(none) /\ Same(none, 0)
  BY DEF Ids, Same
<1>2. groups \in Seq(GroupSet)
  BY DEF Shaped
<1>3. Render(groups) \in Seq(Lines)
  BY <1>1, <1>2, RenderRead
<1>4. /\ meta \in Seq(Entry) /\ Len(meta) = Len(ProjectsOf(none, groups))
      /\ \A i \in 1..Len(ProjectsOf(none, groups)) :
           meta[i].project = ProjectsOf(none, groups)[i]
  BY <1>2, ReadBackPlain
<1> HIDE DEF none, meta
<1>5. Whole(meta, 0) /\ CopyOf(meta, groups)
  BY <1>1, <1>4, ReadWhole
<1> QED
  BY <1>3, <1>5 DEF meta

\* The same after setReleaseIdsInPRBody has added the ids of the releases of all
\* projects, or of none: the lines it puts in between are read as ids and move
\* nothing else.
THEOREM BuiltReads ==
  ASSUME NEW groups, Shaped(groups), NEW S, S = Names \/ S = {}, NEW r \in Nat \ {0}
  PROVE  LET body == SetIds(Render(groups), [n \in S |-> r])
         IN  /\ body \in Seq(Lines)
             /\ \E d \in Nat : Whole(Extract(body), d)
             /\ S = Names => Whole(Extract(body), r)
             /\ S = {} => Whole(Extract(body), 0)
             /\ CopyOf(Extract(body), groups)
<1> DEFINE ids == [n \in S |-> r]
           body == SetIds(Render(groups), ids)
           meta == Extract(body)
<1>1. Ids(ids)
  BY DEF Ids
<1>2. \E d \in Nat : Same(ids, d)
  <2>1. CASE S = Names
    <3>1. Same(ids, r)
      BY <2>1 DEF Same
    <3> QED
      BY <3>1
  <2>2. CASE S = {}
    <3>1. Same(ids, 0)
      BY <2>2 DEF Same
    <3> QED
      BY <3>1
  <2> QED
    BY <2>1, <2>2
<1>10. (S = Names => Same(ids, r)) /\ (S = {} => Same(ids, 0))
  BY DEF Same
<1>3. groups \in Seq(GroupSet)
  BY DEF Shaped
<1> HIDE DEF ids
<1>4. PICK t : Reads(ids, Start, Render(groups), t)
  BY <1>1, <1>3, RenderRead
<1>5. Render(groups) \in Seq(Lines) /\ NoIdLine(Render(groups))
  BY <1>1, <1>3, RenderRead
<1>6. body \in Seq(Lines)
  BY <1>1, <1>4, <1>5, SetIdsReads
<1>7. /\ meta \in Seq(Entry) /\ Len(meta) = Len(ProjectsOf(ids, groups))
      /\ \A i \in 1..Len(ProjectsOf(ids, groups)) :
           meta[i].project = ProjectsOf(ids, groups)[i]
  BY <1>1, <1>3, ReadBackWithIds
<1> HIDE DEF meta, body
<1>8. PICK d \in Nat : Same(ids, d)
  BY <1>2
<1>9. \A e : Same(ids, e) => Whole(meta, e) /\ CopyOf(meta, groups)
  BY <1>1, <1>7, ReadWhole
<1> QED
  BY <1>6, <1>8, <1>9, <1>10 DEF meta, body, ids

\* A job is at a project of the monorepo.
LEMMA AtProject ==
  ASSUME NEW meta, NEW d, Whole(meta, d), NEW k \in 1..Len(meta)
  PROVE  /\ meta[k].project \in Listed(meta)
         /\ meta[k].project.name \in Names /\ meta[k].project.version \in Version
<1>1. meta \in Seq(Entry) /\ \A p \in Listed(meta) : p \in ProjectSet
  BY DEF Whole
<1>2. DOMAIN meta = 1..Len(meta)
  BY <1>1
<1>3. meta[k].project \in Listed(meta)
  BY <1>2 DEF Listed
<1> QED
  BY <1>1, <1>3 DEF ProjectSet

-----------------------------------------------------------------------------
(* Part 2: the invariant                                                    *)

\* What the release of a branch is made of.
PRs == [pc : {"none", "open", "built", "listed", "pushed"}, body : Seq(Lines),
        meta : Seq(Entry), k : Nat, known : SUBSET Version]

\* A release as it was opened.
Opened(p) ==
  /\ p.k = 1
  /\ Whole(p.meta, 0)
  /\ \E groups : Shaped(groups) /\ p.body = Render(groups)

\* A release that has read its PR is at one of the projects or through.
Underway(p) ==
  /\ \E d \in Nat : Whole(p.meta, d)
  /\ p.k \in 1..(Len(p.meta) + 1)

\* What a release has done to the project it is at.
AtWork(p, S) ==
  LET at == p.meta[p.k].project
  IN  /\ p.k \in 1..Len(p.meta)
      /\ p.pc = "listed" => p.known \subseteq VersionsIn(at.name, S)
      /\ p.pc = "pushed" => <<at.name, at.version>> \in S

\* The release of a branch, with S in the registry, after r runs.
RightPR(p, S, r) ==
  /\ p.pc = "none" => p = NoPR
  /\ p.pc = "open" => Opened(p) /\ r > 0
  /\ p.pc # "none" => Underway(p)
  /\ p.pc \in {"listed", "pushed"} => AtWork(p, S)

\* A pointer names nothing, or a version of the registry.
RightPtr(x, S) == x = {} \/ \E v \in S : x = {v}

\* The types.
Typed ==
  /\ file \in [Branches -> [Groups -> Version]]
  /\ run \in Nat
  /\ tags \in SUBSET Pairs
  /\ pushed \in SUBSET Pairs
  /\ pr \in [Branches -> PRs]
  /\ ptr \in [Names -> [Pointers -> SUBSET Version]]
  /\ stale \in BOOLEAN

\* The inductive invariant: it knows how the body of an open PR came to be.
IInv ==
  /\ Typed
  /\ IsFiniteSet(pushed)
  /\ tags \subseteq pushed
  /\ plain = {t[2] : t \in tags}
  /\ \A b \in Branches : RightPR(pr[b], pushed, run)
  /\ \A n \in Names : \A q \in Pointers : RightPtr(ptr[n][q], VersionsIn(n, pushed))

\* More in the registry, or a later run, does no harm to a release.
LEMMA RightLater ==
  ASSUME NEW p, NEW S \in SUBSET Pairs, NEW T \in SUBSET Pairs, S \subseteq T,
         NEW r \in Nat, NEW s \in Nat, r <= s, RightPR(p, S, r)
  PROVE  RightPR(p, T, s)
<1>1. \A n : VersionsIn(n, S) \subseteq VersionsIn(n, T)
  BY DEF VersionsIn
<1>2. AtWork(p, S) => AtWork(p, T)
  BY <1>1 DEF AtWork
<1> QED
  BY <1>2 DEF RightPR

\* A branch without a release is right.
LEMMA NoPRRight ==
  ASSUME NEW S, NEW r PROVE NoPR \in PRs /\ NoPR.pc = "none" /\ RightPR(NoPR, S, r)
<1>1. NoPR \in PRs /\ NoPR.pc = "none"
  BY DEF NoPR, PRs
<1> QED
  BY <1>1 DEF RightPR

\* One release moves on, the others stay.
LEMMA OneMoves ==
  ASSUME NEW f \in [Branches -> PRs], NEW b \in Branches, NEW x \in PRs, NEW g,
         g = [f EXCEPT ![b] = x]
  PROVE  /\ g \in [Branches -> PRs] /\ g[b] = x
         /\ \A c \in Branches : c # b => g[c] = f[c]
OBVIOUS

\* A pointer stays right when more is in the registry.
LEMMA PtrLater ==
  ASSUME NEW x, NEW S, NEW T, S \subseteq T, RightPtr(x, S) PROVE RightPtr(x, T)
BY DEF RightPtr

\* Init establishes the invariant.
LEMMA InitIInv == Init => IInv
<1> SUFFICES ASSUME Init PROVE IInv
  OBVIOUS
<1>1. file \in [Branches -> [Groups -> Version]]
  BY FlowAssumption DEF Init
<1>2. run = 0 /\ tags = {} /\ plain = {} /\ pushed = {} /\ stale = FALSE
  BY DEF Init
<1>3. pr \in [Branches -> PRs] /\ \A b \in Branches : pr[b] = NoPR
  BY NoPRRight DEF Init
<1>4. /\ ptr \in [Names -> [Pointers -> SUBSET Version]]
      /\ \A n \in Names : \A q \in Pointers : ptr[n][q] = {}
  BY DEF Init
<1>5. IsFiniteSet({})
  BY FS_EmptySet
<1>6. Typed
  BY <1>1, <1>2, <1>3, <1>4 DEF Typed, Pairs
<1>7. \A b \in Branches : RightPR(pr[b], pushed, run)
  BY <1>2, <1>3, NoPRRight
<1>8. \A n \in Names : \A q \in Pointers : RightPtr(ptr[n][q], VersionsIn(n, pushed))
  BY <1>4 DEF RightPtr
<1> QED
  BY <1>2, <1>5, <1>6, <1>7, <1>8 DEF IInv

\* A step that only changes a release, to a right one.
LEMMA MoveKeeps ==
  ASSUME IInv, NEW b \in Branches, NEW x \in PRs, pr' = [pr EXCEPT ![b] = x],
         RightPR(x, pushed, run'), run' \in Nat, run <= run',
         file' = file, tags' = tags, plain' = plain, pushed' = pushed, ptr' = ptr,
         stale' = stale
  PROVE  IInv'
<1>1. pr \in [Branches -> PRs] /\ run \in Nat /\ pushed \in SUBSET Pairs
  BY DEF IInv, Typed
<1>2. /\ pr' \in [Branches -> PRs] /\ pr'[b] = x
      /\ \A c \in Branches : c # b => pr'[c] = pr[c]
  BY <1>1, OneMoves
<1>3. ASSUME NEW c \in Branches PROVE RightPR(pr'[c], pushed', run')
  <2>1. CASE c = b
    BY <2>1, <1>2
  <2>2. CASE c # b
    <3>1. RightPR(pr[c], pushed, run)
      BY DEF IInv
    <3>2. RightPR(pr[c], pushed, run')
      BY <3>1, <1>1, RightLater
    <3> QED
      BY <2>2, <1>2, <3>2
  <2> QED
    BY <2>1, <2>2
<1>4. Typed'
  BY <1>2 DEF IInv, Typed
<1> QED
  BY <1>3, <1>4 DEF IInv

\* gitflow version keeps it: what is offered is a version.
LEMMA BumpKeeps ==
  ASSUME IInv, NEW b \in Branches, NEW g \in Groups, Bump(b, g)
  PROVE  IInv'
<1>1. file \in [Branches -> [Groups -> Version]]
  BY DEF IInv, Typed
<1>2. PICK o \in Offered(file[b][g], plain) : file' = [file EXCEPT ![b][g] = o]
  BY DEF Bump
<1>3. o \in Version
  <2>1. file[b][g] \in Version
    BY <1>1
  <2> QED
    BY <2>1, OfferedGoesUp
<1>4. file' \in [Branches -> [Groups -> Version]]
  BY <1>1, <1>2, <1>3
<1>5. UNCHANGED <<run, pr, tags, plain, pushed, ptr, stale>>
  BY DEF Bump
<1> QED
  BY <1>4, <1>5 DEF IInv, Typed

\* What CreatePR makes of the release of a branch.
LEMMA CreatedIs ==
  ASSUME IInv, NEW b \in Branches, CreatePR(b)
  PROVE  \E groups :
           /\ Shaped(groups)
           /\ \A k \in 1..Len(GroupSeq) : \A j \in 1..Len(GroupSeq[k].names) :
                groups[k].projects[j].version = Highest(Resolved(b, k, run + 1))
           /\ pr'[b].pc = "open" /\ pr'[b].k = 1
           /\ pr'[b].body = Render(groups) /\ pr'[b].meta = Extract(Render(groups))
           /\ pr'[b] \in PRs /\ pr' = [pr EXCEPT ![b] = pr'[b]]
<1> DEFINE groups == [k \in DOMAIN GroupSeq |-> GroupIn(b, k, run + 1)]
           body == Render(groups)
           x == [NoPR EXCEPT !.pc = "open", !.body = body, !.meta = Extract(body)]
<1>1. /\ file \in [Branches -> [Groups -> Version]] /\ tags \in SUBSET Pairs
      /\ run + 1 \in Nat /\ pr \in [Branches -> PRs]
  BY DEF IInv, Typed
<1>2. /\ Shaped(groups)
      /\ \A k \in 1..Len(GroupSeq) : \A j \in 1..Len(GroupSeq[k].names) :
           groups[k].projects[j].version = Highest(Resolved(b, k, run + 1))
  BY <1>1, GroupsShaped
<1>3. pr' = [pr EXCEPT ![b] = x]
  BY DEF CreatePR
<1> HIDE DEF groups
<1>4. Render(groups) \in Seq(Lines) /\ Whole(Extract(Render(groups)), 0)
  BY <1>2, OpenedReads
<1>5. Extract(Render(groups)) \in Seq(Entry)
  BY <1>4 DEF Whole
<1>6. x \in PRs /\ x.pc = "open" /\ x.k = 1 /\ x.body = body /\ x.meta = Extract(body)
  <2>1. body \in Seq(Lines) /\ Extract(body) \in Seq(Entry)
    BY <1>4, <1>5
  <2> HIDE DEF body
  <2> QED
    BY <2>1 DEF NoPR, PRs
<1>7. pr'[b] = x
  BY <1>1, <1>3
<1> HIDE DEF x
<1> QED
  BY <1>2, <1>3, <1>6, <1>7

\* create-release-pr keeps it: what it writes can be read back whole.
LEMMA CreateKeeps ==
  ASSUME IInv, NEW b \in Branches, CreatePR(b)
  PROVE  IInv'
<1>1. PICK groups :
        /\ Shaped(groups)
        /\ \A k \in 1..Len(GroupSeq) : \A j \in 1..Len(GroupSeq[k].names) :
             groups[k].projects[j].version = Highest(Resolved(b, k, run + 1))
        /\ pr'[b].pc = "open" /\ pr'[b].k = 1
        /\ pr'[b].body = Render(groups) /\ pr'[b].meta = Extract(Render(groups))
        /\ pr'[b] \in PRs /\ pr' = [pr EXCEPT ![b] = pr'[b]]
  BY CreatedIs
<1>2. Whole(pr'[b].meta, 0)
  BY <1>1, OpenedReads
<1>3. Opened(pr'[b])
  BY <1>1, <1>2 DEF Opened
<1>4. Underway(pr'[b])
  <2>1. Len(pr'[b].meta) \in Nat
    BY <1>2 DEF Whole
  <2> QED
    BY <1>1, <1>2, <2>1 DEF Underway
<1>5. run \in Nat /\ run' = run + 1
  BY DEF IInv, Typed, CreatePR
<1>6. RightPR(pr'[b], pushed, run')
  BY <1>1, <1>3, <1>4, <1>5 DEF RightPR
<1>7. /\ file' = file /\ tags' = tags /\ plain' = plain /\ pushed' = pushed /\ ptr' = ptr
      /\ stale' = stale
  BY DEF CreatePR
<1>9. run' \in Nat /\ run <= run'
  BY <1>5
<1>8. PICK x \in PRs : pr' = [pr EXCEPT ![b] = x] /\ RightPR(x, pushed, run')
  BY <1>1, <1>6
<1> QED
  BY <1>7, <1>8, <1>9, MoveKeeps

\* What BuildPack makes of a release that was opened with these groups.
LEMMA BuiltIs ==
  ASSUME IInv, NEW b \in Branches, BuildPack(b),
         NEW groups, Shaped(groups), pr[b].body = Render(groups)
  PROVE  /\ pr'[b] \in PRs /\ pr' = [pr EXCEPT ![b] = pr'[b]]
         /\ pr'[b].pc = "built" /\ pr'[b].k = pr[b].k
         /\ \E d \in Nat : Whole(pr'[b].meta, d)
         /\ CopyOf(pr'[b].meta, groups)
<1>1. pr \in [Branches -> PRs] /\ pr[b] \in PRs /\ pr[b].pc = "open" /\ run \in Nat
  BY DEF IInv, Typed, BuildPack
<1>2. run \in Nat \ {0}
  <2>1. RightPR(pr[b], pushed, run)
    BY DEF IInv
  <2> QED
    BY <2>1, <1>1 DEF RightPR
<1>3. PICK S \in {Names, {}} :
        pr' = [pr EXCEPT ![b].pc = "built",
                         ![b].body = SetIds(pr[b].body, [n \in S |-> run]),
                         ![b].meta = Extract(SetIds(pr[b].body, [n \in S |-> run]))]
  BY DEF BuildPack
<1> DEFINE body == SetIds(Render(groups), [n \in S |-> run])
           x == [pr[b] EXCEPT !.pc = "built", !.body = body, !.meta = Extract(body)]
<1>4. pr' = [pr EXCEPT ![b].pc = "built", ![b].body = body, ![b].meta = Extract(body)]
  BY <1>3
<1>5. S = Names \/ S = {}
  OBVIOUS
<1>6. body \in Seq(Lines) /\ (\E d \in Nat : Whole(Extract(body), d)) /\ CopyOf(Extract(body), groups)
  BY <1>2, <1>5, BuiltReads
<1> HIDE DEF body
<1>7. Extract(body) \in Seq(Entry)
  BY <1>6 DEF Whole
<1>8. x \in PRs /\ x.pc = "built" /\ x.k = pr[b].k /\ x.meta = Extract(body)
  BY <1>1, <1>6, <1>7 DEF PRs
<1>9. pr' = [pr EXCEPT ![b] = x] /\ pr'[b] = x
  BY <1>1, <1>4
<1> HIDE DEF x
<1> QED
  BY <1>6, <1>8, <1>9

\* build-pack keeps it: the ids it adds do not disturb what is read.
LEMMA BuildKeeps ==
  ASSUME IInv, NEW b \in Branches, BuildPack(b)
  PROVE  IInv'
<1>1. pr[b].pc = "open" /\ run \in Nat
  BY DEF BuildPack, IInv, Typed
<1>2. Opened(pr[b]) /\ run > 0
  <2>1. RightPR(pr[b], pushed, run)
    BY DEF IInv
  <2> QED
    BY <2>1, <1>1 DEF RightPR
<1>3. PICK groups : Shaped(groups) /\ pr[b].body = Render(groups)
  BY <1>2 DEF Opened
<1>4. /\ pr'[b] \in PRs /\ pr' = [pr EXCEPT ![b] = pr'[b]]
      /\ pr'[b].pc = "built" /\ pr'[b].k = pr[b].k
      /\ \E d \in Nat : Whole(pr'[b].meta, d)
  BY <1>3, BuiltIs
<1>5. PICK x \in PRs : /\ pr' = [pr EXCEPT ![b] = x] /\ x.pc = "built" /\ x.k = 1
                       /\ \E d \in Nat : Whole(x.meta, d)
  BY <1>2, <1>4 DEF Opened
<1>6. Len(x.meta) \in Nat
  BY <1>5 DEF PRs
<1>7. RightPR(x, pushed, run)
  BY <1>5, <1>6 DEF RightPR, Underway
<1>8. /\ file' = file /\ tags' = tags /\ plain' = plain /\ pushed' = pushed /\ ptr' = ptr
      /\ stale' = stale /\ run' = run
  BY DEF BuildPack
<1>9. RightPR(x, pushed, run') /\ run' \in Nat /\ run <= run'
  BY <1>1, <1>7, <1>8
<1> QED
  BY <1>5, <1>8, <1>9, MoveKeeps

\* A release that is not yet through is at a project that it has read.
LEMMA IsAt ==
  ASSUME IInv, NEW b \in Branches, pr[b].pc # "none", ~Done(b)
  PROVE  /\ pr[b] \in PRs /\ pr[b].k \in 1..Len(pr[b].meta)
         /\ \E d \in Nat : Whole(pr[b].meta, d)
         /\ Project(b) \in Listed(pr[b].meta)
         /\ Project(b).name \in Names /\ Project(b).version \in Version
         /\ <<Project(b).name, Project(b).version>> \in Pairs
<1>1. pr[b] \in PRs /\ RightPR(pr[b], pushed, run)
  BY DEF IInv, Typed
<1>2. Underway(pr[b])
  BY <1>1 DEF RightPR
<1>3. PICK d \in Nat : Whole(pr[b].meta, d)
  BY <1>2 DEF Underway
<1>4. Len(pr[b].meta) \in Nat
  BY <1>3 DEF Whole
<1>5. pr[b].k \in 1..Len(pr[b].meta)
  BY <1>2, <1>4 DEF Underway, Done
<1>6. /\ Project(b) \in Listed(pr[b].meta)
      /\ Project(b).name \in Names /\ Project(b).version \in Version
  BY <1>3, <1>5, AtProject DEF Project
<1> QED
  BY <1>1, <1>3, <1>5, <1>6 DEF Pairs

\* Listing keeps it: what is tagged is in the registry.
LEMMA ListKeeps ==
  ASSUME IInv, NEW b \in Branches, ListVersions(b)
  PROVE  IInv'
<1>1. pr[b].pc = "built" /\ ~Done(b)
  BY DEF ListVersions
<1>2. /\ pr \in [Branches -> PRs] /\ run \in Nat /\ tags \in SUBSET Pairs
      /\ pushed \in SUBSET Pairs /\ tags \subseteq pushed
  BY DEF IInv, Typed
<1>3. /\ pr[b] \in PRs /\ pr[b].k \in 1..Len(pr[b].meta)
      /\ \E d \in Nat : Whole(pr[b].meta, d)
  BY <1>1, IsAt
<1> DEFINE known == VersionsIn(Project(b).name, tags)
           x == [pr[b] EXCEPT !.pc = "listed", !.known = known]
<1>4. known \in SUBSET Version /\ known \subseteq VersionsIn(Project(b).name, pushed)
  BY <1>2, VersionsAre DEF VersionsIn
<1>5. pr' = [pr EXCEPT ![b].pc = "listed", ![b].known = known]
  BY DEF ListVersions
<1> HIDE DEF known
<1>6. pr' = [pr EXCEPT ![b] = x]
  BY <1>2, <1>5
<1>7. /\ x \in PRs /\ x.pc = "listed" /\ x.k = pr[b].k /\ x.meta = pr[b].meta
      /\ x.known = known
  BY <1>3, <1>4 DEF PRs
<1> HIDE DEF x
<1>8. Len(x.meta) \in Nat /\ x.k \in 1..(Len(x.meta) + 1)
  BY <1>7, <1>3 DEF PRs
<1>9. RightPR(x, pushed, run)
  BY <1>3, <1>4, <1>7, <1>8 DEF RightPR, Underway, AtWork, Project
<1>10. /\ file' = file /\ tags' = tags /\ plain' = plain /\ pushed' = pushed /\ ptr' = ptr
       /\ stale' = stale /\ run' = run
  BY DEF ListVersions
<1>11. RightPR(x, pushed, run') /\ run' \in Nat /\ run <= run'
  BY <1>2, <1>9, <1>10
<1> QED
  BY <1>6, <1>7, <1>10, <1>11, MoveKeeps

\* The end of a release keeps it.
LEMMA CloseKeeps ==
  ASSUME IInv, NEW b \in Branches, Close(b)
  PROVE  IInv'
<1>1. pr' = [pr EXCEPT ![b] = NoPR] /\ run \in Nat
  BY DEF Close, IInv, Typed
<1>2. /\ file' = file /\ tags' = tags /\ plain' = plain /\ pushed' = pushed /\ ptr' = ptr
      /\ stale' = stale /\ run' = run
  BY DEF Close
<1>3. NoPR \in PRs /\ RightPR(NoPR, pushed, run)
  BY NoPRRight
<1>4. RightPR(NoPR, pushed, run') /\ run' \in Nat /\ run <= run'
  BY <1>1, <1>2, <1>3
<1> QED
  BY <1>1, <1>2, <1>3, <1>4, MoveKeeps

\* One release changes while the registry grows.
LEMMA AllMove ==
  ASSUME IInv, NEW b \in Branches, NEW x \in PRs, pr' = [pr EXCEPT ![b] = x],
         run' = run, pushed' \in SUBSET Pairs, pushed \subseteq pushed',
         RightPR(x, pushed', run)
  PROVE  /\ pr' \in [Branches -> PRs]
         /\ \A c \in Branches : RightPR(pr'[c], pushed', run')
<1>1. pr \in [Branches -> PRs] /\ run \in Nat /\ pushed \in SUBSET Pairs
  BY DEF IInv, Typed
<1>2. /\ pr' \in [Branches -> PRs] /\ pr'[b] = x
      /\ \A c \in Branches : c # b => pr'[c] = pr[c]
  BY <1>1, OneMoves
<1>3. ASSUME NEW c \in Branches PROVE RightPR(pr'[c], pushed', run')
  <2>1. CASE c = b
    BY <2>1, <1>2
  <2>2. CASE c # b
    <3>1. RightPR(pr[c], pushed, run) /\ run <= run
      BY <1>1 DEF IInv
    <3>2. RightPR(pr[c], pushed', run)
      BY <3>1, <1>1, RightLater
    <3> QED
      BY <2>2, <1>2, <3>2
  <2> QED
    BY <2>1, <2>2
<1> QED
  BY <1>2, <1>3

\* What PushProject does to the registry and to the pointers.
LEMMA PushIs ==
  ASSUME IInv, NEW b \in Branches, PushProject(b)
  PROVE  /\ Project(b).name \in Names /\ Project(b).version \in Version
         /\ pr[b] \in PRs /\ pr[b].pc = "listed" /\ pr[b].k \in 1..Len(pr[b].meta)
         /\ pr[b].known \subseteq VersionsIn(Project(b).name, pushed)
         /\ pushed' = pushed \cup {<<Project(b).name, Project(b).version>>}
         /\ pushed' \in SUBSET Pairs /\ IsFiniteSet(pushed')
         /\ \A m : VersionsIn(m, pushed') =
              IF m = Project(b).name THEN VersionsIn(m, pushed) \cup {Project(b).version}
              ELSE VersionsIn(m, pushed)
         /\ ptr' \in [Names -> [Pointers -> SUBSET Version]]
         /\ \A m \in Names : \A q \in Pointers :
              ptr'[m][q] =
                IF m = Project(b).name /\ q \in FloatingTags(Project(b).version, pr[b].known)
                THEN {Project(b).version} ELSE ptr[m][q]
<1> DEFINE n == Project(b).name
           v == Project(b).version
           ft == FloatingTags(v, pr[b].known)
<1>1. pr[b].pc = "listed" /\ pr[b] \in PRs /\ pushed \in SUBSET Pairs /\ IsFiniteSet(pushed)
  BY DEF PushProject, IInv, Typed
<1>2. AtWork(pr[b], pushed)
  <2>1. RightPR(pr[b], pushed, run)
    BY DEF IInv
  <2> QED
    BY <2>1, <1>1 DEF RightPR
<1>3. pr[b].k \in 1..Len(pr[b].meta) /\ pr[b].known \subseteq VersionsIn(n, pushed)
  BY <1>1, <1>2 DEF AtWork, Project
<1>4. ~Done(b) /\ pr[b].pc # "none"
  BY <1>1, <1>3 DEF Done, PRs
<1>5. n \in Names /\ v \in Version
  BY <1>4, IsAt
<1>6. pushed' = pushed \cup {<<n, v>>}
  BY DEF PushProject
<1>7. ptr' = [ptr EXCEPT ![n] = [q \in Pointers |-> IF q \in ft THEN {v} ELSE ptr[n][q]]]
  BY DEF PushProject
<1>8. ptr \in [Names -> [Pointers -> SUBSET Version]]
  BY DEF IInv, Typed
<1> HIDE DEF n, v, ft
<1>9. IsFiniteSet(pushed') /\ pushed' \in SUBSET Pairs
  <2>1. Grown(pushed, n, v, pushed')
    BY <1>6 DEF Grown
  <2>2. pushed' \in SUBSET Pairs
    BY <2>1, <1>1, <1>5, VersionsGrow
  <2>3. IsFiniteSet(pushed')
    BY <1>1, <1>6, FS_AddElement
  <2> QED
    BY <2>2, <2>3
<1>10. \A m : VersionsIn(m, pushed') = IF m = n THEN VersionsIn(m, pushed) \cup {v}
                                       ELSE VersionsIn(m, pushed)
  <2>0. Grown(pushed, n, v, pushed')
    BY <1>6 DEF Grown
  <2>1. \A m : m # n => VersionsIn(m, pushed') = VersionsIn(m, pushed)
    BY <1>1, <1>5, <2>0, VersionsGrow
  <2>2. VersionsIn(n, pushed') = VersionsIn(n, pushed) \cup {v}
    BY <1>1, <1>5, <2>0, VersionsGrow
  <2> QED
    BY <2>1, <2>2
<1> DEFINE g == [q \in Pointers |-> IF q \in ft THEN {v} ELSE ptr[n][q]]
<1>11. /\ g \in [Pointers -> SUBSET Version]
       /\ \A q \in Pointers : g[q] = IF q \in ft THEN {v} ELSE ptr[n][q]
  BY <1>5, <1>8
<1>12. ptr' = [ptr EXCEPT ![n] = g]
  BY <1>7
<1> HIDE DEF g
<1>13. /\ ptr' \in [Names -> [Pointers -> SUBSET Version]]
       /\ \A m \in Names : ptr'[m] = IF m = n THEN g ELSE ptr[m]
  BY <1>8, <1>11, <1>12
<1>14. \A m \in Names : \A q \in Pointers :
         ptr'[m][q] = IF m = n /\ q \in ft THEN {v} ELSE ptr[m][q]
  BY <1>11, <1>13
<1> QED
  BY <1>1, <1>3, <1>5, <1>6, <1>9, <1>10, <1>13, <1>14 DEF n, v, ft

\* A push keeps it: the pointers it moves name what it pushed.
LEMMA PushKeeps ==
  ASSUME IInv, NEW b \in Branches, PushProject(b)
  PROVE  IInv'
<1> DEFINE n == Project(b).name
           v == Project(b).version
           x == [pr[b] EXCEPT !.pc = "pushed"]
<1>1. /\ n \in Names /\ v \in Version
      /\ pr[b] \in PRs /\ pr[b].pc = "listed" /\ pr[b].k \in 1..Len(pr[b].meta)
      /\ pushed' = pushed \cup {<<n, v>>}
      /\ pushed' \in SUBSET Pairs /\ IsFiniteSet(pushed')
  BY PushIs
<1>2. /\ \A m : VersionsIn(m, pushed') = IF m = n THEN VersionsIn(m, pushed) \cup {v}
                                         ELSE VersionsIn(m, pushed)
      /\ ptr' \in [Names -> [Pointers -> SUBSET Version]]
      /\ \A m \in Names : \A q \in Pointers :
           ptr'[m][q] = IF m = n /\ q \in FloatingTags(v, pr[b].known) THEN {v} ELSE ptr[m][q]
  BY PushIs
<1>3. pr' = [pr EXCEPT ![b] = x]
  BY DEF PushProject, IInv, Typed
<1>4. /\ x \in PRs /\ x.pc = "pushed" /\ x.k = pr[b].k /\ x.meta = pr[b].meta
  BY <1>1 DEF PRs
<1> HIDE DEF x
<1>5. RightPR(x, pushed', run)
  <2>1. RightPR(pr[b], pushed, run)
    BY DEF IInv
  <2>2. Underway(x)
    BY <2>1, <1>1, <1>4 DEF RightPR, Underway
  <2>3. AtWork(x, pushed')
    BY <1>1, <1>4 DEF AtWork, Project
  <2> QED
    BY <2>2, <2>3, <1>4 DEF RightPR
<1>6. file' = file /\ run' = run /\ tags' = tags /\ plain' = plain /\ stale' \in BOOLEAN
  BY DEF PushProject, IInv, Typed
<1>7. pr' \in [Branches -> PRs] /\ \A c \in Branches : RightPR(pr'[c], pushed', run')
  BY <1>1, <1>3, <1>4, <1>5, <1>6, AllMove
<1>8. ASSUME NEW m \in Names, NEW q \in Pointers
      PROVE  RightPtr(ptr'[m][q], VersionsIn(m, pushed'))
  <2>1. RightPtr(ptr[m][q], VersionsIn(m, pushed))
    BY DEF IInv
  <2>2. VersionsIn(m, pushed) \subseteq VersionsIn(m, pushed')
    BY <1>2
  <2>3. RightPtr(ptr[m][q], VersionsIn(m, pushed'))
    BY <2>1, <2>2, PtrLater
  <2>4. ASSUME m = n PROVE RightPtr({v}, VersionsIn(m, pushed'))
    BY <2>4, <1>2 DEF RightPtr
  <2> QED
    BY <2>3, <2>4, <1>2
<1>9. Typed'
  BY <1>1, <1>2, <1>6, <1>7 DEF IInv, Typed
<1> QED
  BY <1>1, <1>6, <1>7, <1>8, <1>9 DEF IInv

\* What TagProject does to the tags and to the release.
LEMMA TagIs ==
  ASSUME IInv, NEW b \in Branches, TagProject(b)
  PROVE  \E x \in PRs :
           /\ <<Project(b).name, Project(b).version>> \in pushed
           /\ <<Project(b).name, Project(b).version>> \in Pairs
           /\ Project(b) \in Listed(pr[b].meta)
           /\ pr' = [pr EXCEPT ![b] = x]
           /\ x.pc = "built" /\ x.meta = pr[b].meta
           /\ RightPR(x, pushed, run)
<1> DEFINE x == [pr[b] EXCEPT !.pc = "built", !.k = @ + 1, !.known = {}]
<1>1. pr[b].pc = "pushed" /\ pr[b] \in PRs /\ pr \in [Branches -> PRs]
  BY DEF TagProject, IInv, Typed
<1>2. RightPR(pr[b], pushed, run)
  BY DEF IInv
<1>3. AtWork(pr[b], pushed) /\ Underway(pr[b])
  BY <1>1, <1>2 DEF RightPR
<1>4. pr[b].k \in 1..Len(pr[b].meta) /\ <<Project(b).name, Project(b).version>> \in pushed
  BY <1>1, <1>3 DEF AtWork, Project
<1>5. ~Done(b) /\ pr[b].pc # "none"
  BY <1>1, <1>4 DEF Done, PRs
<1>6. <<Project(b).name, Project(b).version>> \in Pairs /\ Project(b) \in Listed(pr[b].meta)
  BY <1>5, IsAt
<1>7. pr' = [pr EXCEPT ![b] = x]
  BY <1>1 DEF TagProject
<1>8. x \in PRs /\ x.pc = "built" /\ x.meta = pr[b].meta /\ x.k = pr[b].k + 1
  <2>1. pr[b].k + 1 \in Nat /\ {} \in SUBSET Version
    BY <1>1 DEF PRs
  <2> DEFINE j == pr[b].k + 1
  <2>2. x = [pr[b] EXCEPT !.pc = "built", !.k = j, !.known = {}]
    OBVIOUS
  <2> HIDE DEF j, x
  <2>3. x \in PRs /\ x.pc = "built" /\ x.meta = pr[b].meta /\ x.k = j
    BY <1>1, <2>1, <2>2 DEF PRs, j
  <2> QED
    BY <2>3 DEF j
<1> HIDE DEF x
<1>9. Len(pr[b].meta) \in Nat
  BY <1>1 DEF PRs
<1>10. RightPR(x, pushed, run)
  BY <1>3, <1>4, <1>8, <1>9 DEF RightPR, Underway
<1> QED
  BY <1>4, <1>6, <1>7, <1>8, <1>10

\* A tag keeps it: it is for what was pushed.
LEMMA TagKeeps ==
  ASSUME IInv, NEW b \in Branches, TagProject(b)
  PROVE  IInv'
<1>1. PICK x \in PRs : /\ <<Project(b).name, Project(b).version>> \in pushed
                       /\ <<Project(b).name, Project(b).version>> \in Pairs
                       /\ pr' = [pr EXCEPT ![b] = x]
                       /\ RightPR(x, pushed, run)
  BY TagIs
<1>2. /\ file' = file /\ run' = run /\ pushed' = pushed /\ ptr' = ptr /\ stale' = stale
      /\ tags' = tags \cup {<<Project(b).name, Project(b).version>>}
      /\ plain' = plain \cup {Project(b).version}
  BY DEF TagProject
<1>3. pushed' \in SUBSET Pairs /\ pushed \subseteq pushed' /\ RightPR(x, pushed', run)
  BY <1>1, <1>2 DEF IInv, Typed
<1>4. pr' \in [Branches -> PRs] /\ \A c \in Branches : RightPR(pr'[c], pushed', run')
  BY <1>1, <1>2, <1>3, AllMove
<1>5. tags' \in SUBSET Pairs /\ tags' \subseteq pushed'
  BY <1>1, <1>2 DEF IInv, Typed
<1>6. plain' = {t[2] : t \in tags'}
  <2> DEFINE y == <<Project(b).name, Project(b).version>>
  <2>1. y[2] = Project(b).version /\ tags' = tags \cup {y}
    BY <1>2
  <2>2. plain = {t[2] : t \in tags}
    BY DEF IInv
  <2> HIDE DEF y
  <2> QED
    BY <2>1, <2>2, <1>2
<1>7. Typed'
  BY <1>2, <1>3, <1>4, <1>5 DEF IInv, Typed
<1> QED
  BY <1>2, <1>4, <1>5, <1>6, <1>7 DEF IInv

-----------------------------------------------------------------------------
(* Part 2: the theorem                                                      *)

\* Every step keeps the invariant.
LEMMA NextIInv == IInv /\ [Next]_vars => IInv'
<1> SUFFICES ASSUME IInv, [Next]_vars PROVE IInv'
  OBVIOUS
<1>1. CASE UNCHANGED vars
  BY <1>1 DEF vars, IInv, Typed
<1>2. ASSUME NEW b \in Branches, NEW g \in Groups, Bump(b, g) PROVE IInv'
  BY <1>2, BumpKeeps
<1>3. ASSUME NEW b \in Branches,
             CreatePR(b) \/ BuildPack(b) \/ ListVersions(b) \/ PushProject(b)
             \/ TagProject(b) \/ Close(b)
      PROVE  IInv'
  BY <1>3, CreateKeeps, BuildKeeps, ListKeeps, PushKeeps, TagKeeps, CloseKeeps
<1> QED
  BY <1>1, <1>2, <1>3 DEF Next

\* The invariant holds of every behaviour.
THEOREM Invariance == Spec => []IInv
BY InitIInv, NextIInv, PTL DEF Spec

\* It implies what the runs check.
LEMMA IInvFlowTypeOK == IInv => FlowTypeOK
<1> SUFFICES ASSUME IInv PROVE FlowTypeOK
  OBVIOUS
<1>1. ASSUME NEW n \in Names, NEW q \in Pointers
      PROVE  Cardinality(ptr[n][q]) <= 1 /\ ptr[n][q] \subseteq VersionsIn(n, pushed)
  <2>1. RightPtr(ptr[n][q], VersionsIn(n, pushed))
    BY DEF IInv
  <2>2. CASE ptr[n][q] = {}
    BY <2>2, FS_EmptySet
  <2>3. ASSUME NEW v \in VersionsIn(n, pushed), ptr[n][q] = {v}
        PROVE  Cardinality(ptr[n][q]) <= 1 /\ ptr[n][q] \subseteq VersionsIn(n, pushed)
    BY <2>3, FS_Singleton
  <2> QED
    BY <2>1, <2>2, <2>3 DEF RightPtr
<1>2. ASSUME NEW b \in Branches
      PROVE  /\ pr[b].pc \in {"none", "open", "built", "listed", "pushed"}
             /\ pr[b].k \in 1 .. Len(pr[b].meta) + 1
             /\ pr[b].pc \in {"listed", "pushed"} => ~Done(b)
  <2>1. pr[b] \in PRs /\ RightPR(pr[b], pushed, run)
    BY DEF IInv, Typed
  <2>2. pr[b].pc \in {"none", "open", "built", "listed", "pushed"} /\ Len(pr[b].meta) \in Nat
    BY <2>1 DEF PRs
  <2>3. CASE pr[b].pc = "none"
    BY <2>1, <2>3 DEF RightPR, NoPR
  <2>4. CASE pr[b].pc # "none"
    BY <2>1, <2>2, <2>4 DEF RightPR, Underway, AtWork, Done
  <2> QED
    BY <2>2, <2>3, <2>4
<1> QED
  BY <1>1, <1>2 DEF FlowTypeOK, IInv

\* Every pointer names at most one version, one of the registry; a tag is only
\* there for what was pushed; a release is at a project of its PR - for any
\* branches, groups and projects.
THEOREM FlowTyped == Spec => []FlowTypeOK
BY Invariance, IInvFlowTypeOK, PTL

-----------------------------------------------------------------------------
(* Part 3: pointers                                                         *)

\* What a pointer names when all is well.
Right(q, S) == IF Class(q, S) = {} THEN {} ELSE {Highest(Class(q, S))}

\* A version that is pushed with all others known moves a pointer to it
\* exactly if it is now the highest of the pointer's class.
THEOREM MovedRight ==
  ASSUME NEW V \in SUBSET Version, IsFiniteSet(V), NEW v \in Version,
         NEW known, known \cup {v} = V \cup {v}, NEW q \in Pointers
  PROVE  Right(q, V \cup {v}) = IF q \in FloatingTags(v, known) THEN {v} ELSE Right(q, V)
<1> DEFINE E == V \cup {v}
           C == Class(q, V)
           D == Class(q, E)
<1>1. IsFiniteSet(E) /\ E \in SUBSET Version
  BY FS_AddElement
<1>2. C \in SUBSET V /\ D \in SUBSET E
  BY DEF Class
<1>3. IsFiniteSet(C) /\ IsFiniteSet(D) /\ C \in SUBSET Version /\ D \in SUBSET Version
  BY <1>1, <1>2, FS_Subset
<1>4. D = C \/ D = C \cup {v}
  BY DEF Class
<1>5. v \notin D => D = C
  BY <1>4
<1>6. q \in FloatingTags(v, known) <=> v \in D /\ v = Highest(D)
  BY DEF FloatingTags
<1> HIDE DEF C, D, E
<1>7. CASE v \notin D
  BY <1>5, <1>6, <1>7 DEF Right, C, D, E
<1>8. CASE v \in D /\ v = Highest(D)
  <2>1. D # {}
    BY <1>8
  <2> QED
    BY <1>6, <1>8, <2>1 DEF Right, D, E
<1>9. CASE v \in D /\ v # Highest(D)
  <2>1. Highest(D) \in D /\ \A w \in D : w = Highest(D) \/ Less(w, Highest(D))
    BY <1>3, <1>9, HighestIs
  <2>2. Highest(D) \in C /\ \A w \in C : w = Highest(D) \/ Less(w, Highest(D))
    BY <1>4, <1>9, <2>1
  <2>3. Highest(C) = Highest(D)
    BY <1>3, <2>2, HighestUnique
  <2>4. C # {} /\ D # {}
    BY <2>1, <2>2
  <2> QED
    BY <1>6, <1>9, <2>3, <2>4 DEF Right, C, D, E
<1> QED
  BY <1>7, <1>8, <1>9

\* The property of the pointers, by way of Right.
High == ~stale => \A n \in Names : \A q \in Pointers : ptr[n][q] = Right(q, VersionsIn(n, pushed))

\* The same as the property that the run checks.
LEMMA HighIs == High <=> PointersAreHighest
BY DEF High, Right, PointersAreHighest

\* At the start there is nothing to point to.
LEMMA InitHigh == Init => High
<1> SUFFICES ASSUME Init, NEW n \in Names, NEW q \in Pointers
             PROVE  ptr[n][q] = Right(q, VersionsIn(n, pushed))
  BY DEF High
<1>1. ptr[n][q] = {} /\ pushed = {}
  BY DEF Init
<1>2. Class(q, VersionsIn(n, pushed)) = {}
  BY <1>1 DEF VersionsIn, Class
<1> QED
  BY <1>1, <1>2 DEF Right

\* A push that knew all others moves what it has to move, and nothing else.
LEMMA PushHigh ==
  ASSUME IInv, High, NEW b \in Branches, PushProject(b)
  PROVE  High'
<1> SUFFICES ASSUME ~stale', NEW m \in Names, NEW q \in Pointers
             PROVE  ptr'[m][q] = Right(q, VersionsIn(m, pushed'))
  BY DEF High
<1> DEFINE n == Project(b).name
           v == Project(b).version
           known == pr[b].known
<1>1. /\ n \in Names /\ v \in Version
      /\ known \subseteq VersionsIn(n, pushed)
      /\ ptr'[m][q] = IF m = n /\ q \in FloatingTags(v, known) THEN {v} ELSE ptr[m][q]
  BY PushIs
<1>2. VersionsIn(m, pushed') = IF m = n THEN VersionsIn(m, pushed) \cup {v}
                               ELSE VersionsIn(m, pushed)
  BY PushIs
<1>3. ~stale /\ VersionsIn(n, pushed) \subseteq known \cup {v}
  BY DEF PushProject
<1>4. ptr[m][q] = Right(q, VersionsIn(m, pushed))
  BY <1>3 DEF High
<1>5. pushed \in SUBSET Pairs /\ IsFiniteSet(pushed)
  BY DEF IInv, Typed
<1> HIDE DEF n, v, known
<1>6. CASE m = n
  <2>1. IsFiniteSet(VersionsIn(n, pushed)) /\ VersionsIn(n, pushed) \in SUBSET Version
    BY <1>5, VersionsFinite, VersionsAre
  <2>2. known \cup {v} = VersionsIn(n, pushed) \cup {v}
    BY <1>1, <1>3
  <2>3. Right(q, VersionsIn(n, pushed) \cup {v})
          = IF q \in FloatingTags(v, known) THEN {v} ELSE Right(q, VersionsIn(n, pushed))
    BY <1>1, <2>1, <2>2, MovedRight
  <2> QED
    BY <1>1, <1>2, <1>4, <1>6, <2>3
<1>7. CASE m # n
  BY <1>1, <1>2, <1>4, <1>7
<1> QED
  BY <1>6, <1>7

\* No other step touches the registry or the pointers.
LEMMA NextHigh == IInv /\ High /\ [Next]_vars => High'
<1> SUFFICES ASSUME IInv, High, [Next]_vars PROVE High'
  OBVIOUS
<1>1. CASE UNCHANGED <<ptr, pushed, stale>>
  BY <1>1 DEF High
<1>2. ASSUME NEW b \in Branches, PushProject(b) PROVE High'
  BY <1>2, PushHigh
<1>3. CASE UNCHANGED vars
  BY <1>1, <1>3 DEF vars
<1>4. ASSUME NEW b \in Branches, NEW g \in Groups, Bump(b, g)
      PROVE  UNCHANGED <<ptr, pushed, stale>>
  BY <1>4 DEF Bump
<1>5. ASSUME NEW b \in Branches,
             CreatePR(b) \/ BuildPack(b) \/ ListVersions(b) \/ TagProject(b) \/ Close(b)
      PROVE  UNCHANGED <<ptr, pushed, stale>>
  BY <1>5 DEF CreatePR, BuildPack, ListVersions, TagProject, Close
<1> QED
  BY <1>1, <1>2, <1>3, <1>4, <1>5 DEF Next

\* A pointer names the highest version of its class - `latest' the highest stable
\* one, whatever branches publish in whatever order - as long as nobody acted on
\* an outdated list of tags.
THEOREM PointersHighest == Spec => []PointersAreHighest
<1>1. Init => High
  BY InitHigh
<1>2. IInv /\ High /\ [Next]_vars => High'
  BY NextHigh
<1>3. High => PointersAreHighest
  BY HighIs
<1> QED
  BY <1>1, <1>2, <1>3, Invariance, PTL DEF Spec

-----------------------------------------------------------------------------
(* Part 3: metadata and bumps                                               *)

\* The invariant says what each reader finds.
LEMMA IInvMetadata == IInv => MetadataSurvives
<1> SUFFICES ASSUME IInv, NEW b \in Branches, pr[b].pc # "none"
             PROVE
        /\ Len(pr[b].meta) = Cardinality(Names)
        /\ {p.name : p \in Listed(pr[b].meta)} = Names
        /\ \A p \in Listed(pr[b].meta) : \A k \in DOMAIN GroupSeq :
             p.name \in NamesOf(k) =>
               \A q \in Listed(pr[b].meta) : q.name \in NamesOf(k) =>
                 p.version = q.version /\ p.id = q.id
        /\ \A p \in Listed(pr[b].meta) :
             /\ p.version # <<>>
             /\ pr[b].pc = "open" => p.id = 0
  BY DEF MetadataSurvives
<1> DEFINE meta == pr[b].meta
<1>1. RightPR(pr[b], pushed, run)
  BY DEF IInv
<1>2. PICK d \in Nat : Whole(meta, d)
  BY <1>1 DEF RightPR, Underway
<1>3. pr[b].pc = "open" => Whole(meta, 0)
  BY <1>1 DEF RightPR, Opened
<1> HIDE DEF meta
<1>4. Len(meta) = Cardinality(Names) /\ {p.name : p \in Listed(meta)} = Names
  BY <1>2 DEF Whole
<1>5. ASSUME NEW p \in Listed(meta), NEW k \in DOMAIN GroupSeq, p.name \in NamesOf(k),
             NEW q \in Listed(meta), q.name \in NamesOf(k)
      PROVE  p.version = q.version /\ p.id = q.id
  BY <1>2, <1>5 DEF Whole
<1>6. ASSUME NEW p \in Listed(meta) PROVE p.version # <<>>
  <2>1. p.version \in Version
    BY <1>2 DEF Whole, ProjectSet
  <2>2. \A v \in Version : v # <<>>
    <3> TAKE v \in Version
    <3>1. DOMAIN v = {"base", "pre"}
      BY DEF Version
    <3>2. DOMAIN <<>> = {}
      OBVIOUS
    <3> QED
      BY <3>1, <3>2
  <2> QED
    BY <2>1, <2>2
<1>7. ASSUME NEW p \in Listed(meta), pr[b].pc = "open" PROVE p.id = 0
  BY <1>3, <1>7 DEF Whole
<1> QED
  BY <1>4, <1>5, <1>6, <1>7 DEF meta

\* Every job reads every project once, in the version of its group, and after
\* build-pack with the id of its release or without any.
THEOREM MetadataKept == Spec => []MetadataSurvives
BY Invariance, IInvMetadata, PTL

\* The steps that BumpsGoUp allows.
BumpUp == \A b \in Branches : \A g \in Groups : file'[b][g] # file[b][g] =>
            Less(file[b][g], file'[b][g]) /\ file'[b][g] \notin plain

\* Only a bump changes versions.yml.
LEMMA NextBumpUp == IInv /\ [Next]_vars => BumpUp
<1> SUFFICES ASSUME IInv, [Next]_vars, NEW c \in Branches, NEW h \in Groups,
                    file'[c][h] # file[c][h]
             PROVE  Less(file[c][h], file'[c][h]) /\ file'[c][h] \notin plain
  BY DEF BumpUp
<1>1. file' # file
  OBVIOUS
<1>2. PICK b \in Branches : \E g \in Groups : Bump(b, g)
  <2>1. ASSUME NEW b \in Branches,
               CreatePR(b) \/ BuildPack(b) \/ ListVersions(b) \/ PushProject(b)
               \/ TagProject(b) \/ Close(b)
        PROVE  FALSE
    BY <2>1, <1>1 DEF CreatePR, BuildPack, ListVersions, PushProject, TagProject, Close
  <2> QED
    BY <1>1, <2>1 DEF Next, vars
<1>3. PICK g \in Groups : Bump(b, g)
  BY <1>2
<1>4. PICK o \in Offered(file[b][g], plain) : file' = [file EXCEPT ![b][g] = o]
  BY <1>3 DEF Bump
<1>5. file \in [Branches -> [Groups -> Version]]
  BY DEF IInv, Typed
<1>6. c = b /\ h = g /\ file'[c][h] = o
  BY <1>4, <1>5
<1>7. file[b][g] \in Version
  BY <1>5
<1>8. Less(file[b][g], o) /\ o \notin plain
  BY <1>7, OfferedGoesUp
<1> QED
  BY <1>6, <1>8

\* A bump goes up, to a version whose plain tag nobody has.
THEOREM BumpsUp == Spec => BumpsGoUp
<1>1. IInv /\ [Next]_vars => [BumpUp]_vars
  BY NextBumpUp
<1>2. Spec => [][BumpUp]_vars
  BY <1>1, Invariance, PTL DEF Spec
<1> QED
  BY <1>2 DEF BumpsGoUp, BumpUp

-----------------------------------------------------------------------------
(* Part 3: fresh versions                                                   *)

\* Nobody but create-release-pr uses the word it marks taken versions with.
NobodySaysBuild ==
  /\ \A b \in Branches : NoBuild(BranchIds[b])
  /\ \A b \in Branches : \A g \in Groups : NoBuild(Files[b][g].pre)

\* No number behind the word is one of a later run.
Since(v, r) ==
  \A i \in 1..Len(v.pre) :
    i < Len(v.pre) /\ v.pre[i] = Word("build") => v.pre[i+1][2] <= r

\* What an earlier run made is what a later one finds.
LEMMA SinceLater ==
  ASSUME NEW v \in Version, NEW r \in Nat, NEW s \in Nat, r <= s, Since(v, r)
  PROVE  Since(v, s)
<1>1. v.pre \in Seq(Ident)
  BY DEF Version
<1> DEFINE q == v.pre
<1>2. ASSUME NEW i \in 1..Len(q), i < Len(q), q[i] = Word("build") PROVE q[i+1][2] <= s
  <2>1. Len(q) \in Nat /\ i + 1 \in 1..Len(q)
    BY <1>1, <1>2
  <2>2. q[i+1] \in Ident
    BY <1>1, <2>1
  <2>3. q[i+1][2] \in Nat
    BY <2>2 DEF Ident
  <2>4. q[i+1][2] <= r
    BY <1>2 DEF Since
  <2> QED
    BY <2>3, <2>4
<1> QED
  BY <1>2 DEF Since

\* The pre-release of a resolved version, and where the number of the run is.
LEMMA NoBuildBoth ==
  ASSUME NEW p \in Seq(Ident), NEW q \in Seq(Ident), NoBuild(p), NoBuild(q)
  PROVE  NoBuild(p \o q)
<1>1. /\ Len(p) \in Nat /\ Len(q) \in Nat /\ Len(p \o q) = Len(p) + Len(q)
      /\ \A i \in 1..Len(p) : (p \o q)[i] = p[i]
      /\ \A i \in 1..Len(q) : (p \o q)[Len(p) + i] = q[i]
  OBVIOUS
<1>2. ASSUME NEW i \in 1..Len(p \o q) PROVE (p \o q)[i] # Word("build")
  <2>1. CASE i <= Len(p)
    BY <1>1, <1>2, <2>1 DEF NoBuild
  <2>2. CASE i > Len(p)
    <3>1. i - Len(p) \in 1..Len(q) /\ i = Len(p) + (i - Len(p))
      BY <1>1, <2>2
    <3> QED
      BY <1>1, <3>1 DEF NoBuild
  <2> QED
    BY <1>1, <2>1, <2>2
<1> QED
  BY <1>2 DEF NoBuild

\* A pre-release with the suffix of a run behind it.
LEMMA Suffixed ==
  ASSUME NEW p \in Seq(Ident), NEW r \in Nat
  PROVE  /\ Len(p) \in Nat /\ Len(p \o Suffix(r)) = Len(p) + 2
         /\ p \o Suffix(r) \in Seq(Ident)
         /\ \A i \in 1..Len(p) : (p \o Suffix(r))[i] = p[i]
         /\ (p \o Suffix(r))[Len(p) + 1] = Word("build")
         /\ (p \o Suffix(r))[Len(p) + 2] = <<0, r>>
<1> DEFINE q == Suffix(r)
<1>1. q \in Seq(Ident) /\ Len(q) = 2 /\ q[1] = Word("build") /\ q[2] = <<0, r>>
  BY SuffixTyped
<1> HIDE DEF q
<1>2. /\ Len(p) \in Nat /\ Len(p \o q) = Len(p) + Len(q) /\ p \o q \in Seq(Ident)
      /\ \A i \in 1..Len(p) : (p \o q)[i] = p[i]
      /\ \A i \in 1..Len(q) : (p \o q)[Len(p) + i] = q[i]
  <2>1. \A w \in Seq(Ident) :
          /\ Len(p) \in Nat /\ Len(p \o w) = Len(p) + Len(w) /\ p \o w \in Seq(Ident)
          /\ \A i \in 1..Len(p) : (p \o w)[i] = p[i]
          /\ \A i \in 1..Len(w) : (p \o w)[Len(p) + i] = w[i]
    OBVIOUS
  <2> QED
    BY <2>1, <1>1
<1> QED
  BY <1>1, <1>2 DEF q

\* A resolved version bears no number of a later run.
THEOREM ResolvedSince ==
  ASSUME NobodySaysBuild, NEW b \in Branches, NEW v \in Version, NoBuild(v.pre), NEW n,
         NEW r \in Nat
  PROVE  Since(Resolve(b, v, n, r), r)
<1> DEFINE o == Resolve(b, v, n, r)
<1>1. PICK pre \in Seq(Ident) : Made(o, pre, b, v, VersionsIn(n, tags), r)
  BY ResolveIs
<1> SUFFICES Since(o, r)
  OBVIOUS
<1> HIDE DEF o
<1>2. NoBuild(pre)
  <2> DEFINE ids == BranchIds[b]
  <2>1. NoBuild(ids)
    BY DEF NobodySaysBuild
  <2>2. ids \in Seq(Ident)
    <3>1. BranchIds \in [Branches -> Seq(Ident)]
      BY FlowAssumption
    <3> QED
      BY <3>1
  <2>3. v.pre \in Seq(Ident)
    BY DEF Version
  <2>4. pre = v.pre \/ pre = ids \/ pre = ids \o v.pre
    BY <1>1 DEF Made
  <2> HIDE DEF ids
  <2>5. NoBuild(ids \o v.pre)
    BY <2>1, <2>2, <2>3, NoBuildBoth
  <2> QED
    BY <2>1, <2>4, <2>5
<1>3. v.base \in Triple /\ Len(pre) \in Nat
  BY DEF Version
<1>4. o.pre = pre \/ o.pre = pre \o Suffix(r)
  BY <1>1 DEF Made, Ver
<1>5. CASE o.pre = pre
  BY <1>2, <1>5 DEF Since, NoBuild
<1>6. CASE o.pre = pre \o Suffix(r)
  <2> DEFINE q == pre \o Suffix(r)
  <2>1. /\ Len(q) = Len(pre) + 2
        /\ \A i \in 1..Len(pre) : q[i] = pre[i]
        /\ q[Len(pre) + 2] = <<0, r>>
    BY Suffixed
  <2> HIDE DEF q
  <2>2. ASSUME NEW i \in 1..Len(q), i < Len(q), q[i] = Word("build") PROVE q[i+1][2] <= r
    <3>1. i \notin 1..Len(pre)
      BY <1>2, <2>1, <2>2 DEF NoBuild
    <3>2. i + 1 = Len(pre) + 2
      BY <1>3, <2>1, <2>2, <3>1
    <3>3. q[i+1] = <<0, r>>
      BY <2>1, <3>2
    <3> QED
      BY <3>3
  <2>3. o.pre = q
    BY <1>6 DEF q
  <2> QED
    BY <2>2, <2>3 DEF Since
<1> QED
  BY <1>4, <1>5, <1>6

\* A version that gets the number of a run is none that an earlier run made.
LEMMA SuffixIsNew ==
  ASSUME NEW pre \in Seq(Ident), NEW base, NEW r \in Nat, NEW w, Since(w, r)
  PROVE  w # Ver(base, pre \o Suffix(r + 1))
<1> SUFFICES ASSUME w = Ver(base, pre \o Suffix(r + 1)) PROVE FALSE
  OBVIOUS
<1> DEFINE q == pre \o Suffix(r + 1)
<1>1. /\ Len(pre) \in Nat /\ Len(q) = Len(pre) + 2
      /\ q[Len(pre) + 1] = Word("build")
      /\ q[Len(pre) + 2] = <<0, r + 1>>
  <2>1. r + 1 \in Nat
    OBVIOUS
  <2> QED
    BY <2>1, Suffixed
<1>2. w.pre = q
  BY DEF Ver
<1> HIDE DEF q
<1> DEFINE i == Len(pre) + 1
<1>3. i \in 1..Len(q) /\ i < Len(q) /\ i + 1 = Len(pre) + 2
  BY <1>1
<1>4. q[i+1][2] <= r
  BY <1>1, <1>2, <1>3 DEF Since
<1>5. q[i+1][2] = r + 1
  BY <1>1, <1>3
<1> QED
  BY <1>4, <1>5

\* A release with versions that no later run has made.
SinceGroups(groups, r) ==
  \A k \in 1..Len(GroupSeq) : \A j \in 1..Len(GroupSeq[k].names) :
    /\ groups[k].projects[j].version \in Version
    /\ Since(groups[k].projects[j].version, r)
SinceMeta(meta, r) ==
  \A p \in Listed(meta) : p.version \in Version /\ Since(p.version, r)
SincePR(p, r) ==
  /\ p.pc # "none" => SinceMeta(p.meta, r)
  /\ p.pc = "open" => \E groups : Shaped(groups) /\ p.body = Render(groups) /\ SinceGroups(groups, r)

\* What FreshVersions needs to know of the past.
FInv ==
  /\ \A b \in Branches : \A g \in Groups : NoBuild(file[b][g].pre)
  /\ \A t \in tags : Since(t[2], run)
  /\ \A b \in Branches : SincePR(pr[b], run)

\* The same for the groups of a PR.
LEMMA GroupsLater ==
  ASSUME NEW groups, NEW r \in Nat, NEW s \in Nat, r <= s, SinceGroups(groups, r)
  PROVE  SinceGroups(groups, s)
BY SinceLater DEF SinceGroups

\* And for a PR.
LEMMA PRLater ==
  ASSUME NEW p, NEW r \in Nat, NEW s \in Nat, r <= s, SincePR(p, r)
  PROVE  SincePR(p, s)
<1>1. SinceMeta(p.meta, r) => SinceMeta(p.meta, s)
  BY SinceLater DEF SinceMeta
<1>2. ASSUME p.pc = "open"
      PROVE  \E groups : Shaped(groups) /\ p.body = Render(groups) /\ SinceGroups(groups, s)
  <2>1. PICK groups : Shaped(groups) /\ p.body = Render(groups) /\ SinceGroups(groups, r)
    BY <1>2 DEF SincePR
  <2>2. SinceGroups(groups, s)
    BY <2>1, GroupsLater
  <2> QED
    BY <2>1, <2>2
<1> QED
  BY <1>1, <1>2 DEF SincePR

\* What is read from the groups is as old as they are.
LEMMA CopySince ==
  ASSUME NEW meta, NEW groups, CopyOf(meta, groups), NEW r, SinceGroups(groups, r)
  PROVE  SinceMeta(meta, r)
<1> SUFFICES ASSUME NEW p \in Listed(meta) PROVE p.version \in Version /\ Since(p.version, r)
  BY DEF SinceMeta
<1>1. PICK k \in DOMAIN GroupSeq : \E j \in DOMAIN GroupSeq[k].names :
        p.name = GroupSeq[k].names[j] /\ p.version = groups[k].projects[j].version
  BY DEF CopyOf
<1>2. PICK j \in DOMAIN GroupSeq[k].names : p.version = groups[k].projects[j].version
  BY <1>1
<1>3. k \in 1..Len(GroupSeq) /\ j \in 1..Len(GroupSeq[k].names)
  BY GroupSeqTyped
<1> QED
  BY <1>2, <1>3 DEF SinceGroups

\* The version of a group is one that was resolved for it now.
LEMMA HighestResolved ==
  ASSUME IInv, FInv, NobodySaysBuild, NEW b \in Branches, NEW k \in 1..Len(GroupSeq),
         NEW j \in 1..Len(GroupSeq[k].names)
  PROVE  LET v == Highest(Resolved(b, k, run + 1))
         IN  v \in Version /\ Since(v, run + 1)
<1> DEFINE v == Highest(Resolved(b, k, run + 1))
<1>1. /\ file \in [Branches -> [Groups -> Version]] /\ tags \in SUBSET Pairs
      /\ run + 1 \in Nat
  BY DEF IInv, Typed
<1>2. v \in Resolved(b, k, run + 1) /\ v \in Version
  BY <1>1, ResolvedAre
<1>3. GroupSeq[k].name \in Groups
  BY GroupSeqTyped
<1>4. file[b][GroupSeq[k].name] \in Version /\ NoBuild(file[b][GroupSeq[k].name].pre)
  BY <1>1, <1>3 DEF FInv
<1>5. PICK n : v = Resolve(b, file[b][GroupSeq[k].name], n, run + 1)
  BY <1>2 DEF Resolved
<1> HIDE DEF v
<1>6. Since(v, run + 1)
  BY <1>1, <1>4, <1>5, ResolvedSince
<1> QED
  BY <1>2, <1>6 DEF v

\* At the start no version was made.
LEMMA InitFInv == NobodySaysBuild /\ Init => FInv
<1> SUFFICES ASSUME NobodySaysBuild, Init PROVE FInv
  OBVIOUS
<1>1. \A b \in Branches : \A g \in Groups : NoBuild(file[b][g].pre)
  BY DEF Init, NobodySaysBuild
<1>2. tags = {} /\ \A b \in Branches : pr[b].pc = "none"
  BY DEF Init, NoPR
<1> QED
  BY <1>1, <1>2 DEF FInv, SincePR

\* One release changes, to one that is as old as the run.
LEMMA MoveSince ==
  ASSUME IInv, FInv, NEW b \in Branches, NEW x \in PRs, pr' = [pr EXCEPT ![b] = x],
         run' \in Nat, run <= run', SincePR(x, run')
  PROVE  \A c \in Branches : SincePR(pr'[c], run')
<1>1. pr \in [Branches -> PRs] /\ run \in Nat
  BY DEF IInv, Typed
<1>2. pr'[b] = x /\ \A c \in Branches : c # b => pr'[c] = pr[c]
  BY <1>1, OneMoves
<1>3. ASSUME NEW c \in Branches PROVE SincePR(pr'[c], run')
  <2>1. CASE c = b
    BY <2>1, <1>2
  <2>2. CASE c # b
    <3>1. SincePR(pr[c], run)
      BY DEF FInv
    <3>2. SincePR(pr[c], run')
      BY <3>1, <1>1, PRLater
    <3> QED
      BY <2>2, <1>2, <3>2
  <2> QED
    BY <2>1, <2>2
<1> QED
  BY <1>3

\* A bump brings no such word in.
LEMMA BumpSince ==
  ASSUME IInv, FInv, NEW b \in Branches, NEW g \in Groups, Bump(b, g)
  PROVE  FInv'
<1>1. file \in [Branches -> [Groups -> Version]]
  BY DEF IInv, Typed
<1>2. PICK o \in Offered(file[b][g], plain) : file' = [file EXCEPT ![b][g] = o]
  BY DEF Bump
<1>3. NoBuild(o.pre)
  <2>1. file[b][g] \in Version /\ NoBuild(file[b][g].pre)
    BY <1>1 DEF FInv
  <2> QED
    BY <2>1, OfferedGoesUp
<1>4. ASSUME NEW c \in Branches, NEW h \in Groups PROVE NoBuild(file'[c][h].pre)
  <2>1. file'[c][h] = IF c = b /\ h = g THEN o ELSE file[c][h]
    BY <1>1, <1>2
  <2> QED
    BY <2>1, <1>3 DEF FInv
<1>5. tags' = tags /\ run' = run /\ pr' = pr
  BY DEF Bump
<1> QED
  BY <1>4, <1>5 DEF FInv

\* A new PR proposes what this run or an earlier one made.
LEMMA CreateSince ==
  ASSUME IInv, FInv, NobodySaysBuild, NEW b \in Branches, CreatePR(b)
  PROVE  FInv'
<1>1. PICK groups :
        /\ Shaped(groups)
        /\ \A k \in 1..Len(GroupSeq) : \A j \in 1..Len(GroupSeq[k].names) :
             groups[k].projects[j].version = Highest(Resolved(b, k, run + 1))
        /\ pr'[b].pc = "open" /\ pr'[b].k = 1
        /\ pr'[b].body = Render(groups) /\ pr'[b].meta = Extract(Render(groups))
        /\ pr'[b] \in PRs /\ pr' = [pr EXCEPT ![b] = pr'[b]]
  BY CreatedIs
<1>2. run \in Nat /\ run' = run + 1 /\ file' = file /\ tags' = tags /\ tags \in SUBSET Pairs
  BY DEF IInv, Typed, CreatePR
<1>3. SinceGroups(groups, run')
  <2>1. ASSUME NEW k \in 1..Len(GroupSeq), NEW j \in 1..Len(GroupSeq[k].names)
        PROVE  /\ groups[k].projects[j].version \in Version
               /\ Since(groups[k].projects[j].version, run')
    BY <1>1, <1>2, HighestResolved
  <2> QED
    BY <2>1 DEF SinceGroups
<1>4. CopyOf(pr'[b].meta, groups)
  BY <1>1, OpenedReads
<1>5. SinceMeta(pr'[b].meta, run')
  BY <1>3, <1>4, CopySince
<1>6. SincePR(pr'[b], run')
  BY <1>1, <1>3, <1>5 DEF SincePR
<1>7. PICK x \in PRs : pr' = [pr EXCEPT ![b] = x] /\ SincePR(x, run')
  BY <1>1, <1>6
<1>8. run' \in Nat /\ run <= run'
  BY <1>2
<1>9. \A c \in Branches : SincePR(pr'[c], run')
  BY <1>7, <1>8, MoveSince
<1>10. ASSUME NEW t \in tags PROVE Since(t[2], run')
  <2>1. t[2] \in Version
    BY <1>2 DEF Pairs
  <2>2. Since(t[2], run)
    BY DEF FInv
  <2> QED
    BY <1>2, <1>8, <2>1, <2>2, SinceLater
<1> QED
  BY <1>2, <1>9, <1>10 DEF FInv

\* What is read after the ids are added is as old as what was proposed.
LEMMA BuildSince ==
  ASSUME IInv, FInv, NEW b \in Branches, BuildPack(b)
  PROVE  FInv'
<1>1. pr[b].pc = "open" /\ run \in Nat /\ run' = run /\ file' = file /\ tags' = tags
  BY DEF BuildPack, IInv, Typed
<1>2. SincePR(pr[b], run)
  BY DEF FInv
<1>3. PICK groups : Shaped(groups) /\ pr[b].body = Render(groups) /\ SinceGroups(groups, run)
  BY <1>1, <1>2 DEF SincePR
<1>4. /\ pr'[b] \in PRs /\ pr' = [pr EXCEPT ![b] = pr'[b]]
      /\ pr'[b].pc = "built" /\ CopyOf(pr'[b].meta, groups)
  BY <1>3, BuiltIs
<1>5. SinceMeta(pr'[b].meta, run)
  BY <1>3, <1>4, CopySince
<1>6. SincePR(pr'[b], run')
  BY <1>1, <1>4, <1>5 DEF SincePR
<1>7. PICK x \in PRs : pr' = [pr EXCEPT ![b] = x] /\ SincePR(x, run')
  BY <1>4, <1>6
<1>8. run' \in Nat /\ run <= run'
  BY <1>1
<1>9. \A c \in Branches : SincePR(pr'[c], run')
  BY <1>7, <1>8, MoveSince
<1> QED
  BY <1>1, <1>9 DEF FInv

\* The other steps leave the versions of the release as they are.
LEMMA SameSince ==
  ASSUME IInv, FInv, NEW b \in Branches, NEW x \in PRs, pr' = [pr EXCEPT ![b] = x],
         x.pc # "open", x.pc # "none" => pr[b].pc # "none" /\ x.meta = pr[b].meta, run' = run
  PROVE  \A c \in Branches : SincePR(pr'[c], run')
<1>1. SincePR(pr[b], run)
  BY DEF FInv
<1>2. SincePR(x, run')
  BY <1>1 DEF SincePR
<1>3. run' \in Nat /\ run <= run'
  BY DEF IInv, Typed
<1> QED
  BY <1>2, <1>3, MoveSince

\* Listing changes no version.
LEMMA ListSince ==
  ASSUME IInv, FInv, NEW b \in Branches, ListVersions(b) PROVE FInv'
<1>1. pr' \in [Branches -> PRs] /\ pr \in [Branches -> PRs]
  BY NextIInv DEF Next, IInv, Typed
<1>2. /\ file' = file /\ tags' = tags /\ run' = run
      /\ pr' = [pr EXCEPT ![b].pc = "listed", ![b].known = VersionsIn(Project(b).name, tags)]
      /\ pr[b].pc = "built"
  BY DEF ListVersions
<1>3. PICK x \in PRs : pr' = [pr EXCEPT ![b] = x] /\ x.pc = "listed" /\ x.meta = pr[b].meta
  <2> DEFINE y == [pr[b] EXCEPT !.pc = "listed", !.known = VersionsIn(Project(b).name, tags)]
  <2>1. pr' = [pr EXCEPT ![b] = y] /\ pr'[b] = y
    BY <1>1, <1>2
  <2>2. y.pc = "listed" /\ y.meta = pr[b].meta
    BY <1>1 DEF PRs
  <2>3. y \in PRs
    BY <1>1, <2>1
  <2> HIDE DEF y
  <2> QED
    BY <2>1, <2>2, <2>3
<1>4. \A c \in Branches : SincePR(pr'[c], run')
  BY <1>2, <1>3, SameSince
<1> QED
  BY <1>2, <1>4 DEF FInv

\* Nor does a push.
LEMMA PushSince ==
  ASSUME IInv, FInv, NEW b \in Branches, PushProject(b) PROVE FInv'
<1>1. pr' \in [Branches -> PRs] /\ pr \in [Branches -> PRs]
  BY NextIInv DEF Next, IInv, Typed
<1>2. /\ file' = file /\ tags' = tags /\ run' = run
      /\ pr' = [pr EXCEPT ![b].pc = "pushed"] /\ pr[b].pc = "listed"
  BY DEF PushProject
<1>3. PICK x \in PRs : pr' = [pr EXCEPT ![b] = x] /\ x.pc = "pushed" /\ x.meta = pr[b].meta
  <2> DEFINE y == [pr[b] EXCEPT !.pc = "pushed"]
  <2>1. pr' = [pr EXCEPT ![b] = y] /\ pr'[b] = y
    BY <1>1, <1>2
  <2>2. y.pc = "pushed" /\ y.meta = pr[b].meta
    BY <1>1 DEF PRs
  <2>3. y \in PRs
    BY <1>1, <2>1
  <2> HIDE DEF y
  <2> QED
    BY <2>1, <2>2, <2>3
<1>4. \A c \in Branches : SincePR(pr'[c], run')
  BY <1>2, <1>3, SameSince
<1> QED
  BY <1>2, <1>4 DEF FInv

\* A tag is as old as the PR it comes from.
LEMMA TagSince ==
  ASSUME IInv, FInv, NEW b \in Branches, TagProject(b) PROVE FInv'
<1>1. PICK x \in PRs : /\ <<Project(b).name, Project(b).version>> \in pushed
                       /\ <<Project(b).name, Project(b).version>> \in Pairs
                       /\ Project(b) \in Listed(pr[b].meta)
                       /\ pr' = [pr EXCEPT ![b] = x]
                       /\ x.pc = "built" /\ x.meta = pr[b].meta
                       /\ RightPR(x, pushed, run)
  BY TagIs
<1>2. /\ file' = file /\ run' = run /\ pr[b].pc = "pushed"
      /\ tags' = tags \cup {<<Project(b).name, Project(b).version>>}
  BY DEF TagProject
<1>3. \A c \in Branches : SincePR(pr'[c], run')
  BY <1>1, <1>2, SameSince
<1>4. Since(Project(b).version, run)
  <2>1. SincePR(pr[b], run)
    BY DEF FInv
  <2> QED
    BY <2>1, <1>1, <1>2 DEF SincePR, SinceMeta
<1>5. ASSUME NEW t \in tags' PROVE Since(t[2], run')
  <2>1. CASE t \in tags
    BY <2>1, <1>2 DEF FInv
  <2>2. CASE t = <<Project(b).name, Project(b).version>>
    BY <2>2, <1>2, <1>4
  <2> QED
    BY <1>2, <2>1, <2>2
<1> QED
  BY <1>2, <1>3, <1>5 DEF FInv

\* Nothing is left of a release that ends.
LEMMA CloseSince ==
  ASSUME IInv, FInv, NEW b \in Branches, Close(b) PROVE FInv'
<1>1. file' = file /\ tags' = tags /\ run' = run /\ pr' = [pr EXCEPT ![b] = NoPR]
  BY DEF Close
<1>2. NoPR \in PRs /\ NoPR.pc = "none"
  BY NoPRRight
<1>3. \A c \in Branches : SincePR(pr'[c], run')
  BY <1>1, <1>2, SameSince
<1> QED
  BY <1>1, <1>3 DEF FInv

\* Every step keeps what FreshVersions needs.
LEMMA NextFInv == NobodySaysBuild /\ IInv /\ FInv /\ [Next]_vars => FInv'
<1> SUFFICES ASSUME NobodySaysBuild, IInv, FInv, [Next]_vars PROVE FInv'
  OBVIOUS
<1>1. CASE UNCHANGED vars
  BY <1>1 DEF vars, FInv
<1>2. ASSUME NEW b \in Branches, NEW g \in Groups, Bump(b, g) PROVE FInv'
  BY <1>2, BumpSince
<1>3. ASSUME NEW b \in Branches,
             CreatePR(b) \/ BuildPack(b) \/ ListVersions(b) \/ PushProject(b)
             \/ TagProject(b) \/ Close(b)
      PROVE  FInv'
  BY <1>3, CreateSince, BuildSince, ListSince, PushSince, TagSince, CloseSince
<1> QED
  BY <1>1, <1>2, <1>3 DEF Next

\* When the projects of a group do not differ, each is resolved to its version.
LEMMA OneVersion ==
  ASSUME IInv, NEW b \in Branches, NEW k \in 1..Len(GroupSeq),
         NEW j \in 1..Len(GroupSeq[k].names), NEW r \in Nat, ~Mixed(b, k, r)
  PROVE  Highest(Resolved(b, k, r))
           = Resolve(b, file[b][GroupSeq[k].name], GroupSeq[k].names[j], r)
<1> DEFINE R == Resolved(b, k, r)
           v == Highest(R)
           w == Resolve(b, file[b][GroupSeq[k].name], GroupSeq[k].names[j], r)
<1>1. file \in [Branches -> [Groups -> Version]] /\ tags \in SUBSET Pairs
  BY DEF IInv, Typed
<1>2. IsFiniteSet(R) /\ v \in R
  BY <1>1, ResolvedAre
<1>3. w \in R
  BY GroupSeqTyped DEF Resolved, NamesOf
<1>4. ~(Cardinality(R) > 1)
  BY DEF Mixed
<1> HIDE DEF R, v, w
<1>5. Cardinality(R) \in Nat
  BY <1>2, FS_CardinalityType
<1>6. Cardinality(R) # 0
  BY <1>2, FS_EmptySet
<1>7. Cardinality(R) = 1
  BY <1>4, <1>5, <1>6
<1>8. \E x : R = {x}
  BY <1>2, <1>7, FS_Singleton
<1>9. v = w
  BY <1>2, <1>3, <1>8
<1> QED
  BY <1>9 DEF v, w, R

\* What a new PR proposes is not yet tagged.
LEMMA ProposedIsFresh ==
  ASSUME IInv, FInv, NEW b \in Branches, CreatePR(b), NEW k \in DOMAIN GroupSeq,
         ~Mixed(b, k, run'), NEW p \in Listed(pr'[b].meta), p.name \in NamesOf(k)
  PROVE  <<p.name, p.version>> \notin tags
<1>1. PICK groups :
        /\ Shaped(groups)
        /\ \A l \in 1..Len(GroupSeq) : \A i \in 1..Len(GroupSeq[l].names) :
             groups[l].projects[i].version = Highest(Resolved(b, l, run + 1))
        /\ pr'[b].meta = Extract(Render(groups))
  BY CreatedIs
<1>2. /\ run \in Nat /\ run + 1 \in Nat /\ run' = run + 1
      /\ file \in [Branches -> [Groups -> Version]] /\ tags \in SUBSET Pairs
  BY DEF IInv, Typed, CreatePR
<1>3. CopyOf(pr'[b].meta, groups)
  BY <1>1, OpenedReads
<1>4. PICK l \in DOMAIN GroupSeq : \E j \in DOMAIN GroupSeq[l].names :
        p.name = GroupSeq[l].names[j] /\ p.version = groups[l].projects[j].version
  BY <1>3 DEF CopyOf
<1>5. PICK j \in DOMAIN GroupSeq[l].names :
        p.name = GroupSeq[l].names[j] /\ p.version = groups[l].projects[j].version
  BY <1>4
<1>6. /\ k \in 1..Len(GroupSeq) /\ l \in 1..Len(GroupSeq) /\ j \in 1..Len(GroupSeq[l].names)
      /\ DOMAIN GroupSeq[k].names = 1..Len(GroupSeq[k].names)
  BY GroupSeqTyped
<1>7. PICK i \in 1..Len(GroupSeq[k].names) : p.name = GroupSeq[k].names[i]
  BY <1>6 DEF NamesOf
<1>8. k = l /\ i = j
  <2>1. GroupSeq[k].names[i] = GroupSeq[l].names[j]
    BY <1>5, <1>7
  <2>2. \A x, y \in 1..Len(GroupSeq) :
          \A d \in 1..Len(GroupSeq[x].names), e \in 1..Len(GroupSeq[y].names) :
            GroupSeq[x].names[d] = GroupSeq[y].names[e] => x = y /\ d = e
    BY NamesOnce
  <2>3. k \in 1..Len(GroupSeq) /\ l \in 1..Len(GroupSeq) /\ j \in 1..Len(GroupSeq[l].names)
    BY <1>6
  <2> QED
    BY ONLY <2>1, <2>2, <2>3, i \in 1..Len(GroupSeq[k].names)
<1> DEFINE v == file[b][GroupSeq[k].name]
           n == p.name
           o == Resolve(b, v, n, run + 1)
<1>9. p.version = o
  <2>1. ~Mixed(b, k, run + 1)
    BY <1>2
  <2>2. p.version = Highest(Resolved(b, k, run + 1))
    BY <1>1, <1>5, <1>6, <1>8
  <2>3. Highest(Resolved(b, k, run + 1)) = Resolve(b, v, GroupSeq[k].names[i], run + 1)
    BY <2>1, <1>2, <1>6, OneVersion
  <2> QED
    BY <2>2, <2>3, <1>7
<1>10. v \in Version
  <2>1. GroupSeq[k].name \in Groups
    BY <1>6, GroupSeqTyped
  <2> QED
    BY <2>1, <1>2
<1> HIDE DEF v, n
<1>11. PICK pre \in Seq(Ident) : Made(o, pre, b, v, VersionsIn(n, tags), run + 1)
  BY <1>2, <1>10, ResolveIs
<1> HIDE DEF o
<1>12. CASE o \notin VersionsIn(n, tags)
  <2>1. o \in VersionsIn(n, tags) <=> <<n, o>> \in tags
    BY <1>2, VersionsAre
  <2> QED
    BY <2>1, <1>9, <1>12 DEF n
<1>13. CASE o = Ver(v.base, pre \o Suffix(run + 1))
  <2>1. ASSUME <<n, o>> \in tags PROVE FALSE
    <3>1. PICK t \in tags : t = <<n, o>>
      BY <2>1
    <3>2. Since(t[2], run)
      BY DEF FInv
    <3>3. t[2] = o
      BY <3>1
    <3>4. Since(o, run)
      BY <3>2, <3>3
    <3>5. o # Ver(v.base, pre \o Suffix(run + 1))
      BY <1>2, <3>4, SuffixIsNew
    <3> QED
      BY <3>5, <1>13
  <2> QED
    BY <2>1, <1>9 DEF n
<1> QED
  BY <1>11, <1>12, <1>13 DEF Made

\* The steps that FreshVersions allows.
FreshStep ==
  \A b \in Branches : pr'[b].pc = "open" /\ run' # run /\ pr'[b] # pr[b] =>
    \A k \in DOMAIN GroupSeq : ~Mixed(b, k, run') =>
      \A p \in Listed(pr'[b].meta) :
        p.name \in NamesOf(k) => <<p.name, p.version>> \notin tags

\* Only create-release-pr counts the runs, and it proposes what is fresh.
LEMMA NextFresh == IInv /\ FInv /\ [Next]_vars => FreshStep
<1> SUFFICES ASSUME IInv, FInv, [Next]_vars, NEW b \in Branches,
                    run' # run, pr'[b] # pr[b]
             PROVE  \A k \in DOMAIN GroupSeq : ~Mixed(b, k, run') =>
                      \A p \in Listed(pr'[b].meta) :
                        p.name \in NamesOf(k) => <<p.name, p.version>> \notin tags
  BY DEF FreshStep
<1>1. PICK c \in Branches : CreatePR(c)
  <2>1. ASSUME NEW c \in Branches,
               BuildPack(c) \/ ListVersions(c) \/ PushProject(c) \/ TagProject(c) \/ Close(c)
        PROVE  FALSE
    BY <2>1 DEF BuildPack, ListVersions, PushProject, TagProject, Close
  <2>2. ASSUME NEW c \in Branches, NEW g \in Groups, Bump(c, g) PROVE FALSE
    BY <2>2 DEF Bump
  <2> QED
    BY <2>1, <2>2 DEF Next, vars
<1>2. c = b
  <2>1. pr \in [Branches -> PRs]
    BY DEF IInv, Typed
  <2>2. pr' = [pr EXCEPT ![c] = pr'[c]]
    BY <1>1, CreatedIs
  <2> QED
    BY <2>1, <2>2
<1>3. CreatePR(b)
  BY <1>1, <1>2
<1> QED
  BY <1>3, ProposedIsFresh

\* A new PR proposes to release what has not been released, unless a group is
\* mixed: a taken version gets the number of a run that no earlier one had. It
\* needs that nobody else says `build': on a branch main/build/3 the version
\* 1.0.0 becomes 1.0.0-main.build.3, and so does 1.0.0 on main when run 3 finds
\* it taken.
THEOREM VersionsFresh == ASSUME NobodySaysBuild PROVE Spec => FreshVersions
<1>1. Init => FInv
  BY NobodySaysBuild, InitFInv
<1>2. IInv /\ FInv /\ [Next]_vars => FInv'
  BY NobodySaysBuild, NextFInv
<1>3. IInv /\ FInv /\ [Next]_vars => [FreshStep]_vars
  BY NextFresh
<1>4. Spec => [][FreshStep]_vars
  BY <1>1, <1>2, <1>3, Invariance, PTL DEF Spec
<1> QED
  BY <1>4 DEF FreshVersions, FreshStep
=============================================================================
