-------------------------- MODULE MerkleTree_proofs --------------------------
(***************************************************************************)
(* What the two verification loops of lib/vrp-tlog.mjs accept, for trees   *)
(* of every size, every index, size and list of hashes stated, and numbers *)
(* of every width.  A recursive definition is shown to have a solution     *)
(* first, by its approximations below n; then one lemma states its         *)
(* equation, and the other proofs cite that.                               *)
(*                                                                         *)
(* MembersOnly and AppendsOnly: what they accept is so (the prover may     *)
(* give any list, of any length).  MembersVerify and GrowthVerifies: they  *)
(* accept the proofs the library itself produces, by induction over the    *)
(* subtrees of the tree, each of which the loop climbs wherever it lies.   *)
(* AuditPathDecides and ConsistencyProofDecides: they accept nothing else, *)
(* for two runs of a loop at one index and size move alike, so they read   *)
(* as many hashes, and one root at the end means the same hashes all along.*)
(***************************************************************************)
EXTENDS MerkleTree, SequenceTheorems, WellFoundedInduction, TLAPS

\* Induction over the naturals: a set of them that holds every n below which it has
\* no gap has no gap.
LEMMA StrongInduction ==
  ASSUME NEW T, T \subseteq Nat,
         \A n \in Nat : (\A m \in 0 .. n - 1 : m \in T) => n \in T
  PROVE  T = Nat
<1>1. ASSUME T # Nat PROVE FALSE
  <2>1. Nat \ T # {} /\ Nat \ T \subseteq Nat
    BY <1>1
  <2>2. PICK x \in Nat \ T : \A y \in Nat \ T : ~(<<y, x>> \in OpToRel(<, Nat))
    BY ONLY <2>1, NatLessThanWellFounded, WFMin
  <2>3. \A y \in Nat \ T : ~(y < x)
    BY <2>2 DEF OpToRel
  <2>4. \A m \in 0 .. x - 1 : m \in T
    BY <2>3
  <2> QED
    BY <2>4
<1> QED
  BY <1>1

-----------------------------------------------------------------------------
\* The powers of two.
LEMMA Powers ==
  /\ TwoTo[0] = 1
  /\ \A i \in Nat : TwoTo[i + 1] = 2 * TwoTo[i]
  /\ \A i \in Nat : TwoTo[i] \in Nat /\ TwoTo[i] > i
<1> DEFINE Below(g, m) == g = [i \in 0 .. m |-> IF i = 0 THEN 1 ELSE 2 * g[i - 1]]
           Solves(g) == g = [i \in Nat |-> IF i = 0 THEN 1 ELSE 2 * g[i - 1]]
           T == {m \in Nat : \E g : Below(g, m)}
<1>1. T = Nat
  <2>1. ASSUME NEW m \in Nat, \A j \in 0 .. m - 1 : j \in T PROVE m \in T
    <3>1. CASE m = 0
      <4>1. Below([i \in 0 .. 0 |-> 1], 0)
        OBVIOUS
      <4> QED
        BY <4>1, <3>1
    <3>2. CASE m # 0
      <4>1. PICK g : Below(g, m - 1)
        BY <2>1, <3>2
      <4>2. Below([i \in 0 .. m |-> IF i < m THEN g[i] ELSE 2 * g[i - 1]], m)
        BY <4>1, <3>2
      <4> QED
        BY <4>2
    <3> QED
      BY <3>1, <3>2
  <2> QED
    BY <2>1, StrongInduction
<1> DEFINE at(m) == CHOOSE g : Below(g, m)
<1>2. \A m \in Nat : Below(at(m), m)
  BY <1>1
<1> HIDE DEF at
<1> DEFINE U == {i \in Nat : \A m \in Nat : i <= m => at(m)[i] = at(i)[i]}
<1>3. U = Nat
  <2>1. ASSUME NEW i \in Nat, \A j \in 0 .. i - 1 : j \in U PROVE i \in U
    <3> SUFFICES ASSUME NEW m \in Nat, i <= m PROVE at(m)[i] = at(i)[i]
      OBVIOUS
    <3>1. CASE i = 0
      BY <3>1, <1>2
    <3>2. CASE i # 0
      <4>1. at(m)[i - 1] = at(i - 1)[i - 1] /\ at(i)[i - 1] = at(i - 1)[i - 1]
        BY <2>1, <3>2
      <4>2. at(m)[i] = 2 * at(m)[i - 1] /\ at(i)[i] = 2 * at(i)[i - 1]
        BY <1>2, <3>2
      <4> QED
        BY <4>1, <4>2
    <3> QED
      BY <3>1, <3>2
  <2>2. U \subseteq Nat
    OBVIOUS
  <2> HIDE DEF U
  <2> QED
    BY <2>1, <2>2, StrongInduction
<1> DEFINE h == [i \in Nat |-> at(i)[i]]
<1>4. ASSUME NEW i \in Nat, i # 0 PROVE at(i)[i] = 2 * at(i - 1)[i - 1]
  <2>1. at(i)[i] = 2 * at(i)[i - 1]
    BY <1>2, <1>4
  <2>2. at(i)[i - 1] = at(i - 1)[i - 1]
    <3>1. i - 1 \in U
      BY <1>3, <1>4
    <3> QED
      BY <3>1, <1>4
  <2> QED
    BY <2>1, <2>2
<1>5. at(0)[0] = 1
  BY <1>2
<1>6. Solves(h)
  BY <1>4, <1>5
<1>7. TwoTo = CHOOSE g : Solves(g)
  BY DEF TwoTo
<1>8. Solves(TwoTo)
  BY <1>6, <1>7
<1>9. TwoTo[0] = 1 /\ \A i \in Nat : TwoTo[i + 1] = 2 * TwoTo[i]
  BY <1>8
<1> HIDE DEF U, h
<1> DEFINE V == {i \in Nat : TwoTo[i] \in Nat /\ TwoTo[i] > i}
<1>10. V = Nat
  <2>1. ASSUME NEW i \in Nat, \A j \in 0 .. i - 1 : j \in V PROVE i \in V
    <3>1. CASE i = 0
      BY <1>9, <3>1
    <3>2. CASE i # 0
      <4>1. TwoTo[i] = 2 * TwoTo[i - 1]
        BY <1>9, <3>2
      <4>2. TwoTo[i - 1] \in Nat /\ TwoTo[i - 1] > i - 1
        BY <2>1, <3>2
      <4>3. TwoTo[i] \in Nat /\ TwoTo[i] > i
        BY <3>2, <4>1, <4>2
      <4> QED
        BY <4>3
    <3> QED
      BY <3>1, <3>2
  <2>2. V \subseteq Nat
    OBVIOUS
  <2> HIDE DEF V
  <2> QED
    BY <2>1, <2>2, StrongInduction
<1> QED
  BY <1>9, <1>10

\* A product of two of them, and their order.
LEMMA PowersAdd ==
  ASSUME NEW i \in Nat, NEW j \in Nat
  PROVE  TwoTo[i + j] = TwoTo[i] * TwoTo[j]
<1> DEFINE T == {d \in Nat : TwoTo[i + d] = TwoTo[i] * TwoTo[d]}
<1>1. ASSUME NEW d \in Nat, \A e \in 0 .. d - 1 : e \in T PROVE d \in T
  <2>1. CASE d = 0
    BY <2>1, Powers
  <2>2. CASE d # 0
    <3>1. TwoTo[i + (d - 1)] = TwoTo[i] * TwoTo[d - 1]
      BY <1>1, <2>2
    <3>2. TwoTo[d] = 2 * TwoTo[d - 1]
      BY <2>2, Powers
    <3>3. TwoTo[i + d] = 2 * TwoTo[i + (d - 1)]
      <4>1. i + (d - 1) \in Nat /\ (i + (d - 1)) + 1 = i + d
        BY <2>2
      <4> QED
        BY <4>1, Powers
    <3>4. TwoTo[i] \in Nat /\ TwoTo[d - 1] \in Nat
      BY <2>2, Powers
    <3> HIDE DEF T
    <3>5. TwoTo[i + d] = TwoTo[i] * TwoTo[d]
      BY <3>1, <3>2, <3>3, <3>4
    <3> QED
      BY <3>5 DEF T
  <2> QED
    BY <2>1, <2>2
<1>2. T \subseteq Nat
  OBVIOUS
<1> HIDE DEF T
<1>3. T = Nat
  BY <1>1, <1>2, StrongInduction
<1> QED
  BY <1>3 DEF T

\* A larger power is at least the double.
LEMMA PowersOrder ==
  ASSUME NEW i \in Nat, NEW j \in Nat, i < j
  PROVE  2 * TwoTo[i] <= TwoTo[j]
<1>1. PICK d \in Nat : j = (i + 1) + d
  <2>1. j - (i + 1) \in Nat /\ j = (i + 1) + (j - (i + 1))
    OBVIOUS
  <2> QED
    BY <2>1
<1>2. TwoTo[j] = TwoTo[i + 1] * TwoTo[d]
  BY <1>1, PowersAdd
<1>3. TwoTo[i + 1] = 2 * TwoTo[i] /\ TwoTo[i] \in Nat /\ TwoTo[d] \in Nat /\ TwoTo[d] >= 1
  BY Powers
<1> QED
  BY <1>2, <1>3

-----------------------------------------------------------------------------
\* largestPowerOfTwoLessThan doubles 1 while the double is below n.
LEMMA SplitRounds ==
  ASSUME NEW n \in Nat
  PROVE  \E k : /\ k[0] = 1
                /\ \A i \in 1 .. n : k[i] = IF 2 * k[i - 1] < n THEN 2 * k[i - 1] ELSE k[i - 1]
                /\ largestPowerOfTwoLessThan(n) = k[n]
<1> DEFINE Doubled(j) == IF 2 * j < n THEN 2 * j ELSE j
           Solves(g, m) ==
             g = [i \in 0 .. m |-> IF i = 0 THEN 1 ELSE LET j == g[i - 1] IN Doubled(j)]
           T == {m \in Nat : \E g : Solves(g, m)}
<1>1. T = Nat
  <2>1. ASSUME NEW m \in Nat, \A j \in 0 .. m - 1 : j \in T PROVE m \in T
    <3>1. CASE m = 0
      <4>1. Solves([i \in 0 .. 0 |-> 1], 0)
        OBVIOUS
      <4> QED
        BY <4>1, <3>1
    <3>2. CASE m # 0
      <4>1. PICK g : Solves(g, m - 1)
        BY <2>1, <3>2
      <4>2. Solves([i \in 0 .. m |-> IF i < m THEN g[i] ELSE Doubled(g[i - 1])], m)
        BY <4>1, <3>2
      <4> QED
        BY <4>2
    <3> QED
      BY <3>1, <3>2
  <2> QED
    BY <2>1, StrongInduction
<1> DEFINE k == CHOOSE g : Solves(g, n)
<1>2. Solves(k, n)
  BY <1>1
<1>3. largestPowerOfTwoLessThan(n) = k[n]
  BY DEF largestPowerOfTwoLessThan
<1> HIDE DEF k
<1> QED
  BY <1>2, <1>3

\* It ends with the power of two that is below n and not below its half.
LEMMA SplitPower ==
  ASSUME NEW n \in Nat, n >= 2
  PROVE  \E p \in Nat : /\ largestPowerOfTwoLessThan(n) = TwoTo[p]
                        /\ TwoTo[p] < n /\ n <= 2 * TwoTo[p]
<1>1. PICK k : /\ k[0] = 1
               /\ \A i \in 1 .. n : k[i] = IF 2 * k[i - 1] < n THEN 2 * k[i - 1] ELSE k[i - 1]
               /\ largestPowerOfTwoLessThan(n) = k[n]
  BY SplitRounds
<1> DEFINE Good(i) == \E p \in 0 .. i : /\ k[i] = TwoTo[p] /\ TwoTo[p] < n
                                        /\ p < i => n <= 2 * TwoTo[p]
           U == {i \in Nat : i <= n => Good(i)}
<1>2. U = Nat
  <2>1. ASSUME NEW i \in Nat, \A j \in 0 .. i - 1 : j \in U PROVE i \in U
    <3>1. CASE i = 0
      <4>1. Good(0)
        BY <1>1, Powers
      <4> QED
        BY <4>1, <3>1
    <3>2. CASE i # 0 /\ i <= n
      <4>1. Good(i - 1)
        BY <2>1, <3>2
      <4>2. PICK p \in 0 .. i - 1 : /\ k[i - 1] = TwoTo[p] /\ TwoTo[p] < n
                                    /\ p < i - 1 => n <= 2 * TwoTo[p]
        BY <4>1
      <4>3. k[i] = IF 2 * k[i - 1] < n THEN 2 * k[i - 1] ELSE k[i - 1]
        BY <1>1, <3>2
      <4>4. TwoTo[p + 1] = 2 * TwoTo[p] /\ TwoTo[p] \in Nat
        BY Powers
      <4>5. CASE 2 * TwoTo[p] < n
        <5>1. p = i - 1
          BY <3>2, <4>2, <4>4, <4>5
        <5>2. k[i] = TwoTo[i] /\ TwoTo[i] < n
          BY <3>2, <4>2, <4>3, <4>4, <4>5, <5>1
        <5>3. Good(i)
          BY <5>2
        <5> QED
          BY <5>3
      <4>6. CASE ~(2 * TwoTo[p] < n)
        <5>1. k[i] = TwoTo[p] /\ n <= 2 * TwoTo[p] /\ p \in 0 .. i
          BY <3>2, <4>2, <4>3, <4>4, <4>6
        <5>2. Good(i)
          BY <4>2, <5>1
        <5> QED
          BY <5>2
      <4> QED
        BY <4>5, <4>6
    <3> QED
      BY <3>1, <3>2
  <2>2. U \subseteq Nat
    OBVIOUS
  <2> HIDE DEF U
  <2> QED
    BY <2>1, <2>2, StrongInduction
<1>3. Good(n)
  BY <1>2
<1>4. PICK p \in 0 .. n : k[n] = TwoTo[p] /\ TwoTo[p] < n /\ (p < n => n <= 2 * TwoTo[p])
  BY <1>3
<1>5. p < n
  BY <1>4, Powers
<1> QED
  BY <1>1, <1>4, <1>5

\* No other number splits n so.
LEMMA SplitIs ==
  ASSUME NEW n \in Nat, n >= 2, NEW p \in Nat, TwoTo[p] < n, n <= 2 * TwoTo[p]
  PROVE  largestPowerOfTwoLessThan(n) = TwoTo[p]
<1>1. PICK q \in Nat : /\ largestPowerOfTwoLessThan(n) = TwoTo[q]
                       /\ TwoTo[q] < n /\ n <= 2 * TwoTo[q]
  BY SplitPower
<1>2. TwoTo[p] \in Nat /\ TwoTo[q] \in Nat
  BY Powers
<1>3. ~(p < q) /\ ~(q < p)
  BY <1>1, <1>2, PowersOrder
<1> QED
  BY <1>1, <1>3

\* Neither of the two parts is empty.
LEMMA Split ==
  ASSUME NEW n \in Nat, n >= 2
  PROVE  largestPowerOfTwoLessThan(n) \in 1 .. n - 1
<1>1. PICK p \in Nat : largestPowerOfTwoLessThan(n) = TwoTo[p] /\ TwoTo[p] < n
  BY SplitPower
<1>2. TwoTo[p] \in Nat /\ TwoTo[p] >= 1
  BY Powers
<1> QED
  BY <1>1, <1>2

-----------------------------------------------------------------------------
\* The equation of SubtreeHash: the empty hash, a leaf, or a node over two parts.
LEMMA SubtreeHashDef ==
  ASSUME NEW D, NEW lo \in Nat, NEW n \in Nat
  PROVE  SubtreeHash(D, lo, n) =
           IF n = 0 THEN EmptyHash
           ELSE IF n = 1 THEN hashLeaf(D[lo])
           ELSE hashChildren(SubtreeHash(D, lo, largestPowerOfTwoLessThan(n)),
                             SubtreeHash(D, lo + largestPowerOfTwoLessThan(n),
                                         n - largestPowerOfTwoLessThan(n)))
<1> DEFINE K(s) == largestPowerOfTwoLessThan(s)
           At(g, s) ==
             [l \in Nat |-> IF s = 0 THEN EmptyHash
                            ELSE IF s = 1 THEN hashLeaf(D[l])
                            ELSE hashChildren(g[K(s)][l], g[s - K(s)][l + K(s)])]
           Below(g, m) == g = [s \in 0 .. m |-> At(g, s)]
           Solves(g) == g = [s \in Nat |-> At(g, s)]
<1>s. \A s \in Nat : s >= 2 => K(s) \in 0 .. s - 1 /\ s - K(s) \in 0 .. s - 1 /\ K(s) \in Nat
  BY Split
<1> HIDE DEF K
<1>a. ASSUME NEW s \in Nat, NEW g, NEW h, \A j \in 0 .. s - 1 : g[j] = h[j]
      PROVE  At(g, s) = At(h, s)
  <2>1. CASE s < 2
    BY <2>1
  <2>2. CASE s >= 2
    <3>1. g[K(s)] = h[K(s)] /\ g[s - K(s)] = h[s - K(s)]
      BY <1>s, <1>a, <2>2
    <3> QED
      BY <2>2, <3>1
  <2> QED
    BY <2>1, <2>2
<1> HIDE DEF At
<1>1. \A m \in Nat : \E g : Below(g, m)
  <2> DEFINE T == {m \in Nat : \E g : Below(g, m)}
  <2>1. ASSUME NEW m \in Nat, \A j \in 0 .. m - 1 : j \in T PROVE m \in T
    <3>1. \E g : \A j \in 0 .. m - 1 : g[j] = At(g, j)
      <4>1. CASE m = 0
        BY <4>1
      <4>2. CASE m # 0
        BY <2>1, <4>2
      <4> QED
        BY <4>1, <4>2
    <3>2. PICK g : \A j \in 0 .. m - 1 : g[j] = At(g, j)
      BY <3>1
    <3> DEFINE h == [s \in 0 .. m |-> IF s < m THEN g[s] ELSE At(g, s)]
    <3>3. \A s \in 0 .. m : \A j \in 0 .. s - 1 : h[j] = g[j]
      OBVIOUS
    <3>4. \A s \in 0 .. m : At(h, s) = At(g, s)
      <4> HIDE DEF h
      <4> QED
        BY <1>a, <3>3
    <3>5. Below(h, m)
      BY <3>2, <3>4
    <3> QED
      BY <3>5
  <2> HIDE DEF T
  <2>2. T = Nat
    <3>1. T \subseteq Nat
      BY DEF T
    <3> QED
      BY <2>1, <3>1, StrongInduction
  <2> QED
    BY <2>2 DEF T
<1>2. ASSUME NEW m \in Nat, NEW p \in Nat, NEW g, NEW h, Below(g, m), Below(h, p), m <= p
      PROVE  \A s \in 0 .. m : g[s] = h[s]
  <2> DEFINE T == {s \in Nat : s <= m => g[s] = h[s]}
  <2>1. ASSUME NEW s \in Nat, \A j \in 0 .. s - 1 : j \in T PROVE s \in T
    <3>1. CASE s <= m
      <4>1. At(g, s) = At(h, s)
        BY <1>a, <2>1, <3>1
      <4> QED
        BY <1>2, <3>1, <4>1
    <3> QED
      BY <3>1
  <2> HIDE DEF T
  <2>2. T = Nat
    <3>1. T \subseteq Nat
      BY DEF T
    <3> QED
      BY <2>1, <3>1, StrongInduction
  <2> QED
    BY <2>2 DEF T
<1> DEFINE G == [m \in Nat |-> CHOOSE g : Below(g, m)]
           f == [m \in Nat |-> G[m][m]]
<1>3. \A m \in Nat : Below(G[m], m)
  BY <1>1
<1> HIDE DEF G
<1>4. Solves(f)
  <2>1. ASSUME NEW s \in Nat PROVE f[s] = At(f, s)
    <3>1. Below(G[s], s)
      BY <1>3
    <3>2. \A j \in 0 .. s - 1 : f[j] = G[s][j]
      <4> SUFFICES ASSUME NEW j \in 0 .. s - 1 PROVE f[j] = G[s][j]
        OBVIOUS
      <4>1. j \in Nat /\ j <= s /\ Below(G[j], j)
        BY <1>3
      <4> HIDE DEF Below
      <4>2. G[j][j] = G[s][j]
        BY <1>2, <3>1, <4>1
      <4> QED
        BY <4>1, <4>2
    <3>3. At(f, s) = At(G[s], s)
      <4> HIDE DEF f
      <4> QED
        BY <1>a, <3>2
    <3> QED
      BY <3>1, <3>3
  <2> QED
    BY <2>1
<1> HIDE DEF f
<1> DEFINE mth == CHOOSE g : Solves(g)
<1>5. Solves(mth)
  BY <1>4
<1>6. \A l \in Nat, s \in Nat : SubtreeHash(D, l, s) = mth[s][l]
  BY DEF SubtreeHash, At, K
<1> HIDE DEF mth
<1>7. SubtreeHash(D, lo, n) = At(mth, n)[lo]
  BY <1>5, <1>6
<1>8. CASE n < 2
  BY <1>7, <1>8 DEF At
<1>9. CASE n >= 2
  <2>1. /\ SubtreeHash(D, lo, K(n)) = mth[K(n)][lo]
        /\ SubtreeHash(D, lo + K(n), n - K(n)) = mth[n - K(n)][lo + K(n)]
    BY <1>s, <1>6, <1>9
  <2> QED
    BY <1>7, <1>9, <2>1 DEF At, K
<1> QED
  BY <1>8, <1>9

\* Hashes of different kinds differ, and a hash names what it was computed from.
LEMMA KindsDiffer ==
  ASSUME NEW e, NEW l, NEW r
  PROVE  /\ EmptyHash # hashLeaf(e)
         /\ EmptyHash # hashChildren(l, r)
         /\ hashLeaf(e) # hashChildren(l, r)
BY DEF EmptyHash, hashLeaf, hashChildren

\* A leaf's hash names its entry.
LEMMA LeafNamesEntry ==
  ASSUME NEW e, NEW e2, hashLeaf(e) = hashLeaf(e2)
  PROVE  e = e2
BY DEF hashLeaf

\* A node's hash names its children.
LEMMA NodeNamesChildren ==
  ASSUME NEW l, NEW r, NEW l2, NEW r2, hashChildren(l, r) = hashChildren(l2, r2)
  PROVE  l = l2 /\ r = r2
BY DEF hashChildren

\* What a subtree's hash tells of it: it is empty, it is one entry, it has two parts.
LEMMA EmptySubtree ==
  ASSUME NEW D, NEW lo \in Nat, NEW n \in Nat, SubtreeHash(D, lo, n) = EmptyHash
  PROVE  n = 0
BY SubtreeHashDef, KindsDiffer

\* A leaf's hash: the subtree is that one entry.
LEMMA LeafSubtree ==
  ASSUME NEW D, NEW lo \in Nat, NEW n \in Nat, NEW e, SubtreeHash(D, lo, n) = hashLeaf(e)
  PROVE  n = 1 /\ D[lo] = e
<1>1. CASE n = 0
  BY <1>1, SubtreeHashDef, KindsDiffer
<1>2. CASE n = 1
  BY <1>2, SubtreeHashDef, LeafNamesEntry
<1>3. ~(n >= 2)
  <2> SUFFICES ASSUME n >= 2 PROVE FALSE
    OBVIOUS
  <2>1. PICK l, r : SubtreeHash(D, lo, n) = hashChildren(l, r)
    BY SubtreeHashDef
  <2> QED
    BY <2>1, KindsDiffer
<1> QED
  BY <1>1, <1>2, <1>3

\* A node's hash: the subtree is split, and its parts have the children's hashes.
LEMMA NodeSubtree ==
  ASSUME NEW D, NEW lo \in Nat, NEW n \in Nat, NEW l, NEW r,
         SubtreeHash(D, lo, n) = hashChildren(l, r)
  PROVE  /\ n >= 2
         /\ l = SubtreeHash(D, lo, largestPowerOfTwoLessThan(n))
         /\ r = SubtreeHash(D, lo + largestPowerOfTwoLessThan(n),
                            n - largestPowerOfTwoLessThan(n))
<1>1. CASE n = 0
  BY <1>1, SubtreeHashDef, KindsDiffer
<1>2. CASE n = 1
  BY <1>2, SubtreeHashDef, KindsDiffer
<1>3. CASE n >= 2
  <2> DEFINE k == largestPowerOfTwoLessThan(n)
             a == SubtreeHash(D, lo, k)
             b == SubtreeHash(D, lo + k, n - k)
  <2>1. hashChildren(a, b) = hashChildren(l, r)
    BY <1>3, SubtreeHashDef
  <2> HIDE DEF a, b
  <2>2. l = a /\ r = b
    BY <2>1, NodeNamesChildren
  <2> QED
    BY <1>3, <2>2 DEF a, b
<1> QED
  BY <1>1, <1>2, <1>3

\* The n entries of A from lo1 on are those of B from lo2 on.
SameEntries(A, lo1, B, lo2, n) == \A j \in 0 .. n - 1 : A[lo1 + j] = B[lo2 + j]

\* "Two hashes are equal exactly when they were computed from the same data": equal
\* subtree hashes are of as many entries, and of the same ones.
LEMMA SameHashSameEntries ==
  ASSUME NEW A, NEW B, NEW lo1 \in Nat, NEW lo2 \in Nat, NEW n1 \in Nat, NEW n2 \in Nat,
         SubtreeHash(A, lo1, n1) = SubtreeHash(B, lo2, n2)
  PROVE  n1 = n2 /\ SameEntries(A, lo1, B, lo2, n1)
<1> DEFINE Same(n, lo, l2, m) ==
             SubtreeHash(A, lo, n) = SubtreeHash(B, l2, m) =>
               n = m /\ \A j \in 0 .. n - 1 : A[lo + j] = B[l2 + j]
           T == {n \in Nat : \A lo, l2, m \in Nat : Same(n, lo, l2, m)}
<1>1. ASSUME NEW n \in Nat, \A i \in 0 .. n - 1 : i \in T PROVE n \in T
  <2> SUFFICES ASSUME NEW lo \in Nat, NEW l2 \in Nat, NEW m \in Nat,
                      SubtreeHash(A, lo, n) = SubtreeHash(B, l2, m)
               PROVE  n = m /\ \A j \in 0 .. n - 1 : A[lo + j] = B[l2 + j]
    OBVIOUS
  <2>a. \A i \in 0 .. n - 1 : \A l1, l3, p \in Nat : Same(i, l1, l3, p)
    <3> HIDE DEF Same
    <3> QED
      BY <1>1
  <2>1. CASE n = 0
    <3>1. SubtreeHash(B, l2, m) = EmptyHash
      BY <2>1, SubtreeHashDef
    <3> QED
      BY <2>1, <3>1, EmptySubtree
  <2>2. CASE n = 1
    <3>1. SubtreeHash(B, l2, m) = hashLeaf(A[lo])
      BY <2>2, SubtreeHashDef
    <3>2. m = 1 /\ B[l2] = A[lo]
      BY <3>1, LeafSubtree
    <3> QED
      BY <2>2, <3>2
  <2>3. CASE n >= 2
    <3> DEFINE k == largestPowerOfTwoLessThan(n)
               p == largestPowerOfTwoLessThan(m)
    <3>1. SubtreeHash(B, l2, m) =
            hashChildren(SubtreeHash(A, lo, k), SubtreeHash(A, lo + k, n - k))
      BY <2>3, SubtreeHashDef
    <3>2. /\ m >= 2
          /\ SubtreeHash(A, lo, k) = SubtreeHash(B, l2, p)
          /\ SubtreeHash(A, lo + k, n - k) = SubtreeHash(B, l2 + p, m - p)
      BY <3>1, NodeSubtree
    <3>3. k \in 1 .. n - 1 /\ p \in 1 .. m - 1
      BY <2>3, <3>2, Split
    <3> HIDE DEF k, p
    <3>4. Same(k, lo, l2, p) /\ Same(n - k, lo + k, l2 + p, m - p)
      <4>1. /\ k \in 0 .. n - 1 /\ n - k \in 0 .. n - 1
            /\ lo + k \in Nat /\ p \in Nat /\ l2 + p \in Nat /\ m - p \in Nat
        BY <3>3
      <4> HIDE DEF Same
      <4> QED
        BY <2>a, <4>1
    <3>5. k = p /\ \A j \in 0 .. k - 1 : A[lo + j] = B[l2 + j]
      BY <3>2, <3>4
    <3>6. n - k = m - p /\ \A j \in 0 .. n - k - 1 : A[lo + k + j] = B[l2 + p + j]
      BY <3>2, <3>4
    <3>7. ASSUME NEW j \in 0 .. n - 1, j >= k PROVE A[lo + j] = B[l2 + j]
      <4>1. j - k \in 0 .. n - k - 1 /\ lo + k + (j - k) = lo + j /\ l2 + p + (j - k) = l2 + j
        BY <3>3, <3>5, <3>7
      <4> QED
        BY <3>6, <4>1
    <3> QED
      BY <3>3, <3>5, <3>6, <3>7
  <2> QED
    BY <2>1, <2>2, <2>3
<1>2. T = Nat
  <2> HIDE DEF T
  <2>1. T \subseteq Nat
    BY DEF T
  <2> QED
    BY <1>1, <2>1, StrongInduction
<1>3. Same(n1, lo1, lo2, n2)
  <2> HIDE DEF Same
  <2> QED
    BY <1>2
<1> QED
  BY <1>3 DEF SameEntries

-----------------------------------------------------------------------------
\* The loop of verifyInclusion has a state after each round.
LEMMA InclusionRounds ==
  ASSUME NEW leafHash, NEW index, NEW size, NEW proof, Len(proof) \in Nat
  PROVE  \E after :
           /\ after[0] = [fn |-> index, sn |-> size - 1, r |-> leafHash, ok |-> TRUE]
           /\ \A i \in 1 .. Len(proof) : after[i] = InclusionRound(after[i - 1], proof[i])
           /\ InclusionLoop(leafHash, index, size, proof) = after[Len(proof)]
<1> DEFINE start == [fn |-> index, sn |-> size - 1, r |-> leafHash, ok |-> TRUE]
           Solves(g, m) == g = [i \in 0 .. m |-> IF i = 0 THEN start
                                                 ELSE InclusionRound(g[i - 1], proof[i])]
           T == {m \in Nat : \E g : Solves(g, m)}
<1>1. InclusionLoop(leafHash, index, size, proof)
        = (CHOOSE g : Solves(g, Len(proof)))[Len(proof)]
  BY DEF InclusionLoop
<1> HIDE DEF start
<1>2. T = Nat
  <2>1. ASSUME NEW m \in Nat, \A j \in 0 .. m - 1 : j \in T PROVE m \in T
    <3>1. CASE m = 0
      <4>1. Solves([i \in 0 .. 0 |-> start], 0)
        OBVIOUS
      <4> QED
        BY <4>1, <3>1
    <3>2. CASE m # 0
      <4>1. PICK g : Solves(g, m - 1)
        BY <2>1, <3>2
      <4>2. Solves([i \in 0 .. m |-> IF i < m THEN g[i] ELSE InclusionRound(g[i - 1], proof[i])], m)
        BY <4>1, <3>2
      <4> QED
        BY <4>2
    <3> QED
      BY <3>1, <3>2
  <2> QED
    BY <2>1, StrongInduction
<1> DEFINE after == CHOOSE g : Solves(g, Len(proof))
<1>3. Solves(after, Len(proof))
  BY <1>2
<1> HIDE DEF after
<1>4. after[0] = start
  BY <1>3
<1>5. \A i \in 1 .. Len(proof) : after[i] = InclusionRound(after[i - 1], proof[i])
  BY <1>3
<1> QED
  BY <1>1, <1>4, <1>5 DEF start, after

\* Soundness of verifyInclusion: an entry that verifies against the root of a tree is
\* in the tree, whatever index, size and hashes are stated.  From the root down, the
\* hash after each round is that of a subtree.
THEOREM MembersOnly ==
  ASSUME NEW D, Len(D) \in Nat, NEW entry, NEW index, NEW size,
         NEW proof, Len(proof) \in Nat,
         verifyInclusion(hashLeaf(entry), index, size, proof, merkleTreeHash(D))
  PROVE  \E i \in 1 .. Len(D) : D[i] = entry
<1> DEFINE L == Len(proof)
           N == Len(D)
<1>1. PICK after :
        /\ after[0] = [fn |-> index, sn |-> size - 1, r |-> hashLeaf(entry), ok |-> TRUE]
        /\ \A i \in 1 .. L : after[i] = InclusionRound(after[i - 1], proof[i])
        /\ InclusionLoop(hashLeaf(entry), index, size, proof) = after[L]
  BY InclusionRounds
<1>2. after[L].ok /\ after[L].r = SubtreeHash(D, 1, N)
  BY <1>1 DEF verifyInclusion, merkleTreeHash
<1> DEFINE OnTree(i) ==
             /\ after[i].ok
             /\ \E lo, n \in Nat : /\ lo >= 1 /\ lo + n - 1 <= N
                                   /\ after[i].r = SubtreeHash(D, lo, n)
           T == {j \in Nat : j <= L => OnTree(L - j)}
<1>3. ASSUME NEW i \in 1 .. L, OnTree(i) PROVE OnTree(i - 1)
  <2>1. PICK lo \in Nat, n \in Nat : /\ lo >= 1 /\ lo + n - 1 <= N
                                     /\ after[i].r = SubtreeHash(D, lo, n)
    BY <1>3
  <2>2. after[i] = InclusionRound(after[i - 1], proof[i])
    BY <1>1
  <2>3. /\ after[i - 1].ok
        /\ \/ after[i].r = hashChildren(proof[i], after[i - 1].r)
           \/ after[i].r = hashChildren(after[i - 1].r, proof[i])
    BY <1>3, <2>2 DEF InclusionRound
  <2> DEFINE k == largestPowerOfTwoLessThan(n)
  <2>4. CASE after[i].r = hashChildren(proof[i], after[i - 1].r)
    <3>0. SubtreeHash(D, lo, n) = hashChildren(proof[i], after[i - 1].r)
      BY <2>1, <2>4
    <3>1. n >= 2 /\ after[i - 1].r = SubtreeHash(D, lo + k, n - k)
      BY <3>0, NodeSubtree
    <3>2. k \in 1 .. n - 1
      BY <3>1, Split
    <3> QED
      BY <2>1, <2>3, <3>1, <3>2
  <2>5. CASE after[i].r = hashChildren(after[i - 1].r, proof[i])
    <3>0. SubtreeHash(D, lo, n) = hashChildren(after[i - 1].r, proof[i])
      BY <2>1, <2>5
    <3>1. n >= 2 /\ after[i - 1].r = SubtreeHash(D, lo, k)
      BY <3>0, NodeSubtree
    <3>2. k \in 1 .. n - 1
      BY <3>1, Split
    <3> QED
      BY <2>1, <2>3, <3>1, <3>2
  <2> QED
    BY <2>3, <2>4, <2>5
<1>4. ASSUME NEW j \in Nat, \A i \in 0 .. j - 1 : i \in T PROVE j \in T
  <2>1. CASE j = 0
    <3>1. OnTree(L)
      BY <1>2
    <3> QED
      BY <2>1, <3>1
  <2>2. CASE j # 0 /\ j <= L
    <3>1. OnTree(L - (j - 1))
      <4>1. j - 1 \in 0 .. j - 1 /\ j - 1 <= L
        BY <2>2
      <4> HIDE DEF OnTree
      <4> QED
        BY <1>4, <4>1
    <3>2. L - (j - 1) \in 1 .. L /\ L - (j - 1) - 1 = L - j
      BY <2>2
    <3> HIDE DEF OnTree
    <3>3. OnTree(L - j)
      BY <1>3, <3>1, <3>2
    <3> QED
      BY <3>3
  <2> QED
    BY <2>1, <2>2
<1>5. T = Nat
  <2> HIDE DEF T
  <2>1. T \subseteq Nat
    BY DEF T
  <2> QED
    BY <1>4, <2>1, StrongInduction
<1>6. OnTree(0)
  <2> HIDE DEF OnTree
  <2> QED
    BY <1>5
<1>7. PICK lo \in Nat, n \in Nat : /\ lo >= 1 /\ lo + n - 1 <= N
                                   /\ after[0].r = SubtreeHash(D, lo, n)
  BY <1>6
<1>8. SubtreeHash(D, lo, n) = hashLeaf(entry)
  BY <1>1, <1>7
<1>9. n = 1 /\ D[lo] = entry
  BY <1>8, LeafSubtree
<1> QED
  BY <1>7, <1>9

-----------------------------------------------------------------------------
\* The loop of verifyConsistency has a state after each round.
LEMMA ConsistencyRounds ==
  ASSUME NEW m, NEW n, NEW path, Len(path) \in Nat, Len(path) >= 1
  PROVE  \E after :
           /\ after[0] = [fn |-> ShiftOdd(m - 1, n - 1)[1], sn |-> ShiftOdd(m - 1, n - 1)[2],
                          ok |-> TRUE, fr |-> path[1], sr |-> path[1]]
           /\ \A i \in 1 .. Len(path) - 1 :
                after[i] = ConsistencyRound(after[i - 1], path[i + 1])
           /\ ConsistencyLoop(m, n, path) = after[Len(path) - 1]
<1> DEFINE start == [fn |-> ShiftOdd(m - 1, n - 1)[1], sn |-> ShiftOdd(m - 1, n - 1)[2],
                     ok |-> TRUE, fr |-> path[1], sr |-> path[1]]
           L == Len(path) - 1
           Solves(g, j) == g = [i \in 0 .. j |-> IF i = 0 THEN start
                                                 ELSE ConsistencyRound(g[i - 1], path[i + 1])]
           T == {j \in Nat : \E g : Solves(g, j)}
<1>1. ConsistencyLoop(m, n, path) = (CHOOSE g : Solves(g, L))[L]
  BY DEF ConsistencyLoop
<1> HIDE DEF start
<1>2. T = Nat
  <2>1. ASSUME NEW j \in Nat, \A i \in 0 .. j - 1 : i \in T PROVE j \in T
    <3>1. CASE j = 0
      <4>1. Solves([i \in 0 .. 0 |-> start], 0)
        OBVIOUS
      <4> QED
        BY <4>1, <3>1
    <3>2. CASE j # 0
      <4>1. PICK g : Solves(g, j - 1)
        BY <2>1, <3>2
      <4>2. Solves([i \in 0 .. j |-> IF i < j THEN g[i]
                                     ELSE ConsistencyRound(g[i - 1], path[i + 1])], j)
        BY <4>1, <3>2
      <4> QED
        BY <4>2
    <3> QED
      BY <3>1, <3>2
  <2> QED
    BY <2>1, StrongInduction
<1> DEFINE after == CHOOSE g : Solves(g, L)
<1>a. L \in Nat
  OBVIOUS
<1> HIDE DEF L
<1>3. Solves(after, L)
  BY <1>2, <1>a
<1> HIDE DEF after
<1>4. after[0] = start
  BY <1>a, <1>3
<1>5. \A i \in 1 .. L : after[i] = ConsistencyRound(after[i - 1], path[i + 1])
  BY <1>a, <1>3
<1> QED
  BY <1>1, <1>4, <1>5 DEF start, after, L

\* Soundness of verifyConsistency: when it accepts the roots of two trees, the second
\* tree begins with the entries of the first, whatever the proof.  From the roots down,
\* the two hashes after each round are those of subtrees that begin at one place, up
\* to where the trees agree, and the first of which ends the first tree.
THEOREM AppendsOnly ==
  ASSUME NEW E, NEW A \in Seq(E), NEW B \in Seq(E),
         NEW S, NEW proof \in Seq(S),
         verifyConsistency(Len(A), Len(B), merkleTreeHash(A), merkleTreeHash(B), proof)
  PROVE  IsPrefix(A, B)
<1> DEFINE m == Len(A)
           n == Len(B)
           path == IF IsPowerOfTwo(m) THEN <<merkleTreeHash(A)>> \o proof ELSE proof
           L == Len(path) - 1
<1>1. /\ m > 0 /\ m < n /\ path # <<>>
      /\ ConsistencyLoop(m, n, path).ok
      /\ ConsistencyLoop(m, n, path).fr = SubtreeHash(A, 1, m)
      /\ ConsistencyLoop(m, n, path).sr = SubtreeHash(B, 1, n)
  BY DEF verifyConsistency, merkleTreeHash
<1>2. L \in Nat
  <2> DEFINE U == S \cup {merkleTreeHash(A)}
  <2>1. proof \in Seq(U) /\ <<merkleTreeHash(A)>> \in Seq(U)
    OBVIOUS
  <2>2. path \in Seq(U)
    BY <2>1, ConcatProperties
  <2> QED
    BY <1>1, <2>2
<1>p. Len(path) \in Nat /\ Len(path) >= 1
  <2> HIDE DEF path
  <2> QED
    BY <1>1, <1>2
<1> HIDE DEF path, m, n
<1>3. PICK after :
        /\ after[0] = [fn |-> ShiftOdd(m - 1, n - 1)[1], sn |-> ShiftOdd(m - 1, n - 1)[2],
                       ok |-> TRUE, fr |-> path[1], sr |-> path[1]]
        /\ \A i \in 1 .. Len(path) - 1 : after[i] = ConsistencyRound(after[i - 1], path[i + 1])
        /\ ConsistencyLoop(m, n, path) = after[Len(path) - 1]
  BY <1>p, ConsistencyRounds
<1> HIDE DEF L
<1> DEFINE At(i, lo, a, b) ==
             /\ lo >= 1 /\ lo + a - 1 = m /\ lo + b - 1 <= n
             /\ after[i].fr = SubtreeHash(A, lo, a)
             /\ after[i].sr = SubtreeHash(B, lo, b)
             /\ \A j \in 1 .. lo - 1 : A[j] = B[j]
           OnTrees(i) == after[i].ok /\ \E lo, a, b \in Nat : At(i, lo, a, b)
           T == {j \in Nat : j <= L => OnTrees(L - j)}
<1>t. m \in Nat /\ n \in Nat
  BY DEF m, n
<1>4. OnTrees(L)
  <2>1. At(L, 1, m, n)
    BY <1>1, <1>3, <1>t DEF L
  <2> HIDE DEF At
  <2> QED
    BY <1>1, <1>3, <1>t, <2>1 DEF L
<1>5. ASSUME NEW i \in 1 .. L, OnTrees(i) PROVE OnTrees(i - 1)
  <2>1. PICK lo \in Nat, a \in Nat, b \in Nat : At(i, lo, a, b)
    BY <1>5
  <2>2. after[i] = ConsistencyRound(after[i - 1], path[i + 1])
    BY <1>3 DEF L
  <2> DEFINE c == path[i + 1]
             fr == after[i - 1].fr
             sr == after[i - 1].sr
             k == largestPowerOfTwoLessThan(a)
             p == largestPowerOfTwoLessThan(b)
  <2>3. /\ after[i - 1].ok
        /\ \/ after[i].fr = hashChildren(c, fr) /\ after[i].sr = hashChildren(c, sr)
           \/ after[i].fr = fr /\ after[i].sr = hashChildren(sr, c)
    BY <1>5, <2>2 DEF ConsistencyRound
  <2>4. CASE after[i].fr = hashChildren(c, fr) /\ after[i].sr = hashChildren(c, sr)
    <3>1. /\ SubtreeHash(A, lo, a) = hashChildren(c, fr)
          /\ SubtreeHash(B, lo, b) = hashChildren(c, sr)
      BY <2>1, <2>4
    <3>2. a >= 2 /\ c = SubtreeHash(A, lo, k) /\ fr = SubtreeHash(A, lo + k, a - k)
      BY <3>1, NodeSubtree
    <3>3. b >= 2 /\ c = SubtreeHash(B, lo, p) /\ sr = SubtreeHash(B, lo + p, b - p)
      BY <3>1, NodeSubtree
    <3>4. k \in 1 .. a - 1 /\ p \in 1 .. b - 1
      BY <3>2, <3>3, Split
    <3> HIDE DEF k, p, c, fr, sr
    <3>5. k = p /\ \A j \in 0 .. k - 1 : A[lo + j] = B[lo + j]
      <4>1. /\ SubtreeHash(A, lo, k) = SubtreeHash(B, lo, p)
            /\ lo \in Nat /\ k \in Nat /\ p \in Nat
        BY <3>2, <3>3, <3>4
      <4>2. k = p /\ SameEntries(A, lo, B, lo, k)
        BY <4>1, SameHashSameEntries
      <4> QED
        BY <4>2 DEF SameEntries
    <3>6. \A j \in 1 .. lo + k - 1 : A[j] = B[j]
      <4> SUFFICES ASSUME NEW j \in 1 .. lo + k - 1, j >= lo PROVE A[j] = B[j]
        BY <2>1
      <4>1. j - lo \in 0 .. k - 1 /\ lo + (j - lo) = j
        BY <3>4
      <4> QED
        BY <3>5, <4>1
    <3>7. At(i - 1, lo + k, a - k, b - k)
      BY <2>1, <3>2, <3>3, <3>4, <3>5, <3>6 DEF fr, sr
    <3>8. lo + k \in Nat /\ a - k \in Nat /\ b - k \in Nat
      BY <3>4, <3>5
    <3> HIDE DEF At
    <3> QED
      BY <2>3, <3>7, <3>8
  <2>5. CASE after[i].fr = fr /\ after[i].sr = hashChildren(sr, c)
    <3>1. SubtreeHash(B, lo, b) = hashChildren(sr, c)
      BY <2>1, <2>5
    <3>2. b >= 2 /\ sr = SubtreeHash(B, lo, p)
      BY <3>1, NodeSubtree
    <3>3. p \in 1 .. b - 1
      BY <3>2, Split
    <3>4. At(i - 1, lo, a, p) /\ p \in Nat
      BY <1>t, <2>1, <2>5, <3>2, <3>3
    <3> HIDE DEF At
    <3> QED
      BY <2>3, <3>4
  <2> QED
    BY <2>3, <2>4, <2>5
<1> HIDE DEF OnTrees
<1>6. ASSUME NEW j \in Nat, \A i \in 0 .. j - 1 : i \in T PROVE j \in T
  <2>1. CASE j = 0
    BY <1>2, <1>4, <2>1
  <2>2. CASE j # 0 /\ j <= L
    <3>1. OnTrees(L - (j - 1))
      <4>1. j - 1 \in 0 .. j - 1 /\ j - 1 <= L
        BY <1>2, <2>2
      <4> QED
        BY <1>6, <4>1
    <3>2. L - (j - 1) \in 1 .. L /\ L - (j - 1) - 1 = L - j
      BY <1>2, <2>2
    <3> QED
      BY <1>5, <3>1, <3>2
  <2> QED
    BY <2>1, <2>2
<1>7. T = Nat
  <2> HIDE DEF T
  <2>1. T \subseteq Nat
    BY DEF T
  <2> QED
    BY <1>6, <2>1, StrongInduction
<1>8. PICK lo \in Nat, a \in Nat, b \in Nat : At(0, lo, a, b)
  <2>1. L \in T
    BY <1>2, <1>7
  <2>2. OnTrees(0)
    BY <1>2, <2>1
  <2> QED
    BY <2>2 DEF OnTrees
<1>9. /\ SubtreeHash(A, lo, a) = SubtreeHash(B, lo, b)
      /\ lo \in Nat /\ a \in Nat /\ b \in Nat
  BY <1>3, <1>8
<1>10. a = b /\ \A j \in 0 .. a - 1 : A[lo + j] = B[lo + j]
  <2>1. a = b /\ SameEntries(A, lo, B, lo, a)
    BY <1>9, SameHashSameEntries
  <2> QED
    BY <2>1 DEF SameEntries
<1>11. ASSUME NEW j \in 1 .. m PROVE A[j] = B[j]
  <2>1. CASE j < lo
    BY <1>8, <1>t, <2>1
  <2>2. CASE j >= lo
    <3>1. j - lo \in 0 .. a - 1 /\ lo + (j - lo) = j
      BY <1>8, <1>t, <2>2
    <3> QED
      BY <1>10, <3>1
  <2> QED
    BY <1>t, <2>1, <2>2
<1>12. SubSeq(A, 1, m) = A /\ m <= n
  BY <1>1, <1>t DEF m
<1>13. SubSeq(B, 1, m) = A
  <2>1. /\ SubSeq(B, 1, m) \in Seq(E) /\ Len(SubSeq(B, 1, m)) = m
        /\ \A j \in 1 .. m : SubSeq(B, 1, m)[j] = B[j]
    BY <1>12, <1>t, SubSeqProperties DEF m, n
  <2> QED
    BY <1>11, <2>1, SeqEqual DEF m
<1> QED
  BY <1>12, <1>13 DEF IsPrefix, m, n

-----------------------------------------------------------------------------
\* The equation of inclusionProof's audit paths, for entry i of the n that begin at lo.
AuditPath(D, path, n, lo, i) ==
  LET k == largestPowerOfTwoLessThan(n)
  IN  path[n][lo][i] =
        IF n = 1 THEN <<>>
        ELSE IF i < k
        THEN Append(path[k][lo][i], SubtreeHash(D, lo + k, n - k))
        ELSE Append(path[n - k][lo + k][i - k], SubtreeHash(D, lo, k))

\* path solves it for every subtree.
AuditPaths(D, path) == \A n, lo \in Nat : \A i \in 0 .. n - 1 : AuditPath(D, path, n, lo, i)

\* The equation of consistencyProof's lists, for the first i of the n that begin at lo.
SubProof(D, sub, n, lo, i) ==
  LET k == largestPowerOfTwoLessThan(n)
  IN  sub[n][lo][i] =
        IF i = n THEN IF lo = 1 THEN <<>> ELSE <<SubtreeHash(D, lo, n)>>
        ELSE IF i <= k
        THEN Append(sub[k][lo][i], SubtreeHash(D, lo + k, n - k))
        ELSE Append(sub[n - k][lo + k][i - k], SubtreeHash(D, lo, k))

\* sub solves it for every subtree.
SubProofs(D, sub) == \A n, lo \in Nat : \A i \in 1 .. n : SubProof(D, sub, n, lo, i)

\* The equation of inclusionProof: the path of an entry is its path in the part that
\* holds it, and the hash of the other part.
LEMMA InclusionProofDef ==
  ASSUME NEW D
  PROVE  \E path : /\ AuditPaths(D, path)
                   /\ \A m : inclusionProof(m, D) = path[Len(D)][1][m]
<1> DEFINE K(s) == largestPowerOfTwoLessThan(s)
           At(g, s) ==
             [lo \in Nat |-> [i \in 0 .. s - 1 |->
                IF s = 1 THEN <<>>
                ELSE IF i < K(s) THEN Append(g[K(s)][lo][i], SubtreeHash(D, lo + K(s), s - K(s)))
                ELSE Append(g[s - K(s)][lo + K(s)][i - K(s)], SubtreeHash(D, lo, K(s)))]]
           Below(g, m) == g = [s \in 0 .. m |-> At(g, s)]
           Solves(g) == g = [s \in Nat |-> At(g, s)]
<1>s. \A s \in Nat : s >= 2 => K(s) \in 0 .. s - 1 /\ s - K(s) \in 0 .. s - 1 /\ K(s) \in Nat
  BY Split
<1> HIDE DEF K
<1>a. ASSUME NEW s \in Nat, NEW g, NEW h, \A j \in 0 .. s - 1 : g[j] = h[j]
      PROVE  At(g, s) = At(h, s)
  <2>1. CASE s < 2
    BY <2>1
  <2>2. CASE s >= 2
    <3>1. g[K(s)] = h[K(s)] /\ g[s - K(s)] = h[s - K(s)]
      BY <1>s, <1>a, <2>2
    <3> QED
      BY <2>2, <3>1
  <2> QED
    BY <2>1, <2>2
<1> HIDE DEF At
<1>1. \A m \in Nat : \E g : Below(g, m)
  <2> DEFINE T == {m \in Nat : \E g : Below(g, m)}
  <2>1. ASSUME NEW m \in Nat, \A j \in 0 .. m - 1 : j \in T PROVE m \in T
    <3>1. \E g : \A j \in 0 .. m - 1 : g[j] = At(g, j)
      <4>1. CASE m = 0
        BY <4>1
      <4>2. CASE m # 0
        BY <2>1, <4>2
      <4> QED
        BY <4>1, <4>2
    <3>2. PICK g : \A j \in 0 .. m - 1 : g[j] = At(g, j)
      BY <3>1
    <3> DEFINE h == [s \in 0 .. m |-> IF s < m THEN g[s] ELSE At(g, s)]
    <3>3. \A s \in 0 .. m : \A j \in 0 .. s - 1 : h[j] = g[j]
      OBVIOUS
    <3>4. \A s \in 0 .. m : At(h, s) = At(g, s)
      <4> HIDE DEF h
      <4> QED
        BY <1>a, <3>3
    <3>5. Below(h, m)
      BY <3>2, <3>4
    <3> QED
      BY <3>5
  <2> HIDE DEF T
  <2>2. T = Nat
    <3>1. T \subseteq Nat
      BY DEF T
    <3> QED
      BY <2>1, <3>1, StrongInduction
  <2> QED
    BY <2>2 DEF T
<1>2. ASSUME NEW m \in Nat, NEW p \in Nat, NEW g, NEW h, Below(g, m), Below(h, p), m <= p
      PROVE  \A s \in 0 .. m : g[s] = h[s]
  <2> DEFINE T == {s \in Nat : s <= m => g[s] = h[s]}
  <2>1. ASSUME NEW s \in Nat, \A j \in 0 .. s - 1 : j \in T PROVE s \in T
    <3>1. CASE s <= m
      <4>1. At(g, s) = At(h, s)
        BY <1>a, <2>1, <3>1
      <4> QED
        BY <1>2, <3>1, <4>1
    <3> QED
      BY <3>1
  <2> HIDE DEF T
  <2>2. T = Nat
    <3>1. T \subseteq Nat
      BY DEF T
    <3> QED
      BY <2>1, <3>1, StrongInduction
  <2> QED
    BY <2>2 DEF T
<1> DEFINE G == [m \in Nat |-> CHOOSE g : Below(g, m)]
           f == [m \in Nat |-> G[m][m]]
<1>3. \A m \in Nat : Below(G[m], m)
  BY <1>1
<1> HIDE DEF G
<1>4. Solves(f)
  <2>1. ASSUME NEW s \in Nat PROVE f[s] = At(f, s)
    <3>1. Below(G[s], s)
      BY <1>3
    <3>2. \A j \in 0 .. s - 1 : f[j] = G[s][j]
      <4> SUFFICES ASSUME NEW j \in 0 .. s - 1 PROVE f[j] = G[s][j]
        OBVIOUS
      <4>1. j \in Nat /\ j <= s /\ Below(G[j], j)
        BY <1>3
      <4> HIDE DEF Below
      <4>2. G[j][j] = G[s][j]
        BY <1>2, <3>1, <4>1
      <4> QED
        BY <4>1, <4>2
    <3>3. At(f, s) = At(G[s], s)
      <4> HIDE DEF f
      <4> QED
        BY <1>a, <3>2
    <3> QED
      BY <3>1, <3>3
  <2> QED
    BY <2>1
<1> HIDE DEF f
<1> DEFINE path == CHOOSE g : Solves(g)
<1>5. Solves(path)
  BY <1>4
<1>6. \A m : inclusionProof(m, D) = path[Len(D)][1][m]
  BY DEF inclusionProof, At, K
<1> HIDE DEF path
<1>7. ASSUME NEW n \in Nat, NEW lo \in Nat, NEW i \in 0 .. n - 1
      PROVE  path[n][lo][i] =
               IF n = 1 THEN <<>>
               ELSE IF i < K(n)
               THEN Append(path[K(n)][lo][i], SubtreeHash(D, lo + K(n), n - K(n)))
               ELSE Append(path[n - K(n)][lo + K(n)][i - K(n)], SubtreeHash(D, lo, K(n)))
  <2>1. path[n] = At(path, n)
    BY <1>5
  <2> QED
    BY <2>1 DEF At
<1> QED
  BY <1>6, <1>7 DEF K, AuditPaths, AuditPath

\* The equation of consistencyProof (subproof in the code).
LEMMA ConsistencyProofDef ==
  ASSUME NEW D
  PROVE  \E sub : /\ SubProofs(D, sub)
                  /\ \A m : consistencyProof(m, D) = sub[Len(D)][1][m]
<1> DEFINE K(s) == largestPowerOfTwoLessThan(s)
           At(g, s) ==
             [lo \in Nat |-> [i \in 1 .. s |->
                IF i = s THEN IF lo = 1 THEN <<>> ELSE <<SubtreeHash(D, lo, s)>>
                ELSE IF i <= K(s)
                THEN Append(g[K(s)][lo][i], SubtreeHash(D, lo + K(s), s - K(s)))
                ELSE Append(g[s - K(s)][lo + K(s)][i - K(s)], SubtreeHash(D, lo, K(s)))]]
           Below(g, m) == g = [s \in 0 .. m |-> At(g, s)]
           Solves(g) == g = [s \in Nat |-> At(g, s)]
<1>s. \A s \in Nat : s >= 2 => K(s) \in 0 .. s - 1 /\ s - K(s) \in 0 .. s - 1 /\ K(s) \in Nat
  BY Split
<1> HIDE DEF K
<1>a. ASSUME NEW s \in Nat, NEW g, NEW h, \A j \in 0 .. s - 1 : g[j] = h[j]
      PROVE  At(g, s) = At(h, s)
  <2>1. CASE s < 2
    <3>1. \A i \in 1 .. s : i = s
      BY <2>1
    <3> QED
      BY <3>1
  <2>2. CASE s >= 2
    <3>1. g[K(s)] = h[K(s)] /\ g[s - K(s)] = h[s - K(s)]
      BY <1>s, <1>a, <2>2
    <3> QED
      BY <2>2, <3>1
  <2> HIDE DEF At
  <2> QED
    BY <2>1, <2>2
<1> HIDE DEF At
<1>1. \A m \in Nat : \E g : Below(g, m)
  <2> DEFINE T == {m \in Nat : \E g : Below(g, m)}
  <2>1. ASSUME NEW m \in Nat, \A j \in 0 .. m - 1 : j \in T PROVE m \in T
    <3>1. \E g : \A j \in 0 .. m - 1 : g[j] = At(g, j)
      <4>1. CASE m = 0
        BY <4>1
      <4>2. CASE m # 0
        BY <2>1, <4>2
      <4> QED
        BY <4>1, <4>2
    <3>2. PICK g : \A j \in 0 .. m - 1 : g[j] = At(g, j)
      BY <3>1
    <3> DEFINE h == [s \in 0 .. m |-> IF s < m THEN g[s] ELSE At(g, s)]
    <3>3. \A s \in 0 .. m : \A j \in 0 .. s - 1 : h[j] = g[j]
      OBVIOUS
    <3>4. \A s \in 0 .. m : At(h, s) = At(g, s)
      <4> HIDE DEF h
      <4> QED
        BY <1>a, <3>3
    <3>5. Below(h, m)
      BY <3>2, <3>4
    <3> QED
      BY <3>5
  <2> HIDE DEF T
  <2>2. T = Nat
    <3>1. T \subseteq Nat
      BY DEF T
    <3> QED
      BY <2>1, <3>1, StrongInduction
  <2> QED
    BY <2>2 DEF T
<1>2. ASSUME NEW m \in Nat, NEW p \in Nat, NEW g, NEW h, Below(g, m), Below(h, p), m <= p
      PROVE  \A s \in 0 .. m : g[s] = h[s]
  <2> DEFINE T == {s \in Nat : s <= m => g[s] = h[s]}
  <2>1. ASSUME NEW s \in Nat, \A j \in 0 .. s - 1 : j \in T PROVE s \in T
    <3>1. CASE s <= m
      <4>1. At(g, s) = At(h, s)
        BY <1>a, <2>1, <3>1
      <4> QED
        BY <1>2, <3>1, <4>1
    <3> QED
      BY <3>1
  <2> HIDE DEF T
  <2>2. T = Nat
    <3>1. T \subseteq Nat
      BY DEF T
    <3> QED
      BY <2>1, <3>1, StrongInduction
  <2> QED
    BY <2>2 DEF T
<1> DEFINE G == [m \in Nat |-> CHOOSE g : Below(g, m)]
           f == [m \in Nat |-> G[m][m]]
<1>3. \A m \in Nat : Below(G[m], m)
  BY <1>1
<1> HIDE DEF G
<1>4. Solves(f)
  <2>1. ASSUME NEW s \in Nat PROVE f[s] = At(f, s)
    <3>1. Below(G[s], s)
      BY <1>3
    <3>2. \A j \in 0 .. s - 1 : f[j] = G[s][j]
      <4> SUFFICES ASSUME NEW j \in 0 .. s - 1 PROVE f[j] = G[s][j]
        OBVIOUS
      <4>1. j \in Nat /\ j <= s /\ Below(G[j], j)
        BY <1>3
      <4> HIDE DEF Below
      <4>2. G[j][j] = G[s][j]
        BY <1>2, <3>1, <4>1
      <4> QED
        BY <4>1, <4>2
    <3>3. At(f, s) = At(G[s], s)
      <4> HIDE DEF f
      <4> QED
        BY <1>a, <3>2
    <3> QED
      BY <3>1, <3>3
  <2> QED
    BY <2>1
<1> HIDE DEF f
<1> DEFINE sub == CHOOSE g : Solves(g)
<1>5. Solves(sub)
  BY <1>4
<1>6. \A m : consistencyProof(m, D) = sub[Len(D)][1][m]
  BY DEF consistencyProof, At, K
<1> HIDE DEF sub
<1>7. ASSUME NEW n \in Nat, NEW lo \in Nat, NEW i \in 1 .. n
      PROVE  sub[n][lo][i] =
               IF i = n THEN IF lo = 1 THEN <<>> ELSE <<SubtreeHash(D, lo, n)>>
               ELSE IF i <= K(n)
               THEN Append(sub[K(n)][lo][i], SubtreeHash(D, lo + K(n), n - K(n)))
               ELSE Append(sub[n - K(n)][lo + K(n)][i - K(n)], SubtreeHash(D, lo, K(n)))
  <2>1. sub[n] = At(sub, n)
    BY <1>5
  <2> QED
    BY <2>1 DEF At
<1> QED
  BY <1>6, <1>7 DEF K, SubProofs, SubProof

-----------------------------------------------------------------------------
\* The hashes of the subtrees of D.
Hashes(D) == {SubtreeHash(D, x[1], x[2]) : x \in Nat \X Nat}

\* Every subtree's hash is one of them.
LEMMA SubtreeHashes ==
  ASSUME NEW D, NEW lo \in Nat, NEW n \in Nat
  PROVE  SubtreeHash(D, lo, n) \in Hashes(D)
<1>1. <<lo, n>> \in Nat \X Nat /\ <<lo, n>>[1] = lo /\ <<lo, n>>[2] = n
  OBVIOUS
<1> QED
  BY <1>1 DEF Hashes

-----------------------------------------------------------------------------
\* Within the width the conversion to a signed integer changes nothing.
LEMMA Shifts ==
  ASSUME NEW x \in Nat, x < TwoTo[Width - 1]
  PROVE  ToInt(x) = x /\ Shift(x) = x \div 2 /\ (IsOdd(x) <=> x % 2 = 1)
<1> DEFINE P == TwoTo[Width - 1]
<1>1. P \in Nat /\ TwoTo[Width] = 2 * P
  <2>1. Width - 1 \in Nat /\ (Width - 1) + 1 = Width
    BY WidthAssumption
  <2> QED
    BY <2>1, Powers
<1> HIDE DEF P
<1>2. x < P
  BY DEF P
<1>3. (x + P) % (2 * P) = x + P
  <2>1. x + P \in Nat /\ 2 * P \in Nat /\ x + P < 2 * P
    BY <1>1, <1>2
  <2>2. \A a, b \in Nat : a < b => a % b = a
    OBVIOUS
  <2> QED
    BY <2>1, <2>2
<1>4. ToInt(x) = x
  BY <1>1, <1>3 DEF ToInt, P
<1> QED
  BY <1>4 DEF Shift, IsOdd

\* The inner loop of both verifiers, round by round.
LEMMA ShiftOutRounds ==
  \E out : /\ \A i \in 0 .. Width : \A y \in Int :
                out[i][y] = IF i > 0 /\ ~IsOdd(Shift(y)) /\ Shift(y) # 0
                            THEN out[i - 1][Shift(y)] ELSE Shift(y)
           /\ \A x : ShiftOut(x) = out[Width][x]
<1> DEFINE At(g, i) == [y \in Int |-> LET z == Shift(y)
                                      IN  IF i > 0 /\ ~IsOdd(z) /\ z # 0 THEN g[i - 1][z] ELSE z]
           Solves(g, m) == g = [i \in 0 .. m |-> At(g, i)]
           T == {m \in Nat : \E g : Solves(g, m)}
<1>1. ASSUME NEW m \in Nat, \A j \in 0 .. m - 1 : j \in T PROVE m \in T
  <2>1. CASE m = 0
    <3> DEFINE g == [i \in 0 .. 0 |-> [y \in Int |-> Shift(y)]]
    <3>1. Solves(g, 0)
      OBVIOUS
    <3> QED
      BY <3>1, <2>1
  <2>2. CASE m # 0
    <3>1. PICK g : Solves(g, m - 1)
      <4> HIDE DEF Solves
      <4> QED
        BY <1>1, <2>2
    <3> DEFINE h == [i \in 0 .. m |-> IF i < m THEN g[i] ELSE At(g, i)]
    <3>2. \A i \in 0 .. m - 1 : h[i] = g[i] /\ g[i] = At(g, i)
      <4> HIDE DEF At
      <4>1. \A i \in 0 .. m - 1 : g[i] = At(g, i)
        BY <3>1
      <4>2. \A i \in 0 .. m - 1 : i \in 0 .. m /\ i < m
        BY <2>2
      <4> QED
        BY <4>1, <4>2
    <3>3. \A i \in 0 .. m : h[i] = At(h, i)
      <4> SUFFICES ASSUME NEW i \in 0 .. m PROVE h[i] = At(h, i)
        OBVIOUS
      <4>1. h[i] = At(g, i)
        <5> HIDE DEF At
        <5>1. h[i] = IF i < m THEN g[i] ELSE At(g, i)
          OBVIOUS
        <5>2. i < m => i \in 0 .. m - 1
          OBVIOUS
        <5> HIDE DEF h
        <5>3. i < m => g[i] = At(g, i)
          BY <3>2, <5>2
        <5> QED
          BY <5>1, <5>3
      <4>2. i > 0 => h[i - 1] = g[i - 1]
        BY <3>2
      <4> HIDE DEF h
      <4>3. At(g, i) = At(h, i)
        BY <4>2
      <4> QED
        BY <4>1, <4>3
    <3>4. h = [i \in 0 .. m |-> h[i]]
      OBVIOUS
    <3> HIDE DEF h, At
    <3>5. Solves(h, m)
      BY <3>3, <3>4
    <3> QED
      BY <3>5
  <2> QED
    BY <2>1, <2>2
<1>2. T \subseteq Nat
  OBVIOUS
<1> HIDE DEF T
<1>3. T = Nat
  BY <1>1, <1>2, StrongInduction
<1> USE DEF T
<1> DEFINE out == CHOOSE g : Solves(g, Width)
<1>4. Solves(out, Width)
  BY <1>3, WidthAssumption
<1>5. \A x : ShiftOut(x) = out[Width][x]
  BY DEF ShiftOut
<1> HIDE DEF out
<1>6. \A i \in 0 .. Width : out[i] = At(out, i)
  <2> HIDE DEF At
  <2> QED
    BY <1>4
<1>7. \A i \in 0 .. Width : \A y \in Int :
        out[i][y] = IF i > 0 /\ ~IsOdd(Shift(y)) /\ Shift(y) # 0
                    THEN out[i - 1][Shift(y)] ELSE Shift(y)
  BY <1>6
<1> QED
  BY <1>5, <1>7

\* A number of at least one bit is shifted until its last bit is one.
LEMMA ShiftOutIs ==
  ASSUME NEW q \in Nat, q >= 1, NEW x \in Nat, TwoTo[q] * (1 + 2 * x) < TwoTo[Width - 1]
  PROVE  ShiftOut(TwoTo[q] * (1 + 2 * x)) = 1 + 2 * x
<1>1. PICK out :
        /\ \A i \in 0 .. Width : \A y \in Int :
             out[i][y] = IF i > 0 /\ ~IsOdd(Shift(y)) /\ Shift(y) # 0
                         THEN out[i - 1][Shift(y)] ELSE Shift(y)
        /\ \A y : ShiftOut(y) = out[Width][y]
  BY ShiftOutRounds
<1> DEFINE c == 1 + 2 * x
           U == {e \in Nat : 1 <= e /\ TwoTo[e] * c < TwoTo[Width - 1] =>
                               \A i \in 0 .. Width : i >= e => out[i][TwoTo[e] * c] = c}
<1>0. c \in Nat /\ c % 2 = 1 /\ c >= 1
  OBVIOUS
<1> HIDE DEF c
<1>2. ASSUME NEW e \in Nat, \A j \in 0 .. e - 1 : j \in U PROVE e \in U
  <2> SUFFICES ASSUME 1 <= e, TwoTo[e] * c < TwoTo[Width - 1], NEW i \in 0 .. Width, i >= e
               PROVE  out[i][TwoTo[e] * c] = c
    OBVIOUS
  <2>1. TwoTo[e] = 2 * TwoTo[e - 1] /\ TwoTo[e - 1] \in Nat /\ TwoTo[e - 1] >= 1
    <3>1. e - 1 \in Nat /\ (e - 1) + 1 = e
      OBVIOUS
    <3> QED
      BY <3>1, Powers
  <2> DEFINE y == TwoTo[e] * c
             z == TwoTo[e - 1] * c
  <2>2. y \in Nat /\ z \in Nat /\ y = 2 * z /\ z < y /\ z # 0
    BY <1>0, <2>1
  <2>3. TwoTo[Width - 1] \in Nat
    BY WidthAssumption, Powers
  <2> HIDE DEF y, z
  <2>4. Shift(y) = z
    <3>1. y < TwoTo[Width - 1]
      BY DEF y
    <3>2. y \div 2 = z
      BY <2>2
    <3> QED
      BY <2>2, <3>1, <3>2, Shifts
  <2>5. IsOdd(z) <=> z % 2 = 1
    <3>1. z < TwoTo[Width - 1]
      BY <2>2, <2>3 DEF y
    <3> QED
      BY <2>2, <3>1, Shifts
  <2>6. out[i][y] = IF i > 0 /\ ~IsOdd(z) /\ z # 0 THEN out[i - 1][z] ELSE z
    BY <1>1, <2>2, <2>4
  <2>7. CASE e = 1
    <3>1. z = c
      BY <1>0, <2>7, Powers DEF z
    <3> QED
      BY <1>0, <2>5, <2>6, <3>1 DEF y
  <2>8. CASE e > 1
    <3>1. TwoTo[e - 1] = 2 * TwoTo[e - 2] /\ TwoTo[e - 2] \in Nat
      <4>1. e - 2 \in Nat /\ (e - 2) + 1 = e - 1
        BY <2>8
      <4> QED
        BY <4>1, Powers
    <3>2. z = 2 * (TwoTo[e - 2] * c) /\ TwoTo[e - 2] * c \in Nat
      BY <1>0, <3>1 DEF z
    <3>3. z % 2 # 1
      BY <3>2
    <3>4. e - 1 \in U /\ i - 1 \in 0 .. Width /\ i - 1 >= e - 1 /\ e - 1 \in Nat /\ 1 <= e - 1
      BY <1>2, <2>8, WidthAssumption
    <3>5. TwoTo[e - 1] * c < TwoTo[Width - 1]
      BY <2>2, <2>3 DEF y, z
    <3>6. out[i - 1][z] = c
      BY <3>4, <3>5 DEF z
    <3> QED
      BY <2>2, <2>5, <2>6, <2>8, <3>3, <3>6 DEF y
  <2> QED
    BY <2>7, <2>8
<1>3. U \subseteq Nat
  OBVIOUS
<1> HIDE DEF U
<1>4. U = Nat
  BY <1>2, <1>3, StrongInduction
<1>5. q <= Width
  <2>1. TwoTo[q] <= TwoTo[q] * c
    <3>1. \A a, b \in Nat : b >= 1 => a <= a * b
      OBVIOUS
    <3> QED
      BY <1>0, <3>1, Powers
  <2>2. CASE q > Width
    <3>1. Width - 1 \in Nat /\ Width - 1 < q /\ TwoTo[Width - 1] \in Nat /\ TwoTo[q] \in Nat
      BY <2>2, WidthAssumption, Powers
    <3>2. 2 * TwoTo[Width - 1] <= TwoTo[q]
      BY <3>1, PowersOrder
    <3> QED
      BY <1>0, <2>1, <3>1, <3>2 DEF c
  <2> QED
    BY <2>2, WidthAssumption
<1>6. out[Width][TwoTo[q] * c] = c
  <2>1. q \in U /\ Width \in 0 .. Width
    BY <1>4, WidthAssumption
  <2> QED
    BY <1>5, <2>1 DEF U, c
<1> QED
  BY <1>1, <1>6 DEF c

\* Where both verifiers shift the two sizes while the first is odd, round by round.
LEMMA ShiftOddRounds ==
  \E out : /\ \A i \in 0 .. Width : \A x, y \in Int :
                out[i][<<x, y>>] = IF i > 0 /\ IsOdd(x)
                                   THEN out[i - 1][<<Shift(x), Shift(y)>>] ELSE <<x, y>>
           /\ \A x, y : ShiftOdd(x, y) = out[Width][<<x, y>>]
<1> DEFINE At(g, i) == [s \in Int \X Int |-> IF i > 0 /\ IsOdd(s[1])
                                             THEN g[i - 1][<<Shift(s[1]), Shift(s[2])>>] ELSE s]
           Solves(g, m) == g = [i \in 0 .. m |-> At(g, i)]
           T == {m \in Nat : \E g : Solves(g, m)}
<1>1. ASSUME NEW m \in Nat, \A j \in 0 .. m - 1 : j \in T PROVE m \in T
  <2>1. CASE m = 0
    <3> DEFINE g == [i \in 0 .. 0 |-> [s \in Int \X Int |-> s]]
    <3>1. Solves(g, 0)
      OBVIOUS
    <3> QED
      BY <3>1, <2>1
  <2>2. CASE m # 0
    <3>1. PICK g : Solves(g, m - 1)
      <4> HIDE DEF Solves
      <4> QED
        BY <1>1, <2>2
    <3> DEFINE h == [i \in 0 .. m |-> IF i < m THEN g[i] ELSE At(g, i)]
    <3>2. \A i \in 0 .. m - 1 : h[i] = g[i] /\ g[i] = At(g, i)
      <4> HIDE DEF At
      <4>1. \A i \in 0 .. m - 1 : g[i] = At(g, i)
        BY <3>1
      <4>2. \A i \in 0 .. m - 1 : i \in 0 .. m /\ i < m
        BY <2>2
      <4> QED
        BY <4>1, <4>2
    <3>3. \A i \in 0 .. m : h[i] = At(h, i)
      <4> SUFFICES ASSUME NEW i \in 0 .. m PROVE h[i] = At(h, i)
        OBVIOUS
      <4>1. h[i] = At(g, i)
        <5> HIDE DEF At
        <5>1. h[i] = IF i < m THEN g[i] ELSE At(g, i)
          OBVIOUS
        <5>2. i < m => i \in 0 .. m - 1
          OBVIOUS
        <5> HIDE DEF h
        <5>3. i < m => g[i] = At(g, i)
          BY <3>2, <5>2
        <5> QED
          BY <5>1, <5>3
      <4>2. i > 0 => h[i - 1] = g[i - 1]
        BY <3>2
      <4> HIDE DEF h
      <4>3. At(g, i) = At(h, i)
        BY <4>2
      <4> QED
        BY <4>1, <4>3
    <3>4. h = [i \in 0 .. m |-> h[i]]
      OBVIOUS
    <3> HIDE DEF h, At
    <3>5. Solves(h, m)
      BY <3>3, <3>4
    <3> QED
      BY <3>5
  <2> QED
    BY <2>1, <2>2
<1>2. T \subseteq Nat
  OBVIOUS
<1> HIDE DEF T
<1>3. T = Nat
  BY <1>1, <1>2, StrongInduction
<1> USE DEF T
<1> DEFINE out == CHOOSE g : Solves(g, Width)
<1>4. Solves(out, Width)
  BY <1>3, WidthAssumption
<1>5. \A x, y : ShiftOdd(x, y) = out[Width][<<x, y>>]
  BY DEF ShiftOdd
<1> HIDE DEF out
<1>6. \A i \in 0 .. Width : out[i] = At(out, i)
  <2> HIDE DEF At
  <2> QED
    BY <1>4
<1>7. \A i \in 0 .. Width : \A x, y \in Int :
        out[i][<<x, y>>] = IF i > 0 /\ IsOdd(x)
                           THEN out[i - 1][<<Shift(x), Shift(y)>>] ELSE <<x, y>>
  <2> SUFFICES ASSUME NEW i \in 0 .. Width, NEW x \in Int, NEW y \in Int
               PROVE  out[i][<<x, y>>] = IF i > 0 /\ IsOdd(x)
                                         THEN out[i - 1][<<Shift(x), Shift(y)>>] ELSE <<x, y>>
    OBVIOUS
  <2> DEFINE s == <<x, y>>
  <2>1. s \in Int \X Int /\ s[1] = x /\ s[2] = y
    OBVIOUS
  <2> HIDE DEF s
  <2>2. out[i][s] = IF i > 0 /\ IsOdd(s[1])
                    THEN out[i - 1][<<Shift(s[1]), Shift(s[2])>>] ELSE s
    BY <1>6, <2>1
  <2> QED
    BY <2>1, <2>2 DEF s
<1> QED
  BY <1>5, <1>7

\* Shifted while odd, p ones are dropped from the first size and p bits from the second.
LEMMA ShiftOddIs ==
  ASSUME NEW p \in Nat, NEW a \in Nat, NEW b \in Nat, a % 2 = 0,
         NEW j \in Nat, j < TwoTo[p],
         NEW fn, fn = TwoTo[p] - 1 + TwoTo[p] * a, fn < TwoTo[Width - 1],
         NEW sn, sn = j + TwoTo[p] * b, sn < TwoTo[Width - 1]
  PROVE  ShiftOdd(fn, sn) = <<a, b>>
<1>1. PICK out :
        /\ \A i \in 0 .. Width : \A x, y \in Int :
             out[i][<<x, y>>] = IF i > 0 /\ IsOdd(x)
                                THEN out[i - 1][<<Shift(x), Shift(y)>>] ELSE <<x, y>>
        /\ \A x, y : ShiftOdd(x, y) = out[Width][<<x, y>>]
  BY ShiftOddRounds
<1> DEFINE W == TwoTo[Width - 1]
           Drops(e, k) == TwoTo[e] - 1 + TwoTo[e] * a < W /\ k + TwoTo[e] * b < W =>
             \A i \in 0 .. Width : i >= e =>
               out[i][<<TwoTo[e] - 1 + TwoTo[e] * a, k + TwoTo[e] * b>>] = <<a, b>>
           U == {e \in Nat : \A k \in 0 .. TwoTo[e] - 1 : Drops(e, k)}
<1>0. W \in Nat
  BY WidthAssumption, Powers
<1> HIDE DEF W
<1>2. ASSUME NEW e \in Nat, \A d \in 0 .. e - 1 : d \in U PROVE e \in U
  <2> SUFFICES ASSUME NEW k \in 0 .. TwoTo[e] - 1,
                      TwoTo[e] - 1 + TwoTo[e] * a < W, k + TwoTo[e] * b < W,
                      NEW i \in 0 .. Width, i >= e
               PROVE  out[i][<<TwoTo[e] - 1 + TwoTo[e] * a, k + TwoTo[e] * b>>] = <<a, b>>
    OBVIOUS
  <2>1. CASE e = 0
    <3>1. TwoTo[e] - 1 + TwoTo[e] * a = a /\ k + TwoTo[e] * b = b
      BY <2>1, Powers
    <3>2. ~IsOdd(a)
      BY <3>1, Shifts DEF W
    <3>3. out[i][<<a, b>>] = <<a, b>>
      <4>1. a \in Int /\ b \in Int
        OBVIOUS
      <4> HIDE DEF Drops, U
      <4> QED
        BY <1>1, <3>2, <4>1
    <3> QED
      BY <3>1, <3>3
  <2>2. CASE e # 0
    <3> DEFINE K == TwoTo[e - 1]
               x == TwoTo[e] - 1 + TwoTo[e] * a
               y == k + TwoTo[e] * b
               x1 == K - 1 + K * a
               y1 == (k \div 2) + K * b
    <3>1. TwoTo[e] = 2 * K /\ K \in Nat /\ K >= 1
      <4>1. e - 1 \in Nat /\ (e - 1) + 1 = e
        BY <2>2
      <4> QED
        BY <4>1, Powers
    <3>2. K * a \in Nat /\ K * b \in Nat /\ TwoTo[e] * a = 2 * (K * a) /\ TwoTo[e] * b = 2 * (K * b)
      BY <3>1
    <3>3. /\ x \in Nat /\ y \in Nat /\ x1 \in Nat /\ y1 \in Nat
          /\ x = 2 * x1 + 1 /\ x1 <= x /\ y1 <= y /\ y \div 2 = y1
          /\ k \div 2 \in 0 .. K - 1
      <4> DEFINE A == K * a
                 B == K * b
      <4>1. x = 2 * K - 1 + 2 * A /\ y = k + 2 * B /\ x1 = K - 1 + A /\ y1 = (k \div 2) + B
        BY <3>1, <3>2
      <4>2. A \in Nat /\ B \in Nat /\ k \in 0 .. 2 * K - 1
        BY <3>1, <3>2
      <4> HIDE DEF A, B, K, x, y, x1, y1, Drops, U
      <4>3. k \div 2 \in 0 .. K - 1 /\ (k + 2 * B) \div 2 = (k \div 2) + B /\ k \div 2 <= k
        BY <3>1, <4>2
      <4> QED
        BY <3>1, <4>1, <4>2, <4>3
    <3> HIDE DEF K
    <3>4. x < W /\ y < W /\ x1 < W /\ y1 < W
      BY <1>0, <3>3
    <3> HIDE DEF x, y, x1, y1
    <3>5. IsOdd(x) /\ Shift(x) = x1 /\ Shift(y) = y1
      <4>1. x % 2 = 1 /\ x \div 2 = x1
        BY <3>3
      <4> QED
        BY <3>3, <3>4, <4>1, Shifts DEF W
    <3>6. out[i][<<x, y>>] = out[i - 1][<<x1, y1>>]
      BY <1>1, <2>2, <3>3, <3>5
    <3>7. e - 1 \in U /\ i - 1 \in 0 .. Width /\ i - 1 >= e - 1 /\ k \div 2 \in 0 .. TwoTo[e - 1] - 1
      BY <1>2, <2>2, <3>3, WidthAssumption DEF K
    <3>8. Drops(e - 1, k \div 2)
      <4> HIDE DEF Drops
      <4> QED
        BY <3>7
    <3>9. out[i - 1][<<x1, y1>>] = <<a, b>>
      BY <3>4, <3>7, <3>8 DEF x1, y1, K
    <3> QED
      BY <3>6, <3>9 DEF x, y
  <2> QED
    BY <2>1, <2>2
<1>3. U \subseteq Nat
  OBVIOUS
<1> HIDE DEF U
<1>4. U = Nat
  BY <1>2, <1>3, StrongInduction
<1>5. p <= Width
  <2>1. TwoTo[p] <= W
    <3>1. TwoTo[p] * a \in Nat /\ TwoTo[p] \in Nat
      BY Powers
    <3> QED
      BY <1>0, <3>1 DEF W
  <2>2. CASE p > Width
    <3>1. Width - 1 \in Nat /\ Width - 1 < p /\ TwoTo[p] \in Nat
      BY <2>2, WidthAssumption, Powers
    <3>2. 2 * W <= TwoTo[p]
      BY <3>1, PowersOrder DEF W
    <3>3. W >= 1
      BY WidthAssumption, Powers DEF W
    <3> QED
      BY <1>0, <2>1, <3>1, <3>2, <3>3
  <2> QED
    BY <2>2, WidthAssumption
<1>6. Drops(p, j)
  <2>1. p \in U /\ j \in 0 .. TwoTo[p] - 1
    BY <1>4, Powers
  <2> HIDE DEF Drops
  <2> QED
    BY <2>1 DEF U
<1>7. out[Width][<<TwoTo[p] - 1 + TwoTo[p] * a, j + TwoTo[p] * b>>] = <<a, b>>
  BY <1>5, <1>6, WidthAssumption DEF W
<1>8. out[Width][<<fn, sn>>] = <<a, b>>
  BY <1>7
<1> QED
  BY <1>1, <1>8

-----------------------------------------------------------------------------
\* The loops take the hashes of a list one after the other.
LEMMA InclusionAppend ==
  ASSUME NEW S, NEW proof \in Seq(S), NEW c \in S, NEW leaf, NEW index, NEW size
  PROVE  InclusionLoop(leaf, index, size, Append(proof, c))
           = InclusionRound(InclusionLoop(leaf, index, size, proof), c)
<1> DEFINE longer == Append(proof, c)
           L == Len(proof)
<1>1. /\ longer \in Seq(S) /\ Len(longer) = L + 1 /\ L \in Nat /\ longer[L + 1] = c
      /\ \A i \in 1 .. L : longer[i] = proof[i]
  BY AppendProperties
<1> HIDE DEF longer
<1>2. PICK f : /\ f[0] = [fn |-> index, sn |-> size - 1, r |-> leaf, ok |-> TRUE]
               /\ \A i \in 1 .. L : f[i] = InclusionRound(f[i - 1], proof[i])
               /\ InclusionLoop(leaf, index, size, proof) = f[L]
  BY <1>1, InclusionRounds
<1>3. PICK g : /\ g[0] = [fn |-> index, sn |-> size - 1, r |-> leaf, ok |-> TRUE]
               /\ \A i \in 1 .. Len(longer) : g[i] = InclusionRound(g[i - 1], longer[i])
               /\ InclusionLoop(leaf, index, size, longer) = g[Len(longer)]
  <2>1. Len(longer) \in Nat
    BY <1>1
  <2> QED
    BY <2>1, InclusionRounds
<1> DEFINE T == {i \in Nat : i <= L => f[i] = g[i]}
<1>4. ASSUME NEW i \in Nat, \A j \in 0 .. i - 1 : j \in T PROVE i \in T
  <2>1. CASE i = 0
    BY <2>1, <1>2, <1>3
  <2>2. CASE i # 0 /\ i <= L
    <3>1. f[i - 1] = g[i - 1]
      BY <1>4, <2>2
    <3>2. i \in 1 .. L /\ i \in 1 .. Len(longer)
      BY <1>1, <2>2
    <3>3. f[i] = g[i]
      BY <1>1, <1>2, <1>3, <3>1, <3>2
    <3> QED
      BY <3>3
  <2> QED
    BY <2>1, <2>2
<1>5. T \subseteq Nat
  OBVIOUS
<1> HIDE DEF T
<1>6. T = Nat
  BY <1>4, <1>5, StrongInduction
<1>7. f[L] = g[L]
  BY <1>1, <1>6 DEF T
<1>8. g[L + 1] = InclusionRound(g[L], c)
  <2>1. L + 1 \in 1 .. Len(longer) /\ (L + 1) - 1 = L
    BY <1>1
  <2> QED
    BY <1>1, <1>3, <2>1
<1> QED
  BY <1>1, <1>2, <1>3, <1>7, <1>8 DEF longer

\* With no hash to read verifyInclusion's loop stays where it starts.
LEMMA InclusionNothing ==
  ASSUME NEW leaf, NEW index, NEW size
  PROVE  InclusionLoop(leaf, index, size, <<>>)
           = [fn |-> index, sn |-> size - 1, r |-> leaf, ok |-> TRUE]
<1> DEFINE none == <<>>
<1>1. Len(none) = 0
  OBVIOUS
<1> HIDE DEF none
<1>2. PICK after :
        /\ after[0] = [fn |-> index, sn |-> size - 1, r |-> leaf, ok |-> TRUE]
        /\ \A i \in 1 .. Len(none) : after[i] = InclusionRound(after[i - 1], none[i])
        /\ InclusionLoop(leaf, index, size, none) = after[Len(none)]
  <2>1. Len(none) \in Nat
    BY <1>1
  <2> QED
    BY <2>1, InclusionRounds
<1> QED
  BY <1>1, <1>2 DEF none

\* So does verifyConsistency's, after its first.
LEMMA ConsistencyAppend ==
  ASSUME NEW S, NEW path \in Seq(S), path # <<>>, NEW c \in S, NEW m, NEW n
  PROVE  ConsistencyLoop(m, n, Append(path, c))
           = ConsistencyRound(ConsistencyLoop(m, n, path), c)
<1> DEFINE longer == Append(path, c)
           L == Len(path)
           start(h) == [fn |-> ShiftOdd(m - 1, n - 1)[1], sn |-> ShiftOdd(m - 1, n - 1)[2],
                        ok |-> TRUE, fr |-> h, sr |-> h]
<1>1. /\ longer \in Seq(S) /\ Len(longer) = L + 1 /\ L \in Nat /\ L >= 1 /\ longer[L + 1] = c
      /\ \A i \in 1 .. L : longer[i] = path[i]
  <2>1. L >= 1
    BY EmptySeq
  <2> QED
    BY <2>1, AppendProperties
<1> HIDE DEF longer
<1>2. PICK f : /\ f[0] = start(path[1])
               /\ \A i \in 1 .. L - 1 : f[i] = ConsistencyRound(f[i - 1], path[i + 1])
               /\ ConsistencyLoop(m, n, path) = f[L - 1]
  <2>1. Len(path) \in Nat /\ Len(path) >= 1
    BY <1>1
  <2> QED
    BY <2>1, ConsistencyRounds
<1>3. PICK g : /\ g[0] = start(longer[1])
               /\ \A i \in 1 .. Len(longer) - 1 : g[i] = ConsistencyRound(g[i - 1], longer[i + 1])
               /\ ConsistencyLoop(m, n, longer) = g[Len(longer) - 1]
  <2>1. Len(longer) \in Nat /\ Len(longer) >= 1
    BY <1>1
  <2> QED
    BY <2>1, ConsistencyRounds
<1> HIDE DEF start
<1> DEFINE T == {i \in Nat : i <= L - 1 => f[i] = g[i]}
<1>4. ASSUME NEW i \in Nat, \A j \in 0 .. i - 1 : j \in T PROVE i \in T
  <2>1. CASE i = 0
    BY <2>1, <1>1, <1>2, <1>3
  <2>2. CASE i # 0 /\ i <= L - 1
    <3>1. f[i - 1] = g[i - 1]
      BY <1>4, <2>2
    <3>2. i \in 1 .. L - 1 /\ i \in 1 .. Len(longer) - 1 /\ i + 1 \in 1 .. L
      BY <1>1, <2>2
    <3>3. f[i] = g[i]
      BY <1>1, <1>2, <1>3, <3>1, <3>2
    <3> QED
      BY <3>3
  <2> QED
    BY <2>1, <2>2
<1>5. T \subseteq Nat
  OBVIOUS
<1> HIDE DEF T
<1>6. T = Nat
  BY <1>4, <1>5, StrongInduction
<1>7. f[L - 1] = g[L - 1]
  BY <1>1, <1>6 DEF T
<1>8. g[L] = ConsistencyRound(g[L - 1], c)
  <2>1. L \in 1 .. Len(longer) - 1
    BY <1>1
  <2> QED
    BY <1>1, <1>3, <2>1
<1>9. ConsistencyLoop(m, n, longer) = g[L]
  <2>1. Len(longer) - 1 = L
    BY <1>1
  <2> QED
    BY <1>3, <2>1
<1> QED
  BY <1>2, <1>7, <1>8, <1>9 DEF longer

\* The first hash starts it: it is both roots so far.
LEMMA ConsistencyFirst ==
  ASSUME NEW c, NEW m, NEW n
  PROVE  ConsistencyLoop(m, n, <<c>>)
           = [fn |-> ShiftOdd(m - 1, n - 1)[1], sn |-> ShiftOdd(m - 1, n - 1)[2],
              ok |-> TRUE, fr |-> c, sr |-> c]
<1>1. Len(<<c>>) = 1 /\ <<c>>[1] = c
  OBVIOUS
<1> QED
  BY <1>1, ConsistencyRounds

-----------------------------------------------------------------------------
\* One level up: from the left part the verifier reads a sibling on the right; from
\* the right part, or on the right edge, one on the left.
LeftMoves(x, y, u, z) == ~IsOdd(u) /\ Shift(u) = x /\ Shift(z) = y /\ u # z /\ z # 0

\* The left part's index is even, and other than the last.
LEMMA LeftMove ==
  ASSUME NEW x \in Nat, NEW y \in Nat, NEW u, NEW z, u = 2 * x, z = 2 * y \/ z = 1 + 2 * y,
         u < z, z < TwoTo[Width - 1]
  PROVE  LeftMoves(x, y, u, z)
<1>1. u \in Nat /\ z \in Nat /\ u % 2 # 1 /\ u \div 2 = x /\ z \div 2 = y
  OBVIOUS
<1>2. TwoTo[Width - 1] \in Nat
  BY WidthAssumption, Powers
<1>3. u < TwoTo[Width - 1]
  BY <1>1, <1>2
<1> QED
  BY <1>1, <1>3, Shifts DEF LeftMoves

\* From a right part: the index is odd.
RightMoves(x, y, u, z) == IsOdd(u) /\ Shift(u) = x /\ Shift(z) = y /\ z # 0

\* The right part's index is odd, the last or not.
LEMMA RightMove ==
  ASSUME NEW x \in Nat, NEW y \in Nat, NEW u, NEW z, u = 1 + 2 * x, z = 2 * y \/ z = 1 + 2 * y,
         u <= z, z < TwoTo[Width - 1]
  PROVE  RightMoves(x, y, u, z)
<1>1. u \in Nat /\ z \in Nat /\ u % 2 = 1 /\ u \div 2 = x /\ z \div 2 = y
  OBVIOUS
<1>2. TwoTo[Width - 1] \in Nat
  BY WidthAssumption, Powers
<1>3. u < TwoTo[Width - 1]
  BY <1>1, <1>2
<1> QED
  BY <1>1, <1>3, Shifts DEF RightMoves

\* On the right edge: the loop strips the zeros, and one bit more, in one round.
LEMMA EdgeMove ==
  ASSUME NEW x \in Nat, NEW q \in Nat, NEW z, z = TwoTo[q] * (1 + 2 * x),
         z < TwoTo[Width - 1]
  PROVE  z # 0 /\ z \in Nat /\ Shift(IF ~IsOdd(z) THEN ShiftOut(z) ELSE z) = x
<1> DEFINE c == 1 + 2 * x
<1>0. c \in Nat /\ c >= 1 /\ TwoTo[q] \in Nat /\ TwoTo[q] >= 1
  BY Powers
<1>1. z \in Nat /\ c <= z
  <2>1. \A u, v \in Nat : u >= 1 /\ v >= 1 => v <= u * v /\ u * v \in Nat
    OBVIOUS
  <2> QED
    BY <1>0, <2>1
<1>2. TwoTo[Width - 1] \in Nat
  BY WidthAssumption, Powers
<1>3. Shift(c) = x /\ IsOdd(c)
  <2>1. c % 2 = 1 /\ c \div 2 = x /\ c < TwoTo[Width - 1]
    BY <1>0, <1>1, <1>2
  <2> QED
    BY <1>0, <2>1, Shifts
<1>4. CASE q = 0
  <2>1. z = c
    BY <1>4, Powers
  <2> QED
    BY <1>0, <1>3, <2>1
<1>5. CASE q # 0
  <2>1. TwoTo[q] = 2 * TwoTo[q - 1] /\ TwoTo[q - 1] \in Nat
    <3>1. q - 1 \in Nat /\ (q - 1) + 1 = q
      BY <1>5
    <3> QED
      BY <3>1, Powers
  <2>2. z = 2 * (TwoTo[q - 1] * c) /\ TwoTo[q - 1] * c \in Nat
    BY <1>0, <2>1
  <2>3. ~IsOdd(z)
    <3>1. z % 2 # 1
      BY <2>2
    <3> QED
      BY <1>1, <3>1, Shifts
  <2>4. ShiftOut(z) = c
    BY <1>5, ShiftOutIs
  <2> QED
    BY <1>0, <1>1, <1>3, <2>3, <2>4
<1> QED
  BY <1>4, <1>5

-----------------------------------------------------------------------------
\* Where a subtree of n entries lies in the tree that is verified: its entry i has the
\* index i + TwoTo[p] * a there, and the last index is j + TwoTo[p] * b.  Either more
\* entries follow, and the subtree is full, or its last entry is the tree's.
Placed(n, p, a, b, j) ==
  /\ n \in 1 .. TwoTo[p]
  /\ j \in Nat
  /\ \/ a < b /\ n = TwoTo[p] /\ j < TwoTo[p]
     \/ a = b /\ j = n - 1

\* What the verifier's index and last index are when it has climbed to its root.
Climbed(fn, sn, a, b) ==
  /\ sn \in Nat /\ sn < TwoTo[Width - 1]
  /\ \/ a < b /\ fn = a /\ sn = b
     \/ a = b /\ \E q \in Nat : fn = TwoTo[q] * a /\ sn = fn

\* The root of a part is one level below that of the whole: A and B are the whole's.
Below(A, B, a, b) ==
  \/ a < b /\ A = a /\ B = b
  \/ a = b /\ A = B /\ \E d \in Nat : A = TwoTo[d] * a

\* So do its two parts, of k = TwoTo[e] entries and the rest: A, B say where their level
\* of the tree begins, a1 and a2 are the two parts' places in it.
Parts(n, k, p, a, b, j) ==
  \E e, A, B, a1, a2, b2, j2 \in Nat :
    /\ k = TwoTo[e] /\ k < n /\ n <= 2 * k
    /\ a1 = 2 * A /\ a2 = 1 + 2 * A /\ (b2 = 2 * B \/ b2 = 1 + 2 * B)
    /\ j + TwoTo[p] * b = j2 + TwoTo[e] * b2
    /\ TwoTo[p] * a = TwoTo[e] * a1 /\ k + TwoTo[e] * a1 = TwoTo[e] * a2
    /\ TwoTo[e] * a1 \in Nat /\ TwoTo[e] * a2 \in Nat
    /\ a1 < b2 /\ Placed(k, e, a1, b2, j2)
    /\ a2 <= b2 /\ Placed(n - k, e, a2, b2, j2)
    /\ Below(A, B, a, b)

\* A subtree of two entries or more so placed has two parts so placed.
LEMMA Descend ==
  ASSUME NEW n \in Nat, n >= 2, NEW p \in Nat, NEW a \in Nat, NEW b \in Nat, NEW j \in Nat,
         Placed(n, p, a, b, j), NEW k, k = largestPowerOfTwoLessThan(n)
  PROVE  Parts(n, k, p, a, b, j)
<1>1. PICK e \in Nat : k = TwoTo[e] /\ TwoTo[e] < n /\ n <= 2 * TwoTo[e]
  BY SplitPower
<1>2. TwoTo[e] \in Nat /\ TwoTo[p] \in Nat /\ n <= TwoTo[p] /\ TwoTo[e] >= 1
  BY Powers DEF Placed
<1>3. e < p
  <2>1. CASE p < e
    BY <1>1, <1>2, <2>1, PowersOrder
  <2>2. CASE p = e
    BY <1>1, <1>2, <2>2
  <2> QED
    BY <2>1, <2>2
<1> DEFINE d == p - e - 1
           A == TwoTo[d] * a
           B == TwoTo[d] * b
<1>4. d \in Nat /\ TwoTo[d] \in Nat /\ TwoTo[d] >= 1
  <2>1. d \in Nat
    BY <1>3
  <2> QED
    BY <2>1, Powers
<1>5. TwoTo[p] = TwoTo[e] * (2 * TwoTo[d])
  <2>1. e + (d + 1) = p /\ d + 1 \in Nat
    BY <1>4
  <2>2. TwoTo[p] = TwoTo[e] * TwoTo[d + 1]
    BY <2>1, PowersAdd
  <2>3. TwoTo[d + 1] = 2 * TwoTo[d]
    BY <1>4, Powers
  <2> QED
    BY <2>2, <2>3
<1>6. /\ A \in Nat /\ B \in Nat
      /\ TwoTo[p] * a = TwoTo[e] * (2 * A) /\ TwoTo[p] * b = TwoTo[e] * (2 * B)
  <2>1. \A u, v, w \in Nat : (u * (2 * v)) * w = u * (2 * (v * w)) /\ v * w \in Nat
    OBVIOUS
  <2> HIDE DEF d
  <2> QED
    BY <1>2, <1>4, <1>5, <2>1
<1>7. \A z \in Nat : /\ TwoTo[e] + TwoTo[e] * z = TwoTo[e] * (1 + z)
                     /\ TwoTo[e] * z \in Nat
  BY <1>2
<1>8. \/ a < b /\ A = a /\ B = b /\ TwoTo[p] = 2 * TwoTo[e] /\ n = 2 * TwoTo[e] /\ j < 2 * TwoTo[e]
      \/ a = b /\ A = B /\ j = n - 1
  <2>1. CASE a = b
    BY <2>1 DEF Placed
  <2>2. CASE a < b
    <3>1. n = TwoTo[p] /\ j < TwoTo[p]
      BY <2>2 DEF Placed
    <3>2. d = 0
      <4> SUFFICES ASSUME d # 0 PROVE FALSE
        OBVIOUS
      <4>1. e + 1 \in Nat /\ e + 1 < p
        BY <1>4
      <4>2. TwoTo[e + 1] = 2 * TwoTo[e] /\ 2 * TwoTo[e + 1] <= TwoTo[p]
        BY <4>1, PowersOrder, Powers
      <4> QED
        BY <1>1, <1>2, <3>1, <4>2
    <3>3. TwoTo[d] = 1
      BY <3>2, Powers
    <3>4. TwoTo[p] = 2 * TwoTo[e]
      BY <1>2, <1>5, <3>3
    <3> QED
      BY <2>2, <3>1, <3>3, <3>4
  <2> QED
    BY <2>1, <2>2 DEF Placed
<1> HIDE DEF A, B
<1>9. a = b => \E c \in Nat : A = TwoTo[c] * a
  BY <1>4 DEF A
<1> HIDE DEF d
<1> DEFINE high == j >= TwoTo[e]
           b2 == IF high THEN 1 + 2 * B ELSE 2 * B
           j2 == IF high THEN j - TwoTo[e] ELSE j
<1>10. /\ b2 \in Nat /\ j2 \in Nat /\ b2 \in {2 * B, 1 + 2 * B}
       /\ j + TwoTo[p] * b = j2 + TwoTo[e] * b2
  <2>1. 2 * B \in Nat /\ TwoTo[e] + TwoTo[e] * (2 * B) = TwoTo[e] * (1 + 2 * B)
        /\ TwoTo[e] * (2 * B) \in Nat
    BY <1>6, <1>7
  <2>2. CASE high
    <3>1. j2 = j - TwoTo[e] /\ b2 = 1 + 2 * B
      BY <2>2
    <3> HIDE DEF j2, b2
    <3>2. j - TwoTo[e] \in Nat
      BY <1>2, <2>2
    <3> QED
      BY <1>2, <1>6, <2>1, <3>1, <3>2
  <2>3. CASE ~high
    BY <1>2, <1>6, <2>1, <2>3
  <2> QED
    BY <2>2, <2>3
<1>11. 2 * A < b2 /\ j2 < TwoTo[e]
  BY <1>1, <1>2, <1>6, <1>8
<1>12. 1 + 2 * A < b2 \/ 1 + 2 * A = b2
  BY <1>6, <1>10, <1>11
<1>13. 1 + 2 * A < b2 => n - k = TwoTo[e]
  BY <1>1, <1>2, <1>6, <1>8
<1>14. 1 + 2 * A = b2 => j2 = (n - k) - 1
  BY <1>1, <1>2, <1>6, <1>8
<1>15. Placed(k, e, 2 * A, b2, j2)
  BY <1>1, <1>2, <1>10, <1>11 DEF Placed
<1>16. Placed(n - k, e, 1 + 2 * A, b2, j2)
  <2>1. n - k \in 1 .. TwoTo[e]
    BY <1>1, <1>2
  <2> QED
    BY <1>2, <1>10, <1>11, <1>12, <1>13, <1>14, <2>1 DEF Placed
<1>17. /\ TwoTo[e] + TwoTo[e] * (2 * A) = TwoTo[e] * (1 + 2 * A)
       /\ TwoTo[e] * (2 * A) \in Nat /\ TwoTo[e] * (1 + 2 * A) \in Nat
  <2>1. 2 * A \in Nat /\ 1 + 2 * A \in Nat
    BY <1>6
  <2> QED
    BY <1>7, <2>1
<1>18. Below(A, B, a, b)
  BY <1>8, <1>9 DEF Below
<1> HIDE DEF b2, j2
<1> DEFINE a1 == 2 * A
           a2 == 1 + 2 * A
<1>19. a1 = 2 * A /\ a2 = 1 + 2 * A /\ a1 \in Nat /\ a2 \in Nat
  BY <1>6
<1>20. /\ TwoTo[p] * a = TwoTo[e] * a1 /\ k + TwoTo[e] * a1 = TwoTo[e] * a2
       /\ TwoTo[e] * a1 \in Nat /\ TwoTo[e] * a2 \in Nat
       /\ a1 < b2 /\ Placed(k, e, a1, b2, j2)
       /\ a2 <= b2 /\ Placed(n - k, e, a2, b2, j2)
  <2>1. TwoTo[p] * a = TwoTo[e] * a1 /\ k + TwoTo[e] * a1 = TwoTo[e] * a2
    BY <1>1, <1>6, <1>17
  <2>2. TwoTo[e] * a1 \in Nat /\ TwoTo[e] * a2 \in Nat
    BY <1>17
  <2>3. a1 < b2 /\ a2 <= b2
    BY <1>6, <1>10, <1>11, <1>12
  <2> QED
    BY <1>15, <1>16, <2>1, <2>2, <2>3
<1> HIDE DEF a1, a2
<1>21. A \in Nat /\ B \in Nat /\ a1 \in Nat /\ a2 \in Nat /\ b2 \in Nat /\ j2 \in Nat
  BY <1>6, <1>10, <1>19
<1> SUFFICES
      \E e_, A_, B_, a1_, a2_, b2_, j2_ \in Nat :
        /\ k = TwoTo[e_] /\ k < n /\ n <= 2 * k
        /\ a1_ = 2 * A_ /\ a2_ = 1 + 2 * A_ /\ (b2_ = 2 * B_ \/ b2_ = 1 + 2 * B_)
        /\ j + TwoTo[p] * b = j2_ + TwoTo[e_] * b2_
        /\ TwoTo[p] * a = TwoTo[e_] * a1_ /\ k + TwoTo[e_] * a1_ = TwoTo[e_] * a2_
        /\ TwoTo[e_] * a1_ \in Nat /\ TwoTo[e_] * a2_ \in Nat
        /\ a1_ < b2_ /\ Placed(k, e_, a1_, b2_, j2_)
        /\ a2_ <= b2_ /\ Placed(n - k, e_, a2_, b2_, j2_)
        /\ Below(A_, B_, a, b)
  BY DEF Parts
<1> USE <1>21
<1> WITNESS e \in Nat, A \in Nat, B \in Nat, a1 \in Nat, a2 \in Nat, b2 \in Nat, j2 \in Nat
<1> QED
  BY <1>1, <1>6, <1>10, <1>18, <1>19, <1>20

\* verifyInclusion has climbed to a root of hash h.
Rooted(s, h, a, b) == s.ok = TRUE /\ s.r = h /\ Climbed(s.fn, s.sn, a, b)

\* A level up its last index is within the width still.
LEMMA ClimbedBelow ==
  ASSUME NEW A \in Nat, NEW B \in Nat, NEW a \in Nat, NEW b \in Nat, Below(A, B, a, b),
         B < TwoTo[Width - 1]
  PROVE  Climbed(A, B, a, b)
BY DEF Below, Climbed

\* A round takes it from the root of a part to that of the whole.
LEMMA InclusionLeft ==
  ASSUME NEW s, NEW h, NEW c, NEW A \in Nat, NEW B \in Nat, NEW a \in Nat, NEW b \in Nat,
         NEW a1, a1 = 2 * A, NEW b2, b2 = 2 * B \/ b2 = 1 + 2 * B, a1 < b2,
         Below(A, B, a, b), Rooted(s, h, a1, b2)
  PROVE  Rooted(InclusionRound(s, c), hashChildren(h, c), a, b)
<1>1. /\ s.fn = a1 /\ s.sn = b2 /\ b2 < TwoTo[Width - 1] /\ s.ok = TRUE /\ s.r = h
  BY DEF Rooted, Climbed
<1>2. LeftMoves(A, B, a1, b2)
  BY <1>1, LeftMove
<1>3. InclusionRound(s, c) = [fn |-> A, sn |-> B, ok |-> TRUE, r |-> hashChildren(h, c)]
  BY <1>1, <1>2 DEF InclusionRound, LeftMoves
<1>4. B < TwoTo[Width - 1]
  <2>1. TwoTo[Width - 1] \in Nat
    BY WidthAssumption, Powers
  <2> QED
    BY <1>1, <2>1
<1>5. Climbed(A, B, a, b)
  BY <1>4, ClimbedBelow
<1> QED
  BY <1>3, <1>5 DEF Rooted

\* So from the right part, on the edge of the tree or inside it.
LEMMA InclusionRight ==
  ASSUME NEW s, NEW h, NEW c, NEW A \in Nat, NEW B \in Nat, NEW a \in Nat, NEW b \in Nat,
         NEW a2, a2 = 1 + 2 * A, NEW b2, b2 = 2 * B \/ b2 = 1 + 2 * B, a2 <= b2,
         Below(A, B, a, b), Rooted(s, h, a2, b2)
  PROVE  Rooted(InclusionRound(s, c), hashChildren(c, h), a, b)
<1>0. TwoTo[Width - 1] \in Nat
  BY WidthAssumption, Powers
<1>1. s.ok = TRUE /\ s.r = h /\ s.sn < TwoTo[Width - 1]
  BY DEF Rooted, Climbed
<1>2. CASE a2 < b2
  <2>1. s.fn = a2 /\ s.sn = b2 /\ b2 < TwoTo[Width - 1]
    BY <1>2 DEF Rooted, Climbed
  <2>2. RightMoves(A, B, a2, b2)
    BY <2>1, RightMove
  <2>3. InclusionRound(s, c) = [fn |-> A, sn |-> B, ok |-> TRUE, r |-> hashChildren(c, h)]
    BY <1>1, <2>1, <2>2 DEF InclusionRound, RightMoves
  <2>4. B < TwoTo[Width - 1]
    BY <1>0, <2>1
  <2>5. Climbed(A, B, a, b)
    BY <2>4, ClimbedBelow
  <2> QED
    BY <2>3, <2>5 DEF Rooted
<1>3. CASE a2 = b2
  <2>1. A = B
    BY <1>3
  <2> DEFINE z == s.fn
  <2>2. PICK q \in Nat : z = TwoTo[q] * a2 /\ s.sn = z
    BY <1>3 DEF Rooted, Climbed
  <2>3. z = TwoTo[q] * (1 + 2 * A) /\ z < TwoTo[Width - 1]
    BY <1>1, <2>2
  <2>4. z # 0 /\ z \in Nat /\ Shift(IF ~IsOdd(z) THEN ShiftOut(z) ELSE z) = A
    BY <2>3, EdgeMove
  <2>5. InclusionRound(s, c) = [fn |-> A, sn |-> A, ok |-> TRUE, r |-> hashChildren(c, h)]
    BY <1>1, <2>2, <2>4 DEF InclusionRound
  <2>6. B < TwoTo[Width - 1]
    <3>1. \A u, v \in Nat : u >= 1 => v <= u * v
      OBVIOUS
    <3>2. TwoTo[q] \in Nat /\ TwoTo[q] >= 1 /\ a2 \in Nat
      BY Powers
    <3>3. a2 <= z
      BY <2>2, <3>1, <3>2
    <3> HIDE DEF z
    <3> QED
      BY <1>0, <2>1, <2>3, <2>4, <3>2, <3>3
  <2>7. Climbed(A, B, a, b)
    BY <2>6, ClimbedBelow
  <2> QED
    BY <2>1, <2>5, <2>7 DEF Rooted
<1> QED
  BY <1>2, <1>3

\* The audit path of an entry takes verifyInclusion to the root of its subtree, wherever
\* the subtree lies.
ClimbsFrom(leaf, fn, size, list, entry, root, n, p, a, b, j, i) ==
  /\ Placed(n, p, a, b, j) /\ j + TwoTo[p] * b < TwoTo[Width - 1]
  /\ leaf = hashLeaf(entry) /\ fn = i + TwoTo[p] * a /\ size = j + TwoTo[p] * b + 1
  => Rooted(InclusionLoop(leaf, fn, size, list), root, a, b)

\* So for each entry of each subtree of n entries.
InclusionClimbs(D, path, n) ==
  \A lo, p, a, b, j \in Nat : \A i \in 0 .. n - 1 : \A leaf, fn, size :
    ClimbsFrom(leaf, fn, size, path[n][lo][i], D[lo + i], SubtreeHash(D, lo, n), n, p, a, b, j, i)

\* Its paths are lists of hashes.
ListsOfHashes(D, path, n) == \A lo \in Nat : \A i \in 0 .. n - 1 : path[n][lo][i] \in Seq(Hashes(D))

\* The equation, instantiated.
LEMMA AuditUnfolds ==
  ASSUME NEW D, NEW path, AuditPaths(D, path), NEW n \in Nat, NEW lo \in Nat, NEW i \in 0 .. n - 1
  PROVE  AuditPath(D, path, n, lo, i)
BY DEF AuditPaths

\* One entry: nothing is read.
LEMMA InclusionClimbsOne ==
  ASSUME NEW D, NEW path, AuditPaths(D, path)
  PROVE  InclusionClimbs(D, path, 1) /\ ListsOfHashes(D, path, 1)
<1>1. ASSUME NEW lo \in Nat, NEW i \in 0 .. 1 - 1 PROVE path[1][lo][i] = <<>>
  <2>1. AuditPath(D, path, 1, lo, i)
    BY AuditUnfolds
  <2> QED
    BY <2>1 DEF AuditPath
<1>2. ListsOfHashes(D, path, 1)
  <2>1. <<>> \in Seq(Hashes(D))
    OBVIOUS
  <2> QED
    BY <1>1, <2>1 DEF ListsOfHashes
<1>3. ASSUME NEW lo \in Nat, NEW p \in Nat, NEW a \in Nat, NEW b \in Nat, NEW j \in Nat,
             NEW i \in 0 .. 1 - 1, NEW leaf, NEW fn, NEW size,
             Placed(1, p, a, b, j), j + TwoTo[p] * b < TwoTo[Width - 1],
             leaf = hashLeaf(D[lo + i]), fn = i + TwoTo[p] * a, size = j + TwoTo[p] * b + 1
      PROVE  Rooted(InclusionLoop(leaf, fn, size, path[1][lo][i]), SubtreeHash(D, lo, 1), a, b)
  <2> DEFINE s == InclusionLoop(leaf, fn, size, path[1][lo][i])
             sn == j + TwoTo[p] * b
  <2>1. i = 0 /\ path[1][lo][i] = <<>> /\ lo + i = lo
    BY <1>1
  <2>2. s = [fn |-> fn, sn |-> size - 1, r |-> leaf, ok |-> TRUE]
    BY <2>1, InclusionNothing
  <2>3. TwoTo[p] \in Nat /\ TwoTo[p] * a \in Nat /\ TwoTo[p] * b \in Nat
    <3>1. TwoTo[p] \in Nat
      BY Powers
    <3> QED
      BY <3>1
  <2>4. fn = TwoTo[p] * a /\ size - 1 = sn /\ sn \in Nat /\ sn < TwoTo[Width - 1]
    BY <1>3, <2>1, <2>3
  <2>5. Climbed(fn, sn, a, b)
    <3>1. CASE a < b
      <4>1. TwoTo[p] = 1 /\ j = 0
        BY <1>3, <2>3, <3>1 DEF Placed
      <4>2. fn = a /\ sn = b
        BY <2>4, <4>1
      <4> QED
        BY <2>4, <3>1, <4>2 DEF Climbed
    <3>2. CASE a = b
      <4>1. j = 0
        BY <1>3, <3>2 DEF Placed
      <4>2. sn = fn
        BY <2>3, <2>4, <3>2, <4>1
      <4> QED
        BY <2>4, <3>2, <4>2 DEF Climbed
    <3> QED
      BY <1>3, <3>1, <3>2 DEF Placed
  <2>6. leaf = SubtreeHash(D, lo, 1)
    BY <1>3, <2>1, SubtreeHashDef
  <2> HIDE DEF s, sn
  <2>7. s.ok = TRUE /\ s.r = leaf /\ s.fn = fn /\ s.sn = sn
    BY <2>2, <2>4
  <2>8. Rooted(s, SubtreeHash(D, lo, 1), a, b)
    BY <2>5, <2>6, <2>7 DEF Rooted
  <2> QED
    BY <2>8 DEF s
<1>4. ASSUME NEW lo \in Nat, NEW p \in Nat, NEW a \in Nat, NEW b \in Nat, NEW j \in Nat,
             NEW i \in 0 .. 1 - 1, NEW leaf, NEW fn, NEW size
      PROVE  ClimbsFrom(leaf, fn, size, path[1][lo][i], D[lo + i], SubtreeHash(D, lo, 1),
                        1, p, a, b, j, i)
  BY <1>3 DEF ClimbsFrom
<1>5. InclusionClimbs(D, path, 1)
  BY <1>4 DEF InclusionClimbs
<1> QED
  BY <1>2, <1>5

\* More than one: the path of the part that holds the entry, and the other part's hash.
LEMMA InclusionClimbsMore ==
  ASSUME NEW D, NEW path, AuditPaths(D, path), NEW n \in Nat, n >= 2,
         NEW k, k = largestPowerOfTwoLessThan(n),
         InclusionClimbs(D, path, k), InclusionClimbs(D, path, n - k),
         ListsOfHashes(D, path, k), ListsOfHashes(D, path, n - k)
  PROVE  InclusionClimbs(D, path, n) /\ ListsOfHashes(D, path, n)
<1> DEFINE m == n - k
<1>1. k \in 1 .. n - 1 /\ m \in 1 .. n - 1 /\ n = k + m
  <2>1. k \in 1 .. n - 1
    BY Split
  <2> QED
    BY <2>1
<1>2. ASSUME NEW lo \in Nat, NEW i \in 0 .. n - 1, i < k
      PROVE  /\ i \in 0 .. k - 1 /\ path[k][lo][i] \in Seq(Hashes(D))
             /\ path[n][lo][i] = Append(path[k][lo][i], SubtreeHash(D, lo + k, m))
  <2>1. i \in 0 .. k - 1 /\ n # 1
    BY <1>1, <1>2
  <2>2. path[n][lo][i] = Append(path[k][lo][i], SubtreeHash(D, lo + k, n - k))
    <3>1. AuditPath(D, path, n, lo, i)
      BY AuditUnfolds
    <3> QED
      BY <1>2, <2>1, <3>1 DEF AuditPath
  <2>3. path[k][lo][i] \in Seq(Hashes(D))
    BY <2>1 DEF ListsOfHashes
  <2> QED
    BY <2>1, <2>2, <2>3
<1>3. ASSUME NEW lo \in Nat, NEW i \in 0 .. n - 1, ~(i < k), NEW up, up = lo + k, NEW i2, i2 = i - k
      PROVE  /\ i2 \in 0 .. m - 1 /\ up \in Nat /\ path[m][up][i2] \in Seq(Hashes(D))
             /\ path[n][lo][i] = Append(path[m][up][i2], SubtreeHash(D, lo, k))
  <2>1. i2 \in 0 .. m - 1 /\ n # 1 /\ up \in Nat
    BY <1>1, <1>3
  <2>2. path[n][lo][i] = Append(path[n - k][lo + k][i - k], SubtreeHash(D, lo, k))
    <3>1. AuditPath(D, path, n, lo, i)
      BY AuditUnfolds
    <3> QED
      BY <1>3, <2>1, <3>1 DEF AuditPath
  <2>3. path[m][up][i2] \in Seq(Hashes(D))
    BY <2>1 DEF ListsOfHashes
  <2> QED
    BY <1>3, <2>1, <2>2, <2>3
<1> HIDE DEF m
<1>4. ASSUME NEW lo \in Nat
      PROVE  /\ SubtreeHash(D, lo + k, m) \in Hashes(D) /\ SubtreeHash(D, lo, k) \in Hashes(D)
             /\ SubtreeHash(D, lo, n) = hashChildren(SubtreeHash(D, lo, k), SubtreeHash(D, lo + k, m))
  <2>1. lo + k \in Nat /\ m \in Nat /\ k \in Nat
    BY <1>1
  <2>2. SubtreeHash(D, lo + k, m) \in Hashes(D) /\ SubtreeHash(D, lo, k) \in Hashes(D)
    BY <2>1, SubtreeHashes
  <2>3. SubtreeHash(D, lo, n) = hashChildren(SubtreeHash(D, lo, k), SubtreeHash(D, lo + k, m))
    BY SubtreeHashDef DEF m
  <2> QED
    BY <2>2, <2>3
<1>5. ASSUME NEW lo \in Nat, NEW i \in 0 .. n - 1 PROVE path[n][lo][i] \in Seq(Hashes(D))
  <2>1. CASE i < k
    <3>1. path[k][lo][i] \in Seq(Hashes(D)) /\ path[n][lo][i] = Append(path[k][lo][i], SubtreeHash(D, lo + k, m))
      BY <1>2, <2>1
    <3> QED
      BY <1>4, <3>1, AppendProperties
  <2>2. CASE ~(i < k)
    <3> DEFINE up == lo + k
               i2 == i - k
    <3>1. up = lo + k /\ i2 = i - k
      OBVIOUS
    <3> HIDE DEF up, i2
    <3>2. path[m][up][i2] \in Seq(Hashes(D)) /\ path[n][lo][i] = Append(path[m][up][i2], SubtreeHash(D, lo, k))
      BY <1>3, <2>2, <3>1
    <3> QED
      BY <1>4, <3>2, AppendProperties
  <2> QED
    BY <2>1, <2>2
<1>6. ASSUME NEW lo \in Nat, NEW p \in Nat, NEW a \in Nat, NEW b \in Nat, NEW j \in Nat,
             NEW i \in 0 .. n - 1, NEW leaf, NEW fn, NEW size,
             Placed(n, p, a, b, j), j + TwoTo[p] * b < TwoTo[Width - 1],
             leaf = hashLeaf(D[lo + i]), fn = i + TwoTo[p] * a, size = j + TwoTo[p] * b + 1
      PROVE  Rooted(InclusionLoop(leaf, fn, size, path[n][lo][i]), SubtreeHash(D, lo, n), a, b)
  <2>1. PICK e, A, B, a1, a2, b2, j2 \in Nat :
          /\ k = TwoTo[e] /\ k < n /\ n <= 2 * k
          /\ a1 = 2 * A /\ a2 = 1 + 2 * A /\ (b2 = 2 * B \/ b2 = 1 + 2 * B)
          /\ j + TwoTo[p] * b = j2 + TwoTo[e] * b2
          /\ TwoTo[p] * a = TwoTo[e] * a1 /\ k + TwoTo[e] * a1 = TwoTo[e] * a2
          /\ TwoTo[e] * a1 \in Nat /\ TwoTo[e] * a2 \in Nat
          /\ a1 < b2 /\ Placed(k, e, a1, b2, j2)
          /\ a2 <= b2 /\ Placed(m, e, a2, b2, j2)
          /\ Below(A, B, a, b)
    <3>1. Parts(n, k, p, a, b, j)
      BY <1>6, Descend
    <3> QED
      BY <3>1 DEF Parts, m
  <2>0. ~(i < k) =>
          \E up, i2 : /\ up = lo + k /\ i2 = i - k
                      /\ i2 \in 0 .. m - 1 /\ up \in Nat /\ path[m][up][i2] \in Seq(Hashes(D))
                      /\ path[n][lo][i] = Append(path[m][up][i2], SubtreeHash(D, lo, k))
    BY <1>3
  <2> DEFINE left == SubtreeHash(D, lo, k)
             right == SubtreeHash(D, lo + k, m)
  <2>2. /\ j2 + TwoTo[e] * b2 < TwoTo[Width - 1] /\ size = j2 + TwoTo[e] * b2 + 1
        /\ fn = i + TwoTo[e] * a1
    BY <1>6, <2>1
  <2>3. CASE i < k
    <3> DEFINE q == path[k][lo][i]
               s == InclusionLoop(leaf, fn, size, q)
    <3>1. i \in 0 .. k - 1 /\ q \in Seq(Hashes(D)) /\ path[n][lo][i] = Append(q, right)
      BY <1>2, <2>3
    <3>2. Rooted(s, left, a1, b2)
      <4>1. ClimbsFrom(leaf, fn, size, q, D[lo + i], left, k, e, a1, b2, j2, i)
        BY <3>1 DEF InclusionClimbs
      <4> QED
        BY <1>6, <2>1, <2>2, <4>1 DEF ClimbsFrom
    <3>3. right \in Hashes(D) /\ SubtreeHash(D, lo, n) = hashChildren(left, right)
      BY <1>4
    <3> HIDE DEF q, left, right
    <3>4. InclusionLoop(leaf, fn, size, path[n][lo][i]) = InclusionRound(s, right)
      BY <3>1, <3>3, InclusionAppend
    <3> HIDE DEF s
    <3>5. Rooted(InclusionRound(s, right), hashChildren(left, right), a, b)
      BY <2>1, <3>2, InclusionLeft
    <3> QED
      BY <3>3, <3>4, <3>5
  <2>4. CASE ~(i < k)
    <3>0. PICK up, i2 : /\ up = lo + k /\ i2 = i - k
                        /\ i2 \in 0 .. m - 1 /\ up \in Nat /\ path[m][up][i2] \in Seq(Hashes(D))
                        /\ path[n][lo][i] = Append(path[m][up][i2], SubtreeHash(D, lo, k))
      BY <2>0, <2>4
    <3> DEFINE q == path[m][up][i2]
               s == InclusionLoop(leaf, fn, size, q)
    <3>1. /\ i2 \in 0 .. m - 1 /\ up \in Nat /\ q \in Seq(Hashes(D))
          /\ path[n][lo][i] = Append(q, left)
      BY <3>0
    <3>2. fn = i2 + TwoTo[e] * a2
      <4>1. i \in Int /\ k \in Int
        BY <1>1
      <4>3. PICK w, z \in Nat : /\ w = TwoTo[e] * a1 /\ z = TwoTo[e] * a2
                                /\ fn = i + w /\ k + w = z
        BY <2>1, <2>2
      <4>4. i2 = i - k /\ fn = i + w /\ k + w = z
        BY <3>0, <4>3
      <4>5. fn = i2 + z
        BY <4>1, <4>4
      <4> QED
        BY <4>3, <4>5
    <3>3. leaf = hashLeaf(D[up + i2])
      <4>1. k \in Int /\ i \in Int
        BY <1>1
      <4>2. up + i2 = lo + i
        BY <3>0, <4>1
      <4> QED
        BY <1>6, <4>2
    <3>4. right = SubtreeHash(D, up, m)
      BY <3>0
    <3> HIDE DEF right
    <3>5. Rooted(s, right, a2, b2)
      <4>1. ClimbsFrom(leaf, fn, size, q, D[up + i2], right, m, e, a2, b2, j2, i2)
        BY <3>1, <3>4 DEF InclusionClimbs, m
      <4> QED
        BY <2>1, <2>2, <3>2, <3>3, <4>1 DEF ClimbsFrom
    <3>6. left \in Hashes(D) /\ SubtreeHash(D, lo, n) = hashChildren(left, right)
      BY <1>4, <3>0 DEF right
    <3> HIDE DEF q, left
    <3>7. InclusionLoop(leaf, fn, size, path[n][lo][i]) = InclusionRound(s, left)
      BY <3>1, <3>6, InclusionAppend
    <3> HIDE DEF s
    <3>8. Rooted(InclusionRound(s, left), hashChildren(left, right), a, b)
      BY <2>1, <3>5, InclusionRight
    <3> QED
      BY <3>6, <3>7, <3>8
  <2> QED
    BY <2>3, <2>4
<1>7. ListsOfHashes(D, path, n)
  BY <1>5 DEF ListsOfHashes
<1>8. ASSUME NEW lo \in Nat, NEW p \in Nat, NEW a \in Nat, NEW b \in Nat, NEW j \in Nat,
             NEW i \in 0 .. n - 1, NEW leaf, NEW fn, NEW size
      PROVE  ClimbsFrom(leaf, fn, size, path[n][lo][i], D[lo + i], SubtreeHash(D, lo, n),
                        n, p, a, b, j, i)
  BY <1>6 DEF ClimbsFrom
<1>9. InclusionClimbs(D, path, n)
  BY <1>8 DEF InclusionClimbs
<1> QED
  BY <1>7, <1>9

\* So for a subtree of any size.
LEMMA InclusionClimb ==
  ASSUME NEW D, NEW path, AuditPaths(D, path), NEW n \in Nat
  PROVE  InclusionClimbs(D, path, n) /\ ListsOfHashes(D, path, n)
<1> DEFINE Good(m) == InclusionClimbs(D, path, m) /\ ListsOfHashes(D, path, m)
           T == {m \in Nat : Good(m)}
<1>1. ASSUME NEW m \in Nat, \A i \in 0 .. m - 1 : i \in T PROVE m \in T
  <2>1. CASE m = 0
    BY <2>1 DEF InclusionClimbs, ListsOfHashes
  <2>2. CASE m = 1
    BY <2>2, InclusionClimbsOne
  <2>3. CASE m >= 2
    <3> DEFINE k == largestPowerOfTwoLessThan(m)
               l == m - k
    <3>1. k \in 0 .. m - 1 /\ l \in 0 .. m - 1
      BY <2>3, Split
    <3> HIDE DEF k, l, Good
    <3>2. Good(k) /\ Good(l)
      BY <1>1, <3>1
    <3>3. Good(m)
      BY <2>3, <3>2, InclusionClimbsMore DEF k, l, Good
    <3> QED
      BY <3>3
  <2> QED
    BY <2>1, <2>2, <2>3
<1>2. T \subseteq Nat
  OBVIOUS
<1> HIDE DEF T
<1>3. T = Nat
  BY <1>1, <1>2, StrongInduction
<1> QED
  BY <1>3 DEF T

\* The audit paths the library produces are lists of hashes of the tree.
LEMMA InclusionProofType ==
  ASSUME NEW D, Len(D) \in Nat, NEW m \in 0 .. Len(D) - 1
  PROVE  inclusionProof(m, D) \in Seq(Hashes(D))
<1>1. PICK path : /\ AuditPaths(D, path)
                  /\ \A i : inclusionProof(i, D) = path[Len(D)][1][i]
  BY InclusionProofDef
<1>2. ListsOfHashes(D, path, Len(D))
  BY <1>1, InclusionClimb
<1> QED
  BY <1>1, <1>2 DEF ListsOfHashes

\* Every member of a tree within the width verifies, by the audit path that
\* inclusionProof gives for it.
THEOREM MembersVerify ==
  ASSUME NEW D, Len(D) \in Nat, Len(D) <= TwoTo[Width - 1], NEW m \in 0 .. Len(D) - 1
  PROVE  verifyInclusion(hashLeaf(D[m + 1]), m, Len(D), inclusionProof(m, D), merkleTreeHash(D))
<1> DEFINE n == Len(D)
           p == Width - 1
           leaf == hashLeaf(D[m + 1])
<1>1. PICK path : /\ AuditPaths(D, path)
                  /\ \A i : inclusionProof(i, D) = path[n][1][i]
  BY InclusionProofDef
<1>2. p \in Nat /\ TwoTo[p] \in Nat /\ n \in Nat /\ n >= 1 /\ n - 1 \in Nat
  <2>1. p \in Nat
    BY WidthAssumption
  <2>2. TwoTo[p] \in Nat
    BY <2>1, Powers
  <2> QED
    BY <2>1, <2>2
<1>3. Placed(n, p, 0, 0, n - 1) /\ (n - 1) + TwoTo[p] * 0 < TwoTo[Width - 1]
  <2>1. TwoTo[p] * 0 = 0 /\ n \in 1 .. TwoTo[p]
    BY <1>2
  <2> QED
    BY <1>2, <2>1 DEF Placed
<1>4. m = m + TwoTo[p] * 0 /\ n = (n - 1) + TwoTo[p] * 0 + 1 /\ m + 1 = 1 + m
  BY <1>2
<1>5. InclusionClimbs(D, path, n)
  BY <1>1, <1>2, InclusionClimb
<1> DEFINE s == InclusionLoop(leaf, m, n, path[n][1][m])
<1>6. ClimbsFrom(leaf, m, n, path[n][1][m], D[1 + m], SubtreeHash(D, 1, n), n, p, 0, 0, n - 1, m)
  <2> HIDE DEF p, leaf
  <2> QED
    BY <1>2, <1>5 DEF InclusionClimbs
<1>7. Rooted(s, merkleTreeHash(D), 0, 0)
  <2>1. leaf = hashLeaf(D[1 + m]) /\ merkleTreeHash(D) = SubtreeHash(D, 1, n)
    BY <1>4 DEF merkleTreeHash
  <2> HIDE DEF p, leaf
  <2> QED
    BY <1>3, <1>4, <1>6, <2>1 DEF ClimbsFrom
<1>8. s.ok = TRUE /\ s.r = merkleTreeHash(D) /\ s.sn = 0
  <2>1. ASSUME NEW q \in Nat PROVE TwoTo[q] * 0 = 0
    <3>1. TwoTo[q] \in Nat
      BY Powers
    <3> QED
      BY <3>1
  <2> QED
    BY <1>7, <2>1 DEF Rooted, Climbed
<1>9. inclusionProof(m, D) = path[n][1][m] /\ m >= 0 /\ m < n
  BY <1>1, <1>2
<1> QED
  BY <1>8, <1>9 DEF verifyInclusion

-----------------------------------------------------------------------------
\* The equation of the lists of consistencyProof, instantiated.
LEMMA SubUnfolds ==
  ASSUME NEW D, NEW sub, SubProofs(D, sub), NEW n \in Nat, NEW lo \in Nat, NEW i \in 1 .. n
  PROVE  SubProof(D, sub, n, lo, i)
BY DEF SubProofs

\* They are lists of hashes.
SubLists(D, sub, n) == \A lo \in Nat : \A i \in 1 .. n : sub[n][lo][i] \in Seq(Hashes(D))

\* So for a subtree of any size.
LEMMA SubListsOfHashes ==
  ASSUME NEW D, NEW sub, SubProofs(D, sub), NEW n \in Nat
  PROVE  SubLists(D, sub, n)
<1> DEFINE T == {m \in Nat : SubLists(D, sub, m)}
<1>1. ASSUME NEW m \in Nat, \A j \in 0 .. m - 1 : j \in T PROVE m \in T
  <2> SUFFICES ASSUME NEW lo \in Nat, NEW i \in 1 .. m
               PROVE  sub[m][lo][i] \in Seq(Hashes(D))
    BY DEF SubLists
  <2> DEFINE k == largestPowerOfTwoLessThan(m)
  <2>0. SubProof(D, sub, m, lo, i)
    BY SubUnfolds
  <2>1. CASE i = m
    <3>1. sub[m][lo][i] = <<>> \/ sub[m][lo][i] = <<SubtreeHash(D, lo, m)>>
      BY <2>0, <2>1 DEF SubProof
    <3> DEFINE h == SubtreeHash(D, lo, m)
    <3>2. h \in Hashes(D)
      BY SubtreeHashes
    <3> HIDE DEF h
    <3>3. <<h>> \in Seq(Hashes(D)) /\ <<>> \in Seq(Hashes(D))
      BY <3>2
    <3> QED
      BY <3>1, <3>3 DEF h
  <2>2. CASE i # m
    <3>1. k \in 1 .. m - 1 /\ m - k \in 1 .. m - 1
      BY <2>2, Split
    <3>2. sub[m][lo][i] =
            IF i <= k THEN Append(sub[k][lo][i], SubtreeHash(D, lo + k, m - k))
            ELSE Append(sub[m - k][lo + k][i - k], SubtreeHash(D, lo, k))
      BY <2>0, <2>2 DEF SubProof
    <3> HIDE DEF k
    <3>3. /\ SubtreeHash(D, lo + k, m - k) \in Hashes(D)
          /\ SubtreeHash(D, lo, k) \in Hashes(D)
      BY <3>1, SubtreeHashes
    <3>4. CASE i <= k
      <4>1. sub[k][lo][i] \in Seq(Hashes(D))
        BY <1>1, <3>1, <3>4 DEF SubLists
      <4> QED
        BY <3>2, <3>3, <3>4, <4>1
    <3>5. CASE i > k
      <4>1. /\ lo + k \in Nat /\ i - k \in 1 .. m - k
            /\ m - k \in 0 .. m - 1
        BY <3>1, <3>5
      <4>2. sub[m - k][lo + k][i - k] \in Seq(Hashes(D))
        BY <1>1, <4>1 DEF SubLists
      <4> QED
        BY <3>1, <3>2, <3>3, <3>5, <4>2
    <3> QED
      BY <3>1, <3>4, <3>5
  <2> QED
    BY <2>1, <2>2
<1>2. T \subseteq Nat
  OBVIOUS
<1> HIDE DEF T
<1>3. T = Nat
  BY <1>1, <1>2, StrongInduction
<1> QED
  BY <1>3 DEF T

\* The consistency proofs the library produces are lists of hashes of the tree.
LEMMA ConsistencyProofType ==
  ASSUME NEW D, Len(D) \in Nat, NEW m \in 1 .. Len(D)
  PROVE  consistencyProof(m, D) \in Seq(Hashes(D))
<1>1. PICK sub : /\ SubProofs(D, sub)
                 /\ \A i : consistencyProof(i, D) = sub[Len(D)][1][i]
  BY ConsistencyProofDef
<1>2. SubLists(D, sub, Len(D))
  BY <1>1, SubListsOfHashes
<1> QED
  BY <1>1, <1>2 DEF SubLists

\* The list verifyConsistency reads: where the first tree is a whole subtree, its root,
\* which the proof leaves out, comes first.
PathFrom(D, sub, n, lo, i) ==
  IF lo = 1 /\ IsPowerOfTwo(i) THEN <<SubtreeHash(D, lo, i)>> \o sub[n][lo][i] ELSE sub[n][lo][i]

\* It is a list of hashes.
LEMMA PathFromType ==
  ASSUME NEW D, NEW sub, NEW n \in Nat, SubLists(D, sub, n), NEW lo \in Nat, NEW i \in 1 .. n
  PROVE  PathFrom(D, sub, n, lo, i) \in Seq(Hashes(D))
<1> DEFINE h == SubtreeHash(D, lo, i)
<1>1. h \in Hashes(D) /\ sub[n][lo][i] \in Seq(Hashes(D))
  BY SubtreeHashes DEF SubLists
<1> HIDE DEF h
<1>2. <<h>> \o sub[n][lo][i] \in Seq(Hashes(D))
  BY <1>1
<1> QED
  BY <1>1, <1>2 DEF PathFrom, h

\* i = n: the root alone.
LEMMA PathFromWhole ==
  ASSUME NEW D, NEW sub, SubProofs(D, sub), NEW p \in 0 .. Width - 1, NEW lo \in Nat,
         NEW n, n = TwoTo[p]
  PROVE  PathFrom(D, sub, n, lo, n) = <<SubtreeHash(D, lo, n)>>
<1>1. p \in Nat /\ TwoTo[p] \in Nat /\ TwoTo[p] > 0 /\ n \in Nat /\ n \in 1 .. n
  <2>1. p \in Nat
    BY WidthAssumption
  <2>2. TwoTo[p] \in Nat /\ TwoTo[p] > 0
    BY <2>1, Powers
  <2> QED
    BY <2>1, <2>2
<1>2. SubProof(D, sub, n, lo, n)
  BY <1>1, SubUnfolds
<1>3. sub[n][lo][n] = IF lo = 1 THEN <<>> ELSE <<SubtreeHash(D, lo, n)>>
  BY <1>2 DEF SubProof
<1>4. IsPowerOfTwo(n)
  BY DEF IsPowerOfTwo
<1> DEFINE h == SubtreeHash(D, lo, n)
<1>5. <<h>> \o <<>> = <<h>>
  <2> HIDE DEF h
  <2>1. <<h>> \in Seq({h})
    OBVIOUS
  <2> QED
    BY <2>1
<1> QED
  BY <1>3, <1>4, <1>5 DEF PathFrom

\* A list with one more hash at its end.
Longer(new, old, c) == new = Append(old, c)

\* The first i entries end in the left part.
LEMMA PathFromLeft ==
  ASSUME NEW D, NEW sub, SubProofs(D, sub), NEW n \in Nat, n >= 2,
         NEW k, k = largestPowerOfTwoLessThan(n), SubLists(D, sub, k),
         NEW lo \in Nat, NEW i \in 1 .. n, i <= k, NEW c, c = SubtreeHash(D, lo + k, n - k)
  PROVE  Longer(PathFrom(D, sub, n, lo, i), PathFrom(D, sub, k, lo, i), c)
<1>1. k \in 1 .. n - 1
  BY Split
<1>2. i \in 1 .. k /\ i # n
  BY <1>1
<1> DEFINE h == SubtreeHash(D, lo, i)
<1>3. SubProof(D, sub, n, lo, i)
  BY SubUnfolds
<1>4. sub[n][lo][i] = Append(sub[k][lo][i], c)
  BY <1>2, <1>3 DEF SubProof
<1>5. h \in Hashes(D) /\ c \in Hashes(D) /\ sub[k][lo][i] \in Seq(Hashes(D))
  <2>1. lo + k \in Nat /\ n - k \in Nat /\ i \in Nat
    BY <1>1
  <2>2. h \in Hashes(D) /\ c \in Hashes(D)
    BY <2>1, SubtreeHashes
  <2>3. sub[k][lo][i] \in Seq(Hashes(D))
    BY <1>2 DEF SubLists
  <2> QED
    BY <2>2, <2>3
<1> HIDE DEF h
<1>6. <<h>> \o Append(sub[k][lo][i], c) = Append(<<h>> \o sub[k][lo][i], c)
  <2> DEFINE q == sub[k][lo][i]
             S == Hashes(D)
  <2>1. h \in S /\ c \in S /\ q \in Seq(S)
    BY <1>5
  <2> HIDE DEF q, S
  <2>2. <<h>> \o Append(q, c) = Append(<<h>> \o q, c)
    BY <2>1
  <2> QED
    BY <2>2 DEF q
<1> QED
  BY <1>4, <1>6 DEF PathFrom, Longer, h

\* They end in the right part: they are no power of two then.
LEMMA PathFromRight ==
  ASSUME NEW D, NEW sub, SubProofs(D, sub), NEW n \in Nat, n >= 2,
         NEW k, k = largestPowerOfTwoLessThan(n),
         NEW lo \in Nat, lo >= 1, NEW i \in 1 .. n - 1, ~(i <= k),
         NEW l, l = n - k, NEW up, up = lo + k, NEW i2, i2 = i - k
  PROVE  Longer(PathFrom(D, sub, n, lo, i), PathFrom(D, sub, l, up, i2), SubtreeHash(D, lo, k))
<1>1. PICK e \in Nat : k = TwoTo[e] /\ TwoTo[e] < n /\ n <= 2 * TwoTo[e]
  BY SplitPower
<1>2. k \in Nat /\ k >= 1 /\ lo + k # 1 /\ i \in Nat /\ i \in 1 .. n
  <2>1. TwoTo[e] \in Nat /\ TwoTo[e] > 0
    BY Powers
  <2> QED
    BY <1>1, <2>1
<1>3. SubProof(D, sub, n, lo, i)
  BY <1>2, SubUnfolds
<1>4. sub[n][lo][i] = Append(sub[n - k][lo + k][i - k], SubtreeHash(D, lo, k))
  BY <1>3 DEF SubProof
<1>5. ~IsPowerOfTwo(i)
  <2> SUFFICES ASSUME NEW q \in 0 .. Width - 1, i = TwoTo[q] PROVE FALSE
    BY DEF IsPowerOfTwo
  <2>1. q \in Nat
    BY WidthAssumption
  <2>2. TwoTo[q] \in Nat /\ TwoTo[e] \in Nat
    BY <2>1, Powers
  <2>3. TwoTo[e] < TwoTo[q] /\ TwoTo[q] < 2 * TwoTo[e]
    BY <1>1, <1>2, <2>2
  <2>4. CASE e < q
    BY <2>1, <2>2, <2>3, <2>4, PowersOrder
  <2>5. CASE q < e
    BY <2>1, <2>2, <2>3, <2>5, PowersOrder
  <2>6. CASE e = q
    BY <2>2, <2>3, <2>6
  <2> QED
    BY <2>1, <2>4, <2>5, <2>6
<1>6. PathFrom(D, sub, l, up, i2) = sub[l][up][i2]
  BY <1>2 DEF PathFrom
<1>7. PathFrom(D, sub, n, lo, i) = sub[n][lo][i]
  BY <1>5 DEF PathFrom
<1> QED
  BY <1>4, <1>6, <1>7 DEF Longer

\* It is not empty.
LEMMA AppendNotEmpty ==
  ASSUME NEW S, NEW q \in Seq(S), NEW c \in S
  PROVE  Append(q, c) # <<>>
<1>1. Len(Append(q, c)) = Len(q) + 1 /\ Len(q) \in Nat
  BY AppendProperties
<1>2. Len(<<>>) = 0
  OBVIOUS
<1> QED
  BY <1>1, <1>2

\* The hash of two or more entries, by parts.
LEMMA NodeHash ==
  ASSUME NEW D, NEW lo \in Nat, NEW n \in Nat, n >= 2, NEW k, k = largestPowerOfTwoLessThan(n),
         NEW up, up = lo + k, NEW l, l = n - k
  PROVE  SubtreeHash(D, lo, n) = hashChildren(SubtreeHash(D, lo, k), SubtreeHash(D, up, l))
BY SubtreeHashDef

\* verifyConsistency has climbed to a root of hash h, whose first entries' hash is g.
Regrown(s, g, h, a, b) == s.ok = TRUE /\ s.fr = g /\ s.sr = h /\ Climbed(s.fn, s.sn, a, b)

\* A round takes it from the root of the left part to that of the whole: the first root stays.
LEMMA ConsistencyLeft ==
  ASSUME NEW s, NEW g, NEW h, NEW c, NEW A \in Nat, NEW B \in Nat, NEW a \in Nat, NEW b \in Nat,
         NEW a1, a1 = 2 * A, NEW b2, b2 = 2 * B \/ b2 = 1 + 2 * B, a1 < b2,
         Below(A, B, a, b), Regrown(s, g, h, a1, b2)
  PROVE  Regrown(ConsistencyRound(s, c), g, hashChildren(h, c), a, b)
<1>1. /\ s.fn = a1 /\ s.sn = b2 /\ b2 < TwoTo[Width - 1] /\ s.ok = TRUE /\ s.fr = g /\ s.sr = h
  BY DEF Regrown, Climbed
<1>2. LeftMoves(A, B, a1, b2)
  BY <1>1, LeftMove
<1>3. ConsistencyRound(s, c) = [fn |-> A, sn |-> B, ok |-> TRUE, fr |-> g, sr |-> hashChildren(h, c)]
  BY <1>1, <1>2 DEF ConsistencyRound, LeftMoves
<1>4. B < TwoTo[Width - 1]
  <2>1. TwoTo[Width - 1] \in Nat
    BY WidthAssumption, Powers
  <2> QED
    BY <1>1, <2>1
<1>5. Climbed(A, B, a, b)
  BY <1>4, ClimbedBelow
<1> QED
  BY <1>3, <1>5 DEF Regrown

\* From the right part: the hash read is of entries of both trees.
LEMMA ConsistencyRight ==
  ASSUME NEW s, NEW g, NEW h, NEW c, NEW A \in Nat, NEW B \in Nat, NEW a \in Nat, NEW b \in Nat,
         NEW a2, a2 = 1 + 2 * A, NEW b2, b2 = 2 * B \/ b2 = 1 + 2 * B, a2 <= b2,
         Below(A, B, a, b), Regrown(s, g, h, a2, b2)
  PROVE  Regrown(ConsistencyRound(s, c), hashChildren(c, g), hashChildren(c, h), a, b)
<1>0. TwoTo[Width - 1] \in Nat
  BY WidthAssumption, Powers
<1>1. s.ok = TRUE /\ s.fr = g /\ s.sr = h /\ s.sn < TwoTo[Width - 1]
  BY DEF Regrown, Climbed
<1>2. CASE a2 < b2
  <2>1. s.fn = a2 /\ s.sn = b2 /\ b2 < TwoTo[Width - 1]
    BY <1>2 DEF Regrown, Climbed
  <2>2. RightMoves(A, B, a2, b2)
    BY <2>1, RightMove
  <2>3. ConsistencyRound(s, c)
          = [fn |-> A, sn |-> B, ok |-> TRUE, fr |-> hashChildren(c, g), sr |-> hashChildren(c, h)]
    BY <1>1, <2>1, <2>2 DEF ConsistencyRound, RightMoves
  <2>4. B < TwoTo[Width - 1]
    BY <1>0, <2>1
  <2>5. Climbed(A, B, a, b)
    BY <2>4, ClimbedBelow
  <2> QED
    BY <2>3, <2>5 DEF Regrown
<1>3. CASE a2 = b2
  <2>1. A = B
    BY <1>3
  <2> DEFINE z == s.fn
  <2>2. PICK q \in Nat : z = TwoTo[q] * a2 /\ s.sn = z
    BY <1>3 DEF Regrown, Climbed
  <2>3. z = TwoTo[q] * (1 + 2 * A) /\ z < TwoTo[Width - 1]
    BY <1>1, <2>2
  <2>4. z # 0 /\ z \in Nat /\ Shift(IF ~IsOdd(z) THEN ShiftOut(z) ELSE z) = A
    BY <2>3, EdgeMove
  <2>5. ConsistencyRound(s, c)
          = [fn |-> A, sn |-> A, ok |-> TRUE, fr |-> hashChildren(c, g), sr |-> hashChildren(c, h)]
    BY <1>1, <2>2, <2>4 DEF ConsistencyRound
  <2>6. B < TwoTo[Width - 1]
    <3>1. \A u, v \in Nat : u >= 1 => v <= u * v
      OBVIOUS
    <3>2. TwoTo[q] \in Nat /\ TwoTo[q] >= 1 /\ a2 \in Nat
      BY Powers
    <3>3. a2 <= z
      BY <2>2, <3>1, <3>2
    <3> HIDE DEF z
    <3> QED
      BY <1>0, <2>1, <2>3, <2>4, <3>2, <3>3
  <2>7. Climbed(A, B, a, b)
    BY <2>6, ClimbedBelow
  <2> QED
    BY <2>1, <2>5, <2>7 DEF Regrown
<1> QED
  BY <1>2, <1>3

\* The first tree ends at the i-th entry of the subtree: inside it, or it is all of the
\* subtree, which is full then and the left part of a larger one.
EndsIn(n, p, a, b, i) ==
  /\ i \in 1 .. n
  /\ i = n => n = TwoTo[p] /\ a % 2 = 0 /\ a < b

\* The sizes of the two trees, then: the second ends where the subtree, or the part of it
\* that the tree has, lies.
Sizes(m, size, n, p, a, b, j, i) ==
  /\ Placed(n, p, a, b, j) /\ j + TwoTo[p] * b < TwoTo[Width - 1]
  /\ m = i + TwoTo[p] * a /\ m <= size /\ size = j + TwoTo[p] * b + 1

\* So verifyConsistency, from the size of the first tree, climbs to the subtree's root, and to
\* that of the first tree's entries in it.
RegrowsFrom(m, size, list, g, h, n, p, a, b, j, i) ==
  Sizes(m, size, n, p, a, b, j, i) /\ EndsIn(n, p, a, b, i)
  => list # <<>> /\ Regrown(ConsistencyLoop(m, size, list), g, h, a, b)

\* So for each place in each subtree of n entries where the first tree may end.
Regrows(D, sub, n) ==
  \A lo \in Nat \ {0} : \A p, a, b, j \in Nat : \A i \in 1 .. n : \A m, size :
    RegrowsFrom(m, size, PathFrom(D, sub, n, lo, i), SubtreeHash(D, lo, i), SubtreeHash(D, lo, n),
                n, p, a, b, j, i)

\* All of the subtree: the loop starts at its root.
LEMMA RegrowsWhole ==
  ASSUME NEW D, NEW sub, SubProofs(D, sub), NEW n \in Nat, NEW lo \in Nat,
         NEW p \in Nat, NEW a \in Nat, NEW b \in Nat, NEW j \in Nat, NEW m, NEW size,
         Sizes(m, size, n, p, a, b, j, n), EndsIn(n, p, a, b, n)
  PROVE  /\ PathFrom(D, sub, n, lo, n) # <<>>
         /\ Regrown(ConsistencyLoop(m, size, PathFrom(D, sub, n, lo, n)),
                    SubtreeHash(D, lo, n), SubtreeHash(D, lo, n), a, b)
<1>0. /\ Placed(n, p, a, b, j) /\ j + TwoTo[p] * b < TwoTo[Width - 1]
      /\ m = n + TwoTo[p] * a /\ m <= size /\ size = j + TwoTo[p] * b + 1
  BY DEF Sizes
<1>1. n = TwoTo[p] /\ a % 2 = 0 /\ a < b
  BY DEF EndsIn
<1>2. j < TwoTo[p] /\ TwoTo[p] \in Nat
  BY <1>0, <1>1, Powers DEF Placed
<1>3. PICK x, y \in Nat : x = TwoTo[p] * a /\ y = TwoTo[p] * b /\ y >= TwoTo[p] /\ y >= b
  <2>1. \A u, v \in Nat : u * v \in Nat
    OBVIOUS
  <2>2. \A u, v \in Nat : v >= 1 => u * v >= u
    OBVIOUS
  <2>3. \A u, v \in Nat : u >= 1 => u * v >= v
    OBVIOUS
  <2>4. TwoTo[p] >= 1 /\ b >= 1
    BY <1>1, <1>2, Powers
  <2> QED
    BY <1>2, <2>1, <2>2, <2>3, <2>4
<1>4. TwoTo[Width - 1] \in Nat /\ Width - 1 \in Nat
  BY WidthAssumption, Powers
<1>5. j + y < TwoTo[Width - 1] /\ m = n + x /\ size = j + y + 1
  BY <1>0, <1>3
<1>6. p \in 0 .. Width - 1
  <2>1. TwoTo[p] < TwoTo[Width - 1]
    BY <1>2, <1>3, <1>4, <1>5
  <2>2. CASE Width - 1 < p
    BY <1>2, <1>4, <2>1, <2>2, PowersOrder
  <2> QED
    BY <1>4, <2>2
<1>7. PathFrom(D, sub, n, lo, n) = <<SubtreeHash(D, lo, n)>>
  BY <1>1, <1>6, PathFromWhole
<1>8. m - 1 = (TwoTo[p] - 1) + x /\ m - 1 < TwoTo[Width - 1] /\ size - 1 = j + y
  BY <1>0, <1>1, <1>2, <1>4, <1>5
<1>9. ShiftOdd(m - 1, size - 1) = <<a, b>>
  <2>1. TwoTo[p] - 1 + TwoTo[p] * a < TwoTo[Width - 1] /\ j + TwoTo[p] * b < TwoTo[Width - 1]
    BY <1>0, <1>3, <1>8
  <2>2. PICK fn, sn : fn = m - 1 /\ sn = size - 1
    OBVIOUS
  <2>3. fn = TwoTo[p] - 1 + TwoTo[p] * a /\ sn = j + TwoTo[p] * b
    BY <1>3, <1>8, <2>2
  <2>4. fn < TwoTo[Width - 1] /\ sn < TwoTo[Width - 1]
    BY <2>1, <2>3
  <2>5. ShiftOdd(fn, sn) = <<a, b>>
    BY <1>1, <1>2, <2>3, <2>4, ShiftOddIs
  <2> QED
    BY <2>2, <2>5
<1> DEFINE h == SubtreeHash(D, lo, n)
<1>10. ConsistencyLoop(m, size, <<h>>) = [fn |-> a, sn |-> b, ok |-> TRUE, fr |-> h, sr |-> h]
  BY <1>9, ConsistencyFirst
<1>11. b < TwoTo[Width - 1]
  BY <1>3, <1>4, <1>5
<1>12. Climbed(a, b, a, b)
  BY <1>1, <1>11 DEF Climbed
<1> HIDE DEF h
<1>13. Regrown(ConsistencyLoop(m, size, <<h>>), h, h, a, b)
  BY <1>10, <1>12 DEF Regrown
<1> QED
  BY <1>7, <1>13 DEF h

\* Part of the subtree, ending in its left part.
LEMMA RegrowsLeft ==
  ASSUME NEW D, NEW sub, SubProofs(D, sub), NEW n \in Nat, n >= 2,
         NEW k, k = largestPowerOfTwoLessThan(n), Regrows(D, sub, k),
         NEW lo \in Nat \ {0}, NEW p \in Nat, NEW a \in Nat, NEW b \in Nat, NEW j \in Nat,
         NEW i \in 1 .. n, i <= k, NEW m, NEW size,
         Sizes(m, size, n, p, a, b, j, i)
  PROVE  /\ PathFrom(D, sub, n, lo, i) # <<>>
         /\ Regrown(ConsistencyLoop(m, size, PathFrom(D, sub, n, lo, i)),
                    SubtreeHash(D, lo, i), SubtreeHash(D, lo, n), a, b)
<1> DEFINE left == SubtreeHash(D, lo, k)
           right == SubtreeHash(D, lo + k, n - k)
           g == SubtreeHash(D, lo, i)
           list == PathFrom(D, sub, k, lo, i)
<1>1. /\ k \in Nat /\ k \in 1 .. n - 1 /\ i \in 1 .. k /\ lo \in Nat
      /\ lo + k \in Nat /\ n - k \in Nat
  <2>1. k \in 1 .. n - 1
    BY Split
  <2> QED
    BY <2>1
<1>2. PICK e, A, B, a1, a2, b2, j2 \in Nat :
        /\ k = TwoTo[e] /\ k < n /\ n <= 2 * k
        /\ a1 = 2 * A /\ a2 = 1 + 2 * A /\ (b2 = 2 * B \/ b2 = 1 + 2 * B)
        /\ j + TwoTo[p] * b = j2 + TwoTo[e] * b2
        /\ TwoTo[p] * a = TwoTo[e] * a1 /\ k + TwoTo[e] * a1 = TwoTo[e] * a2
        /\ TwoTo[e] * a1 \in Nat /\ TwoTo[e] * a2 \in Nat
        /\ a1 < b2 /\ Placed(k, e, a1, b2, j2)
        /\ a2 <= b2 /\ Placed(n - k, e, a2, b2, j2)
        /\ Below(A, B, a, b)
  <2>1. Parts(n, k, p, a, b, j)
    BY Descend DEF Sizes
  <2> QED
    BY <2>1 DEF Parts
<1>3. SubtreeHash(D, lo, n) = hashChildren(left, right)
  BY NodeHash
<1>4. right \in Hashes(D) /\ list \in Seq(Hashes(D))
  <2>1. SubLists(D, sub, k)
    BY <1>1, SubListsOfHashes
  <2> QED
    BY <1>1, <2>1, SubtreeHashes, PathFromType
<1>5. PathFrom(D, sub, n, lo, i) = Append(list, right)
  <2>1. SubLists(D, sub, k)
    BY <1>1, SubListsOfHashes
  <2>2. PICK c : c = SubtreeHash(D, lo + k, n - k)
    OBVIOUS
  <2>3. Longer(PathFrom(D, sub, n, lo, i), PathFrom(D, sub, k, lo, i), c)
    BY <1>1, <2>1, <2>2, PathFromLeft
  <2> QED
    BY <2>2, <2>3 DEF Longer
<1>6. RegrowsFrom(m, size, list, g, left, k, e, a1, b2, j2, i)
  BY <1>1, <1>2 DEF Regrows
<1>7. EndsIn(k, e, a1, b2, i)
  <2>1. a1 % 2 = 0
    BY <1>2
  <2> QED
    BY <1>1, <1>2, <2>1 DEF EndsIn
<1> HIDE DEF left, right, g, list
<1>8. Sizes(m, size, k, e, a1, b2, j2, i)
  BY <1>2 DEF Sizes
<1> DEFINE s == ConsistencyLoop(m, size, list)
<1>9. list # <<>> /\ Regrown(s, g, left, a1, b2)
  BY <1>6, <1>7, <1>8 DEF RegrowsFrom
<1>10. ConsistencyLoop(m, size, PathFrom(D, sub, n, lo, i)) = ConsistencyRound(s, right)
  BY <1>4, <1>5, <1>9, ConsistencyAppend
<1> HIDE DEF s
<1>11. Regrown(ConsistencyRound(s, right), g, hashChildren(left, right), a, b)
  BY <1>2, <1>9, ConsistencyLeft
<1>12. Append(list, right) # <<>>
  BY <1>4, AppendNotEmpty
<1> QED
  BY <1>3, <1>5, <1>10, <1>11, <1>12 DEF g

\* Part of it, ending in its right part.
LEMMA RegrowsRight ==
  ASSUME NEW D, NEW sub, SubProofs(D, sub), NEW n \in Nat, n >= 2,
         NEW k, k = largestPowerOfTwoLessThan(n), Regrows(D, sub, n - k),
         NEW lo \in Nat \ {0}, NEW p \in Nat, NEW a \in Nat, NEW b \in Nat, NEW j \in Nat,
         NEW i \in 1 .. n - 1, ~(i <= k), NEW m, NEW size,
         Sizes(m, size, n, p, a, b, j, i)
  PROVE  /\ PathFrom(D, sub, n, lo, i) # <<>>
         /\ Regrown(ConsistencyLoop(m, size, PathFrom(D, sub, n, lo, i)),
                    SubtreeHash(D, lo, i), SubtreeHash(D, lo, n), a, b)
<1>0. PICK up, i2, l : up = lo + k /\ i2 = i - k /\ l = n - k
  OBVIOUS
<1>1. /\ k \in Nat /\ k \in 1 .. n - 1 /\ i2 \in 1 .. l /\ i2 # l /\ lo \in Nat /\ lo >= 1
      /\ up \in Nat \ {0} /\ l \in Nat /\ i \in Nat /\ i2 \in Nat /\ i >= 2
  <2>1. k \in 1 .. n - 1
    BY Split
  <2> QED
    BY <1>0, <2>1
<1> DEFINE left == SubtreeHash(D, lo, k)
           right == SubtreeHash(D, up, l)
           g == SubtreeHash(D, up, i2)
           list == PathFrom(D, sub, l, up, i2)
<1>2. PICK e, A, B, a1, a2, b2, j2 \in Nat :
        /\ k = TwoTo[e] /\ k < n /\ n <= 2 * k
        /\ a1 = 2 * A /\ a2 = 1 + 2 * A /\ (b2 = 2 * B \/ b2 = 1 + 2 * B)
        /\ j + TwoTo[p] * b = j2 + TwoTo[e] * b2
        /\ TwoTo[p] * a = TwoTo[e] * a1 /\ k + TwoTo[e] * a1 = TwoTo[e] * a2
        /\ TwoTo[e] * a1 \in Nat /\ TwoTo[e] * a2 \in Nat
        /\ a1 < b2 /\ Placed(k, e, a1, b2, j2)
        /\ a2 <= b2 /\ Placed(n - k, e, a2, b2, j2)
        /\ Below(A, B, a, b)
  <2>1. Parts(n, k, p, a, b, j)
    BY Descend DEF Sizes
  <2> QED
    BY <2>1 DEF Parts
<1>3. SubtreeHash(D, lo, n) = hashChildren(left, right)
  BY <1>0, <1>1, NodeHash
<1>4. SubtreeHash(D, lo, i) = hashChildren(left, g)
  <2>1. largestPowerOfTwoLessThan(i) = k
    <3>1. TwoTo[e] < i /\ i <= 2 * TwoTo[e]
      BY <1>1, <1>2
    <3> QED
      BY <1>1, <1>2, <3>1, SplitIs
  <2>2. i # 0 /\ i # 1
    BY <1>1
  <2> QED
    BY <1>0, <1>1, <2>1, <2>2, NodeHash
<1>5. left \in Hashes(D) /\ list \in Seq(Hashes(D))
  <2>1. SubLists(D, sub, l)
    BY <1>1, SubListsOfHashes
  <2> QED
    BY <1>1, <2>1, SubtreeHashes, PathFromType
<1>6. PathFrom(D, sub, n, lo, i) = Append(list, left)
  <2>1. Longer(PathFrom(D, sub, n, lo, i), PathFrom(D, sub, l, up, i2), SubtreeHash(D, lo, k))
    BY <1>0, <1>1, PathFromRight
  <2> QED
    BY <2>1 DEF Longer
<1>7. RegrowsFrom(m, size, list, g, right, l, e, a2, b2, j2, i2)
  <2>1. Regrows(D, sub, l)
    BY <1>0
  <2> QED
    BY <1>1, <1>2, <2>1 DEF Regrows
<1>8. EndsIn(l, e, a2, b2, i2)
  BY <1>1 DEF EndsIn
<1> HIDE DEF left, right, g, list
<1>9. /\ j2 + TwoTo[e] * b2 < TwoTo[Width - 1] /\ size = j2 + TwoTo[e] * b2 + 1
      /\ m = i + TwoTo[e] * a1 /\ m <= size
  BY <1>2 DEF Sizes
<1>10. m = i2 + TwoTo[e] * a2
  <2>1. i \in Int /\ k \in Int
    BY <1>1
  <2>2. PICK w, z \in Nat : w = TwoTo[e] * a1 /\ z = TwoTo[e] * a2 /\ m = i + w /\ k + w = z
    BY <1>2, <1>9
  <2>3. i2 = i - k /\ m = i + w /\ k + w = z
    BY <1>0, <2>2
  <2>4. m = i2 + z
    BY <2>1, <2>3
  <2> QED
    BY <2>2, <2>4
<1> DEFINE s == ConsistencyLoop(m, size, list)
<1>11. list # <<>> /\ Regrown(s, g, right, a2, b2)
  <2>1. Placed(l, e, a2, b2, j2)
    BY <1>0, <1>2
  <2>2. Sizes(m, size, l, e, a2, b2, j2, i2)
    BY <1>9, <1>10, <2>1 DEF Sizes
  <2> QED
    BY <1>7, <1>8, <2>2 DEF RegrowsFrom
<1>12. ConsistencyLoop(m, size, PathFrom(D, sub, n, lo, i)) = ConsistencyRound(s, left)
  BY <1>5, <1>6, <1>11, ConsistencyAppend
<1> HIDE DEF s
<1>13. Regrown(ConsistencyRound(s, left), hashChildren(left, g), hashChildren(left, right), a, b)
  BY <1>2, <1>11, ConsistencyRight
<1>14. Append(list, left) # <<>>
  BY <1>5, AppendNotEmpty
<1> QED
  BY <1>3, <1>4, <1>6, <1>12, <1>13, <1>14

\* So for a subtree of any size.
LEMMA Regrow ==
  ASSUME NEW D, NEW sub, SubProofs(D, sub), NEW n \in Nat
  PROVE  Regrows(D, sub, n)
<1> DEFINE T == {l \in Nat : Regrows(D, sub, l)}
<1>1. ASSUME NEW l \in Nat, \A h \in 0 .. l - 1 : h \in T PROVE l \in T
  <2> DEFINE k == largestPowerOfTwoLessThan(l)
  <2>0. l >= 2 => Regrows(D, sub, k) /\ Regrows(D, sub, l - k)
    <3> SUFFICES ASSUME l >= 2 PROVE Regrows(D, sub, k) /\ Regrows(D, sub, l - k)
      OBVIOUS
    <3>1. k \in 0 .. l - 1 /\ l - k \in 0 .. l - 1
      BY Split
    <3> HIDE DEF k
    <3>2. k \in T /\ l - k \in T
      BY <1>1, <3>1
    <3> QED
      BY <3>2
  <2>1. ASSUME NEW lo \in Nat \ {0}, NEW p \in Nat, NEW a \in Nat, NEW b \in Nat, NEW j \in Nat,
               NEW i \in 1 .. l, NEW m, NEW size
        PROVE  RegrowsFrom(m, size, PathFrom(D, sub, l, lo, i), SubtreeHash(D, lo, i),
                           SubtreeHash(D, lo, l), l, p, a, b, j, i)
    <3> SUFFICES ASSUME Sizes(m, size, l, p, a, b, j, i), EndsIn(l, p, a, b, i)
                 PROVE  /\ PathFrom(D, sub, l, lo, i) # <<>>
                        /\ Regrown(ConsistencyLoop(m, size, PathFrom(D, sub, l, lo, i)),
                                   SubtreeHash(D, lo, i), SubtreeHash(D, lo, l), a, b)
      BY DEF RegrowsFrom
    <3> HIDE DEF k, T
    <3>1. CASE i = l
      <4>1. EndsIn(l, p, a, b, l) /\ Sizes(m, size, l, p, a, b, j, l)
        BY <3>1
      <4>2. /\ PathFrom(D, sub, l, lo, l) # <<>>
            /\ Regrown(ConsistencyLoop(m, size, PathFrom(D, sub, l, lo, l)),
                       SubtreeHash(D, lo, l), SubtreeHash(D, lo, l), a, b)
        BY <4>1, RegrowsWhole
      <4> QED
        BY <3>1, <4>2
    <3>2. CASE i # l /\ i <= k
      <4>1. l >= 2
        BY <3>2
      <4> QED
        BY <2>0, <3>2, <4>1, RegrowsLeft DEF k
    <3>3. CASE i # l /\ ~(i <= k)
      <4>1. l >= 2 /\ i \in 1 .. l - 1
        BY <3>3
      <4> QED
        BY <2>0, <3>3, <4>1, RegrowsRight DEF k
    <3> QED
      BY <3>1, <3>2, <3>3
  <2>2. Regrows(D, sub, l)
    BY <2>1 DEF Regrows
  <2> QED
    BY <2>2
<1>2. T \subseteq Nat
  OBVIOUS
<1> HIDE DEF T
<1>3. T = Nat
  BY <1>1, <1>2, StrongInduction
<1> QED
  BY <1>3 DEF T

-----------------------------------------------------------------------------
\* A walk: the states of verifyInclusion's loop over the hashes p[1], ..., p[L], to the end.
Walk(f, p, L) ==
  /\ \A i \in 1 .. L : f[i] = InclusionRound(f[i - 1], p[i])
  /\ f[L].ok /\ f[L].sn = 0

\* The index and the last index a round goes on with do not depend on the hashes, nor
\* does the side on which it takes a hash.
SameMove(s, c, t, d) ==
  LET after == InclusionRound(s, c)
      other == InclusionRound(t, d)
  IN  /\ after.fn = other.fn /\ after.sn = other.sn
      /\ after.r = other.r => s.r = t.r /\ c = d

\* Two rounds at one index and last index, when they go well.
LEMMA RoundsMove ==
  ASSUME NEW s, NEW t, NEW c, NEW d, s.fn = t.fn, s.sn = t.sn,
         InclusionRound(s, c).ok, InclusionRound(t, d).ok
  PROVE  SameMove(s, c, t, d)
<1>1. s.sn # 0 /\ s.ok /\ t.ok
  BY DEF InclusionRound
<1> DEFINE onEdge == IsOdd(s.fn) \/ s.fn = s.sn
           out(x) == Shift(IF onEdge /\ ~IsOdd(s.fn) THEN ShiftOut(x) ELSE x)
           fn == out(s.fn)
           sn == out(s.sn)
<1>2. /\ InclusionRound(s, c) = [fn |-> fn, sn |-> sn, ok |-> TRUE,
                                 r |-> IF onEdge THEN hashChildren(c, s.r) ELSE hashChildren(s.r, c)]
      /\ InclusionRound(t, d) = [fn |-> fn, sn |-> sn, ok |-> TRUE,
                                 r |-> IF onEdge THEN hashChildren(d, t.r) ELSE hashChildren(t.r, d)]
  BY <1>1 DEF InclusionRound
<1> HIDE DEF onEdge, fn, sn
<1>3. CASE onEdge
  <2>1. hashChildren(c, s.r) = hashChildren(d, t.r) => c = d /\ s.r = t.r
    BY NodeNamesChildren
  <2> QED
    BY <1>2, <1>3, <2>1 DEF SameMove
<1>4. CASE ~onEdge
  <2>1. hashChildren(s.r, c) = hashChildren(t.r, d) => c = d /\ s.r = t.r
    BY NodeNamesChildren
  <2> QED
    BY <1>2, <1>4, <2>1 DEF SameMove
<1> QED
  BY <1>3, <1>4

\* A round that ends well began well.
LEMMA RoundsBack ==
  ASSUME NEW s, NEW c, InclusionRound(s, c).ok
  PROVE  s.ok /\ s.sn # 0
BY DEF InclusionRound

\* Each round of a walk goes well, and the last index is zero at its end only.
LEMMA WalksWell ==
  ASSUME NEW L \in Nat, NEW f, NEW p, Walk(f, p, L), NEW i \in 0 .. L
  PROVE  f[i].ok /\ (i < L => f[i].sn # 0)
<1> DEFINE Well(x) == f[x].ok /\ (x < L => f[x].sn # 0)
           T == {j \in Nat : j <= L => Well(L - j)}
<1>1. ASSUME NEW j \in Nat, \A h \in 0 .. j - 1 : h \in T PROVE j \in T
  <2>1. CASE j = 0
    BY <2>1 DEF Walk
  <2>2. CASE j # 0 /\ j <= L
    <3>1. f[L - (j - 1)].ok
      <4>1. j - 1 \in 0 .. j - 1 /\ j - 1 <= L
        BY <2>2
      <4> QED
        BY <1>1, <4>1
    <3>2. L - (j - 1) \in 1 .. L /\ L - (j - 1) - 1 = L - j
      BY <2>2
    <3>3. f[L - (j - 1)] = InclusionRound(f[L - j], p[L - (j - 1)])
      BY <3>2 DEF Walk
    <3>4. f[L - j].ok /\ f[L - j].sn # 0
      BY <3>1, <3>3, RoundsBack
    <3> QED
      BY <3>4
  <2> QED
    BY <2>1, <2>2
<1>2. T \subseteq Nat
  OBVIOUS
<1> HIDE DEF T
<1>3. T = Nat
  BY <1>1, <1>2, StrongInduction
<1>4. L - i \in T /\ L - i <= L /\ L - (L - i) = i
  BY <1>3
<1> QED
  BY <1>4 DEF T

\* Two walks from one index and last index are of one length, and if they end at one
\* hash they began at one and read the same hashes.
LEMMA SameSteps ==
  ASSUME NEW L \in Nat, NEW M \in Nat, NEW f, NEW g, NEW p, NEW q,
         Walk(f, p, L), Walk(g, q, M), f[0].fn = g[0].fn, f[0].sn = g[0].sn,
         NEW i \in Nat, i <= L, i <= M
  PROVE  f[i].fn = g[i].fn /\ f[i].sn = g[i].sn
<1> DEFINE Same(x) == f[x].fn = g[x].fn /\ f[x].sn = g[x].sn
           T == {x \in Nat : x <= L /\ x <= M => Same(x)}
<1>1. ASSUME NEW x \in Nat, \A h \in 0 .. x - 1 : h \in T PROVE x \in T
  <2>1. CASE x = 0
    BY <2>1
  <2>2. CASE x # 0 /\ x <= L /\ x <= M
    <3>1. Same(x - 1)
      <4>1. x - 1 \in 0 .. x - 1 /\ x - 1 <= L /\ x - 1 <= M
        BY <2>2
      <4> QED
        BY <1>1, <4>1
    <3>2. x \in 1 .. L /\ x \in 1 .. M /\ x \in 0 .. L /\ x \in 0 .. M
      BY <2>2
    <3>3. f[x] = InclusionRound(f[x - 1], p[x]) /\ g[x] = InclusionRound(g[x - 1], q[x])
      BY <3>2 DEF Walk
    <3>4. f[x].ok /\ g[x].ok
      BY <3>2, WalksWell
    <3>5. SameMove(f[x - 1], p[x], g[x - 1], q[x])
      BY <3>1, <3>3, <3>4, RoundsMove
    <3> QED
      BY <3>3, <3>5 DEF SameMove
  <2> QED
    BY <2>1, <2>2
<1>2. T \subseteq Nat
  OBVIOUS
<1> HIDE DEF T
<1>3. T = Nat
  BY <1>1, <1>2, StrongInduction
<1> QED
  BY <1>3 DEF T

\* Two walks of one length that began at one hash and read the same hashes.
SameHashes(f, p, L, g, q, M) == L = M /\ f[0].r = g[0].r /\ \A i \in 1 .. L : p[i] = q[i]

\* If they end at one hash they are so.
LEMMA SameWalk ==
  ASSUME NEW L \in Nat, NEW M \in Nat, NEW f, NEW g, NEW p, NEW q,
         Walk(f, p, L), Walk(g, q, M), f[0].fn = g[0].fn, f[0].sn = g[0].sn,
         f[L].r = g[M].r
  PROVE  SameHashes(f, p, L, g, q, M)
<1>1. L = M
  <2>1. CASE L < M
    <3>1. f[L].sn = g[L].sn
      BY <2>1, SameSteps
    <3>2. f[L].sn = 0
      BY DEF Walk
    <3>3. L \in 0 .. M
      BY <2>1
    <3>4. g[L].sn # 0
      BY <2>1, <3>3, WalksWell
    <3> QED
      BY <3>1, <3>2, <3>4
  <2>2. CASE M < L
    <3>1. f[M].sn = g[M].sn
      BY <2>2, SameSteps
    <3>2. g[M].sn = 0
      BY DEF Walk
    <3>3. M \in 0 .. L
      BY <2>2
    <3>4. f[M].sn # 0
      BY <2>2, <3>3, WalksWell
    <3> QED
      BY <3>1, <3>2, <3>4
  <2> QED
    BY <2>1, <2>2
<1>2. ASSUME NEW i \in 1 .. L, f[i].r = g[i].r
      PROVE  f[i - 1].r = g[i - 1].r /\ p[i] = q[i]
  <2>1. i \in 1 .. M /\ i \in 0 .. L /\ i \in 0 .. M /\ i - 1 \in Nat /\ i - 1 <= L /\ i - 1 <= M
    BY <1>1
  <2>2. f[i] = InclusionRound(f[i - 1], p[i]) /\ g[i] = InclusionRound(g[i - 1], q[i])
    BY <2>1 DEF Walk
  <2>3. f[i].ok /\ g[i].ok
    BY <2>1, WalksWell
  <2>4. f[i - 1].fn = g[i - 1].fn /\ f[i - 1].sn = g[i - 1].sn
    BY <2>1, SameSteps
  <2>5. SameMove(f[i - 1], p[i], g[i - 1], q[i])
    BY <2>2, <2>3, <2>4, RoundsMove
  <2> QED
    BY <1>2, <2>2, <2>5 DEF SameMove
<1> DEFINE T == {j \in Nat : j <= L => f[L - j].r = g[L - j].r}
<1>3. ASSUME NEW j \in Nat, \A h \in 0 .. j - 1 : h \in T PROVE j \in T
  <2>1. CASE j = 0
    BY <1>1, <2>1
  <2>2. CASE j # 0 /\ j <= L
    <3>1. f[L - (j - 1)].r = g[L - (j - 1)].r
      <4>1. j - 1 \in 0 .. j - 1 /\ j - 1 <= L
        BY <2>2
      <4> QED
        BY <1>3, <4>1
    <3>2. L - (j - 1) \in 1 .. L /\ L - (j - 1) - 1 = L - j
      BY <2>2
    <3>3. f[L - j].r = g[L - j].r
      BY <1>2, <3>1, <3>2
    <3> QED
      BY <3>3
  <2> QED
    BY <2>1, <2>2
<1>4. T \subseteq Nat
  OBVIOUS
<1> HIDE DEF T
<1>5. T = Nat
  BY <1>3, <1>4, StrongInduction
<1>6. ASSUME NEW i \in 0 .. L PROVE f[i].r = g[i].r
  <2>1. L - i \in T /\ L - i <= L /\ L - (L - i) = i
    BY <1>5
  <2> QED
    BY <2>1 DEF T
<1>7. f[0].r = g[0].r
  BY <1>6
<1>8. ASSUME NEW i \in 1 .. L PROVE p[i] = q[i]
  <2>1. i \in 0 .. L
    OBVIOUS
  <2>2. f[i].r = g[i].r
    BY <1>6, <2>1
  <2> QED
    BY <1>2, <2>2
<1> QED
  BY <1>1, <1>7, <1>8 DEF SameHashes

\* Exactness of verifyInclusion, at the tree's own size: it accepts an entry at an index
\* with a list of hashes exactly when the entry is there and the list is the one that
\* inclusionProof gives.
THEOREM AuditPathDecides ==
  ASSUME NEW D, Len(D) \in Nat, Len(D) <= TwoTo[Width - 1], NEW m \in 0 .. Len(D) - 1,
         NEW entry, NEW S, NEW proof \in Seq(S)
  PROVE  verifyInclusion(hashLeaf(entry), m, Len(D), proof, merkleTreeHash(D))
           <=> D[m + 1] = entry /\ proof = inclusionProof(m, D)
<1> DEFINE n == Len(D)
           own == inclusionProof(m, D)
           root == merkleTreeHash(D)
           leaf == hashLeaf(D[m + 1])
<1>1. verifyInclusion(leaf, m, n, own, root)
  BY MembersVerify
<1>2. ASSUME verifyInclusion(hashLeaf(entry), m, n, proof, root)
      PROVE  D[m + 1] = entry /\ proof = own
  <2>1. own \in Seq(Hashes(D)) /\ Len(own) \in Nat /\ Len(proof) \in Nat
    <3>1. own \in Seq(Hashes(D))
      BY InclusionProofType
    <3> HIDE DEF own
    <3> QED
      BY <3>1
  <2> HIDE DEF own, n, root, leaf
  <2>2. PICK f : /\ f[0] = [fn |-> m, sn |-> n - 1, r |-> hashLeaf(entry), ok |-> TRUE]
                 /\ \A i \in 1 .. Len(proof) : f[i] = InclusionRound(f[i - 1], proof[i])
                 /\ InclusionLoop(hashLeaf(entry), m, n, proof) = f[Len(proof)]
    BY <2>1, InclusionRounds
  <2>3. PICK g : /\ g[0] = [fn |-> m, sn |-> n - 1, r |-> leaf, ok |-> TRUE]
                 /\ \A i \in 1 .. Len(own) : g[i] = InclusionRound(g[i - 1], own[i])
                 /\ InclusionLoop(leaf, m, n, own) = g[Len(own)]
    <3>1. Len(own) \in Nat
      BY <2>1
    <3> QED
      BY <3>1, InclusionRounds
  <2>4. Walk(f, proof, Len(proof)) /\ f[Len(proof)].r = root
    BY <1>2, <2>2 DEF Walk, verifyInclusion
  <2>5. Walk(g, own, Len(own)) /\ g[Len(own)].r = root
    BY <1>1, <2>3 DEF Walk, verifyInclusion
  <2>6. f[0].fn = g[0].fn /\ f[0].sn = g[0].sn /\ f[0].r = hashLeaf(entry) /\ g[0].r = leaf
    BY <2>2, <2>3
  <2>7. SameHashes(f, proof, Len(proof), g, own, Len(own))
    BY <2>1, <2>4, <2>5, <2>6, SameWalk
  <2>8. hashLeaf(entry) = leaf /\ Len(proof) = Len(own) /\ \A i \in 1 .. Len(proof) : proof[i] = own[i]
    BY <2>6, <2>7 DEF SameHashes
  <2>9. proof = own
    <3> DEFINE U == S \cup Hashes(D)
    <3>1. proof \in Seq(U) /\ own \in Seq(U)
      BY <2>1
    <3> HIDE DEF U
    <3> QED
      BY <2>8, <3>1, SeqEqual
  <2>10. D[m + 1] = entry
    BY <2>8, LeafNamesEntry DEF leaf
  <2> QED
    BY <2>9, <2>10
<1> QED
  BY <1>1, <1>2

-----------------------------------------------------------------------------
\* A subtree's hash is made of its entries.
LEMMA SameEntriesSameHash ==
  ASSUME NEW A, NEW B, NEW n \in Nat, NEW lo \in Nat, SameEntries(A, lo, B, lo, n)
  PROVE  SubtreeHash(A, lo, n) = SubtreeHash(B, lo, n)
<1> DEFINE Holds(m) == \A l \in Nat : SameEntries(A, l, B, l, m) =>
                         SubtreeHash(A, l, m) = SubtreeHash(B, l, m)
           T == {m \in Nat : Holds(m)}
<1>1. ASSUME NEW m \in Nat, \A h \in 0 .. m - 1 : h \in T PROVE m \in T
  <2> SUFFICES ASSUME NEW l \in Nat, SameEntries(A, l, B, l, m)
               PROVE  SubtreeHash(A, l, m) = SubtreeHash(B, l, m)
    OBVIOUS
  <2>1. CASE m = 0
    BY <2>1, SubtreeHashDef
  <2>2. CASE m = 1
    <3>1. 0 \in 0 .. m - 1 /\ l + 0 = l
      BY <2>2
    <3>2. A[l] = B[l]
      BY <3>1 DEF SameEntries
    <3> QED
      BY <2>2, <3>2, SubtreeHashDef
  <2>3. CASE m >= 2
    <3> DEFINE k == largestPowerOfTwoLessThan(m)
    <3>1. k \in 0 .. m - 1 /\ m - k \in 0 .. m - 1 /\ k \in Nat
      BY <2>3, Split
    <3>2. PICK up, r : up = l + k /\ r = m - k
      OBVIOUS
    <3>3. up \in Nat /\ r \in Nat /\ r \in 0 .. m - 1
      BY <3>1, <3>2
    <3>4. SubtreeHash(A, l, m) = hashChildren(SubtreeHash(A, l, k), SubtreeHash(A, up, r))
      BY <2>3, <3>2, NodeHash
    <3>5. SubtreeHash(B, l, m) = hashChildren(SubtreeHash(B, l, k), SubtreeHash(B, up, r))
      BY <2>3, <3>2, NodeHash
    <3> HIDE DEF k, Holds
    <3>6. Holds(k) /\ Holds(r)
      BY <1>1, <3>1, <3>3
    <3>7. SameEntries(A, l, B, l, k)
      BY <3>1 DEF SameEntries
    <3>8. SameEntries(A, up, B, up, r)
      <4> SUFFICES ASSUME NEW j \in 0 .. r - 1 PROVE A[up + j] = B[up + j]
        BY DEF SameEntries
      <4>1. k + j \in 0 .. m - 1 /\ l + (k + j) = up + j
        BY <3>1, <3>2, <3>3
      <4>2. PICK x : x = k + j
        OBVIOUS
      <4>3. A[l + x] = B[l + x]
        BY <4>1, <4>2 DEF SameEntries
      <4> QED
        BY <4>1, <4>2, <4>3
    <3>9. SubtreeHash(A, l, k) = SubtreeHash(B, l, k)
      BY <3>1, <3>6, <3>7 DEF Holds
    <3>10. SubtreeHash(A, up, r) = SubtreeHash(B, up, r)
      BY <3>3, <3>6, <3>8 DEF Holds
    <3> QED
      BY <3>4, <3>5, <3>9, <3>10
  <2> QED
    BY <2>1, <2>2, <2>3
<1>2. T \subseteq Nat
  OBVIOUS
<1> HIDE DEF T, Holds
<1>3. T = Nat
  BY <1>1, <1>2, StrongInduction
<1>4. Holds(n)
  BY <1>3 DEF T
<1> QED
  BY <1>4 DEF Holds

\* The root of a beginning of B is the hash of B's first subtree of its length.
LEMMA PrefixHash ==
  ASSUME NEW E, NEW A \in Seq(E), NEW B \in Seq(E), IsPrefix(A, B)
  PROVE  merkleTreeHash(A) = SubtreeHash(B, 1, Len(A))
<1> DEFINE m == Len(A)
<1>1. m \in Nat /\ m <= Len(B) /\ SubSeq(A, 1, m) = SubSeq(B, 1, m) /\ Len(B) \in Nat
  BY DEF IsPrefix
<1>2. ASSUME NEW j \in 0 .. m - 1 PROVE A[1 + j] = B[1 + j]
  <2>1. 1 + j \in 1 .. m
    BY <1>1
  <2>2. A[1 + j] = SubSeq(A, 1, m)[1 + j]
    BY <1>1, <2>1, SubSeqProperties
  <2>3. B[1 + j] = SubSeq(B, 1, m)[1 + j]
    BY <1>1, <2>1, SubSeqProperties
  <2> QED
    BY <1>1, <2>2, <2>3
<1>3. SameEntries(A, 1, B, 1, m)
  BY <1>2 DEF SameEntries
<1> HIDE DEF m
<1>4. SubtreeHash(A, 1, m) = SubtreeHash(B, 1, m)
  BY <1>1, <1>3, SameEntriesSameHash
<1> QED
  BY <1>4 DEF merkleTreeHash, m

\* The list the verifier reads is of hashes, and never empty.
LEMMA GrowthRegrows ==
  ASSUME NEW E, NEW A \in Seq(E), NEW B \in Seq(E), IsPrefix(A, B),
         0 < Len(A), Len(A) < Len(B), Len(B) <= TwoTo[Width - 1],
         NEW path, path = IF IsPowerOfTwo(Len(A)) THEN <<merkleTreeHash(A)>> \o consistencyProof(Len(A), B)
                          ELSE consistencyProof(Len(A), B)
  PROVE  path # <<>> /\ Regrown(ConsistencyLoop(Len(A), Len(B), path),
                                merkleTreeHash(A), merkleTreeHash(B), 0, 0)
<1> DEFINE m == Len(A)
           n == Len(B)
           p == Width - 1
<1>1. PICK sub : /\ SubProofs(B, sub)
                 /\ \A i : consistencyProof(i, B) = sub[n][1][i]
  BY ConsistencyProofDef
<1>2. m \in Nat /\ n \in Nat /\ m \in 1 .. n /\ m # n /\ n - 1 \in Nat /\ n >= 1
  OBVIOUS
<1>3. p \in Nat /\ TwoTo[p] \in Nat
  <2>1. p \in Nat
    BY WidthAssumption
  <2>2. TwoTo[p] \in Nat
    BY <2>1, Powers
  <2> QED
    BY <2>1, <2>2
<1>4. merkleTreeHash(A) = SubtreeHash(B, 1, m) /\ merkleTreeHash(B) = SubtreeHash(B, 1, n)
  BY PrefixHash DEF merkleTreeHash
<1>5. path = PathFrom(B, sub, n, 1, m)
  BY <1>1, <1>4 DEF PathFrom
<1>6. Sizes(m, n, n, p, 0, 0, n - 1, m)
  <2>1. TwoTo[p] * 0 = 0 /\ n \in 1 .. TwoTo[p] /\ n <= TwoTo[p]
    BY <1>2, <1>3
  <2>2. Placed(n, p, 0, 0, n - 1)
    BY <1>2, <2>1 DEF Placed
  <2> HIDE DEF m, n, p
  <2>3. (n - 1) + TwoTo[p] * 0 < TwoTo[p] /\ m = m + TwoTo[p] * 0 /\ n = (n - 1) + TwoTo[p] * 0 + 1
    BY <1>2, <1>3, <2>1
  <2> QED
    BY <1>2, <2>2, <2>3 DEF Sizes, p
<1>7. EndsIn(n, p, 0, 0, m)
  BY <1>2 DEF EndsIn
<1>8. Regrows(B, sub, n)
  BY <1>1, <1>2, Regrow
<1> HIDE DEF m, n, p
<1>9. RegrowsFrom(m, n, PathFrom(B, sub, n, 1, m), SubtreeHash(B, 1, m), SubtreeHash(B, 1, n),
                  n, p, 0, 0, n - 1, m)
  <2>1. 1 \in Nat \ {0} /\ 0 \in Nat
    OBVIOUS
  <2> QED
    BY <1>2, <1>3, <1>8, <2>1 DEF Regrows
<1>10. path # <<>> /\ Regrown(ConsistencyLoop(m, n, path), merkleTreeHash(A), merkleTreeHash(B), 0, 0)
  BY <1>4, <1>5, <1>6, <1>7, <1>9 DEF RegrowsFrom
<1> QED
  BY <1>10 DEF m, n

\* Completeness of verifyConsistency: a tree within the width is accepted as an append of
\* any of its beginnings, by the proof that consistencyProof gives.
THEOREM GrowthVerifies ==
  ASSUME NEW E, NEW A \in Seq(E), NEW B \in Seq(E), IsPrefix(A, B),
         0 < Len(A), Len(A) < Len(B), Len(B) <= TwoTo[Width - 1]
  PROVE  verifyConsistency(Len(A), Len(B), merkleTreeHash(A), merkleTreeHash(B),
                           consistencyProof(Len(A), B))
<1>1. PICK path : path = IF IsPowerOfTwo(Len(A)) THEN <<merkleTreeHash(A)>> \o consistencyProof(Len(A), B)
                         ELSE consistencyProof(Len(A), B)
  OBVIOUS
<1> DEFINE s == ConsistencyLoop(Len(A), Len(B), path)
<1>2. path # <<>> /\ Regrown(s, merkleTreeHash(A), merkleTreeHash(B), 0, 0)
  BY <1>1, GrowthRegrows
<1>3. s.ok = TRUE /\ s.fr = merkleTreeHash(A) /\ s.sr = merkleTreeHash(B) /\ s.sn = 0
  <2>1. ASSUME NEW q \in Nat PROVE TwoTo[q] * 0 = 0
    <3>1. TwoTo[q] \in Nat
      BY Powers
    <3> QED
      BY <3>1
  <2> HIDE DEF s
  <2> QED
    BY <1>2, <2>1 DEF Regrown, Climbed
<1> QED
  BY <1>1, <1>2, <1>3 DEF verifyConsistency

-----------------------------------------------------------------------------
\* The loop of verifyConsistency rebuilds the second root as that of verifyInclusion does
\* the one root.
Second(s) == [fn |-> s.fn, sn |-> s.sn, ok |-> s.ok, r |-> s.sr]

\* Round for round.
LEMMA SecondRound ==
  ASSUME NEW s, NEW c, ConsistencyRound(s, c).ok
  PROVE  Second(ConsistencyRound(s, c)) = InclusionRound(Second(s), c) /\ s.ok
<1>1. s.sn # 0 /\ s.ok
  BY DEF ConsistencyRound
<1> DEFINE onEdge == IsOdd(s.fn) \/ s.fn = s.sn
           out(x) == Shift(IF onEdge /\ ~IsOdd(s.fn) THEN ShiftOut(x) ELSE x)
           fn == out(s.fn)
           sn == out(s.sn)
<1>2. ConsistencyRound(s, c)
        = [fn |-> fn, sn |-> sn, ok |-> TRUE, fr |-> IF onEdge THEN hashChildren(c, s.fr) ELSE s.fr,
           sr |-> IF onEdge THEN hashChildren(c, s.sr) ELSE hashChildren(s.sr, c)]
  BY <1>1 DEF ConsistencyRound
<1>3. InclusionRound(Second(s), c)
        = [fn |-> fn, sn |-> sn, ok |-> TRUE,
           r |-> IF onEdge THEN hashChildren(c, s.sr) ELSE hashChildren(s.sr, c)]
  BY <1>1 DEF InclusionRound, Second
<1> HIDE DEF onEdge, fn, sn
<1> QED
  BY <1>1, <1>2, <1>3 DEF Second

\* An accepted list is a walk to the second root.
LEMMA ConsistencyWalk ==
  ASSUME NEW m, NEW n, NEW path, Len(path) \in Nat, Len(path) >= 1,
         ConsistencyLoop(m, n, path).ok, ConsistencyLoop(m, n, path).sn = 0
  PROVE  \E f, rest :
           /\ Walk(f, rest, Len(path) - 1)
           /\ \A i \in 1 .. Len(path) - 1 : rest[i] = path[i + 1]
           /\ f[0].fn = ShiftOdd(m - 1, n - 1)[1] /\ f[0].sn = ShiftOdd(m - 1, n - 1)[2]
           /\ f[0].r = path[1] /\ f[Len(path) - 1].r = ConsistencyLoop(m, n, path).sr
<1> DEFINE L == Len(path) - 1
<1>1. PICK after :
        /\ after[0] = [fn |-> ShiftOdd(m - 1, n - 1)[1], sn |-> ShiftOdd(m - 1, n - 1)[2],
                       ok |-> TRUE, fr |-> path[1], sr |-> path[1]]
        /\ \A i \in 1 .. L : after[i] = ConsistencyRound(after[i - 1], path[i + 1])
        /\ ConsistencyLoop(m, n, path) = after[L]
  BY ConsistencyRounds
<1>2. L \in Nat /\ 0 \in 0 .. L /\ L \in 0 .. L
  OBVIOUS
<1> HIDE DEF L
<1> DEFINE T == {j \in Nat : j <= L => after[L - j].ok}
<1>3. ASSUME NEW j \in Nat, \A h \in 0 .. j - 1 : h \in T PROVE j \in T
  <2>1. CASE j = 0
    BY <1>1, <1>2, <2>1
  <2>2. CASE j # 0 /\ j <= L
    <3>1. after[L - (j - 1)].ok
      <4>1. j - 1 \in 0 .. j - 1 /\ j - 1 <= L
        BY <1>2, <2>2
      <4> QED
        BY <1>3, <4>1
    <3>2. L - (j - 1) \in 1 .. L /\ L - (j - 1) - 1 = L - j
      BY <1>2, <2>2
    <3>3. PICK c : after[L - (j - 1)] = ConsistencyRound(after[L - j], c)
      BY <1>1, <3>2
    <3>4. after[L - j].ok
      BY <3>1, <3>3, SecondRound
    <3> QED
      BY <3>4
  <2> QED
    BY <2>1, <2>2
<1>4. T \subseteq Nat
  OBVIOUS
<1> HIDE DEF T
<1>5. T = Nat
  BY <1>3, <1>4, StrongInduction
<1>6. ASSUME NEW i \in 0 .. L PROVE after[i].ok
  <2>1. L - i \in T /\ L - i <= L /\ L - (L - i) = i
    BY <1>2, <1>5
  <2> QED
    BY <2>1 DEF T
<1> DEFINE f == [i \in 0 .. L |-> Second(after[i])]
           rest == [i \in 1 .. L |-> path[i + 1]]
<1>7. \A i \in 1 .. L : f[i] = InclusionRound(f[i - 1], rest[i])
  <2> SUFFICES ASSUME NEW i \in 1 .. L PROVE f[i] = InclusionRound(f[i - 1], rest[i])
    OBVIOUS
  <2>1. i \in 0 .. L /\ i - 1 \in 0 .. L
    BY <1>2
  <2>2. after[i].ok /\ after[i] = ConsistencyRound(after[i - 1], path[i + 1])
    BY <1>1, <1>6, <2>1
  <2>3. Second(after[i]) = InclusionRound(Second(after[i - 1]), path[i + 1])
    BY <2>2, SecondRound
  <2> QED
    BY <2>1, <2>3
<1>8. f[L].ok /\ f[L].sn = 0 /\ f[L].r = after[L].sr
  BY <1>1, <1>2 DEF Second
<1>9. f[0].fn = ShiftOdd(m - 1, n - 1)[1] /\ f[0].sn = ShiftOdd(m - 1, n - 1)[2] /\ f[0].r = path[1]
  BY <1>1, <1>2 DEF Second
<1>10. \A i \in 1 .. L : rest[i] = path[i + 1]
  OBVIOUS
<1> HIDE DEF f, rest
<1>11. Walk(f, rest, L)
  BY <1>7, <1>8 DEF Walk
<1> QED
  BY <1>1, <1>8, <1>9, <1>10, <1>11 DEF L

\* Two lists that verifyConsistency accepts for the same sizes and roots are one.
LEMMA SamePath ==
  ASSUME NEW m, NEW n, NEW U, NEW path \in Seq(U), NEW own \in Seq(U),
         path # <<>>, own # <<>>,
         ConsistencyLoop(m, n, path).ok, ConsistencyLoop(m, n, path).sn = 0,
         ConsistencyLoop(m, n, own).ok, ConsistencyLoop(m, n, own).sn = 0,
         ConsistencyLoop(m, n, path).sr = ConsistencyLoop(m, n, own).sr
  PROVE  path = own
<1> DEFINE L == Len(path) - 1
           M == Len(own) - 1
<1>1. /\ Len(path) \in Nat /\ Len(path) >= 1 /\ Len(own) \in Nat /\ Len(own) >= 1
      /\ L \in Nat /\ M \in Nat
  <2>1. Len(path) \in Nat /\ Len(path) # 0 /\ Len(own) \in Nat /\ Len(own) # 0
    BY EmptySeq
  <2> QED
    BY <2>1
<1>2. PICK f, rest :
        /\ Walk(f, rest, L)
        /\ \A i \in 1 .. L : rest[i] = path[i + 1]
        /\ f[0].fn = ShiftOdd(m - 1, n - 1)[1] /\ f[0].sn = ShiftOdd(m - 1, n - 1)[2]
        /\ f[0].r = path[1] /\ f[L].r = ConsistencyLoop(m, n, path).sr
  BY <1>1, ConsistencyWalk
<1>3. PICK g, others :
        /\ Walk(g, others, M)
        /\ \A i \in 1 .. M : others[i] = own[i + 1]
        /\ g[0].fn = ShiftOdd(m - 1, n - 1)[1] /\ g[0].sn = ShiftOdd(m - 1, n - 1)[2]
        /\ g[0].r = own[1] /\ g[M].r = ConsistencyLoop(m, n, own).sr
  BY <1>1, ConsistencyWalk
<1> HIDE DEF L, M
<1>4. SameHashes(f, rest, L, g, others, M)
  <2>1. f[0].fn = g[0].fn /\ f[0].sn = g[0].sn /\ f[L].r = g[M].r
    BY <1>2, <1>3
  <2> QED
    BY <1>1, <1>2, <1>3, <2>1, SameWalk
<1>5. L = M /\ path[1] = own[1] /\ \A i \in 1 .. L : rest[i] = others[i]
  BY <1>2, <1>3, <1>4 DEF SameHashes
<1>6. Len(path) = Len(own)
  BY <1>1, <1>5 DEF L, M
<1>7. ASSUME NEW i \in 1 .. Len(path) PROVE path[i] = own[i]
  <2>1. CASE i = 1
    BY <1>5, <2>1
  <2>2. CASE i # 1
    <3>1. i - 1 \in 1 .. L /\ i - 1 \in 1 .. M /\ (i - 1) + 1 = i
      BY <1>1, <1>6, <2>2 DEF L, M
    <3>2. PICK h : h = i - 1
      OBVIOUS
    <3>3. rest[h] = path[h + 1] /\ others[h] = own[h + 1] /\ rest[h] = others[h]
      BY <1>2, <1>3, <1>5, <3>1, <3>2
    <3> QED
      BY <3>1, <3>2, <3>3
  <2> QED
    BY <2>1, <2>2
<1> QED
  BY <1>6, <1>7, SeqEqual

\* The first hash of a list, and what follows it.
LEMMA SameFirst ==
  ASSUME NEW U, NEW h \in U, NEW p \in Seq(U), NEW q \in Seq(U), <<h>> \o p = <<h>> \o q
  PROVE  p = q
<1>1. /\ Len(<<h>> \o p) = 1 + Len(p) /\ \A i \in 1 .. Len(p) : (<<h>> \o p)[1 + i] = p[i]
  OBVIOUS
<1>2. /\ Len(<<h>> \o q) = 1 + Len(q) /\ \A i \in 1 .. Len(q) : (<<h>> \o q)[1 + i] = q[i]
  OBVIOUS
<1>3. Len(p) = Len(q)
  BY <1>1, <1>2
<1>4. \A i \in 1 .. Len(p) : p[i] = q[i]
  BY <1>1, <1>2, <1>3
<1> QED
  BY <1>3, <1>4, SeqEqual

\* Exactness of verifyConsistency: at the sizes of two trees it accepts a proof exactly
\* when the second begins with the first and the proof is consistencyProof's.
THEOREM ConsistencyProofDecides ==
  ASSUME NEW E, NEW A \in Seq(E), NEW B \in Seq(E),
         0 < Len(A), Len(A) < Len(B), Len(B) <= TwoTo[Width - 1],
         NEW S, NEW proof \in Seq(S)
  PROVE  verifyConsistency(Len(A), Len(B), merkleTreeHash(A), merkleTreeHash(B), proof)
           <=> IsPrefix(A, B) /\ proof = consistencyProof(Len(A), B)
<1> DEFINE m == Len(A)
           n == Len(B)
           one == merkleTreeHash(A)
           two == merkleTreeHash(B)
           given == consistencyProof(m, B)
           U == S \cup Hashes(B) \cup {one}
<1>1. ASSUME verifyConsistency(m, n, one, two, proof)
      PROVE  IsPrefix(A, B) /\ proof = given
  <2>1. IsPrefix(A, B)
    BY <1>1, AppendsOnly
  <2>2. verifyConsistency(m, n, one, two, given)
    BY <2>1, GrowthVerifies
  <2>3. proof \in Seq(U) /\ given \in Seq(U) /\ one \in U
    <3>1. m \in 1 .. n /\ n \in Nat
      OBVIOUS
    <3>2. given \in Seq(Hashes(B))
      BY <3>1, ConsistencyProofType
    <3> HIDE DEF given
    <3> QED
      BY <3>2
  <2> HIDE DEF m, n, one, two, given, U
  <2>4. CASE IsPowerOfTwo(m)
    <3> DEFINE path == <<one>> \o proof
               own == <<one>> \o given
    <3>1. path \in Seq(U) /\ own \in Seq(U)
      <4>1. <<one>> \in Seq(U)
        BY <2>3
      <4> QED
        BY <2>3, <4>1, ConcatProperties
    <3>2. path # <<>> /\ own # <<>>
      BY <1>1, <2>2, <2>4 DEF verifyConsistency
    <3>3. /\ ConsistencyLoop(m, n, path).ok /\ ConsistencyLoop(m, n, path).sn = 0
          /\ ConsistencyLoop(m, n, own).ok /\ ConsistencyLoop(m, n, own).sn = 0
          /\ ConsistencyLoop(m, n, path).sr = ConsistencyLoop(m, n, own).sr
      BY <1>1, <2>2, <2>4 DEF verifyConsistency
    <3> HIDE DEF path, own
    <3>4. path = own
      BY <3>1, <3>2, <3>3, SamePath
    <3>5. proof = given
      BY <2>3, <3>4, SameFirst DEF path, own
    <3> QED
      BY <2>1, <3>5
  <2>5. CASE ~IsPowerOfTwo(m)
    <3>1. proof # <<>> /\ given # <<>>
      BY <1>1, <2>2, <2>5 DEF verifyConsistency
    <3>2. /\ ConsistencyLoop(m, n, proof).ok /\ ConsistencyLoop(m, n, proof).sn = 0
          /\ ConsistencyLoop(m, n, given).ok /\ ConsistencyLoop(m, n, given).sn = 0
          /\ ConsistencyLoop(m, n, proof).sr = ConsistencyLoop(m, n, given).sr
      BY <1>1, <2>2, <2>5 DEF verifyConsistency
    <3>3. proof = given
      BY <2>3, <3>1, <3>2, SamePath
    <3> QED
      BY <2>1, <3>3
  <2> QED
    BY <2>4, <2>5
<1>2. ASSUME IsPrefix(A, B), proof = given
      PROVE  verifyConsistency(m, n, one, two, proof)
  BY <1>2, GrowthVerifies
<1> QED
  BY <1>1, <1>2
=============================================================================
