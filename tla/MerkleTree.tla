----------------------------- MODULE MerkleTree -----------------------------
(***************************************************************************)
(* The Merkle tree of lib/vrp-tlog.mjs: tree hash, audit path, consistency *)
(* proof, and the two loops that verify them (RFC 6962, section 2.1).      *)
(*                                                                         *)
(* Hashes are symbolic: a hash is the term it was computed from, so two    *)
(* hashes are equal exactly when they were computed from the same data.    *)
(* The loops shift sizes and indexes with >>=, which in JavaScript first   *)
(* takes the number modulo 2^32 to a signed integer; Width stands for 32.  *)
(***************************************************************************)
EXTENDS Integers, SequencesExt

CONSTANT Width   \* bits of the integers that & and >>= work on

ASSUME WidthAssumption == Width \in Nat /\ Width >= 2

EmptyHash          == <<"empty">>
hashLeaf(entry)    == <<"leaf", entry>>
hashChildren(l, r) == <<"node", l, r>>

-----------------------------------------------------------------------------
\* while (k << 1 < n) k <<= 1, from k = 1: n rounds are more than enough.
largestPowerOfTwoLessThan(n) ==
  LET k[i \in 0 .. n] == IF i = 0 THEN 1
                         ELSE LET j == k[i - 1] IN IF 2 * j < n THEN 2 * j ELSE j
  IN  k[n]

\* The hash of the n entries of D from position lo on.
SubtreeHash(D, lo, n) ==
  LET mth[s \in Nat] ==
        [l \in Nat |->
           IF s = 0 THEN EmptyHash
           ELSE IF s = 1 THEN hashLeaf(D[l])
           ELSE LET k == largestPowerOfTwoLessThan(s)
                IN  hashChildren(mth[k][l], mth[s - k][l + k])]
  IN  mth[n][lo]

merkleTreeHash(D) == SubtreeHash(D, 1, Len(D))

\* The audit path of the entry at index m (from 0), bottom-up: path[n][lo][i] is that
\* of the entry at index i of the n entries from position lo on.
inclusionProof(m, D) ==
  LET path[n \in Nat] ==
        [lo \in Nat |-> [i \in 0 .. n - 1 |->
           LET k == largestPowerOfTwoLessThan(n)
           IN  IF n = 1 THEN <<>>
               ELSE IF i < k THEN Append(path[k][lo][i], SubtreeHash(D, lo + k, n - k))
               ELSE Append(path[n - k][lo + k][i - k], SubtreeHash(D, lo, k))]]
  IN  path[Len(D)][1][m]

\* The consistency proof between the first m entries of D and all of D: sub[n][lo][i]
\* is subproof of the first i of the n entries from position lo on.  Its flag b, that
\* these are a tree of size m whose root the verifier knows, is lo = 1: it starts true
\* and is cleared where the walk goes right.
consistencyProof(m, D) ==
  LET sub[n \in Nat] ==
        [lo \in Nat |-> [i \in 1 .. n |->
           LET k == largestPowerOfTwoLessThan(n)
           IN  IF i = n THEN IF lo = 1 THEN <<>> ELSE <<SubtreeHash(D, lo, n)>>
               ELSE IF i <= k THEN Append(sub[k][lo][i], SubtreeHash(D, lo + k, n - k))
               ELSE Append(sub[n - k][lo + k][i - k], SubtreeHash(D, lo, k))]]
  IN  sub[Len(D)][1][m]

-----------------------------------------------------------------------------
\* 1, 2, 4, ...
TwoTo[i \in Nat] == IF i = 0 THEN 1 ELSE 2 * TwoTo[i - 1]

\* ToInt32, x & 1 and x >> 1.
ToInt(x)  == ((x + TwoTo[Width - 1]) % TwoTo[Width]) - TwoTo[Width - 1]
IsOdd(x)  == ToInt(x) % 2 = 1
Shift(x)  == ToInt(x) \div 2

\* do x >>= 1 while x is even and not 0; after Width rounds x is 0 or -1.
ShiftOut(x) ==
  LET out[i \in 0 .. Width] ==
        [y \in Int |-> LET z == Shift(y)
                       IN  IF i > 0 /\ ~IsOdd(z) /\ z # 0 THEN out[i - 1][z] ELSE z]
  IN  out[Width][x]

InclusionRoundNoSkip(s, p) ==   \* mutant: an even index on the right edge is shifted once
  LET onEdge == IsOdd(s.fn) \/ s.fn = s.sn
  IN  IF s.sn = 0 \/ ~s.ok THEN [s EXCEPT !.ok = FALSE]
      ELSE [fn |-> Shift(s.fn), sn |-> Shift(s.sn), ok |-> TRUE,
            r |-> IF onEdge THEN hashChildren(p, s.r) ELSE hashChildren(s.r, p)]

\* One round of the loop of verifyInclusion: s holds fn and sn, the index and the
\* last index at this level, the hash r so far, and whether the loop returned
\* false.  Where fn = sn the inner loop shifts both alike.
InclusionRound(s, p) ==
  LET onEdge == IsOdd(s.fn) \/ s.fn = s.sn
      out(x) == Shift(IF onEdge /\ ~IsOdd(s.fn) THEN ShiftOut(x) ELSE x)
  IN  IF s.sn = 0 \/ ~s.ok THEN [s EXCEPT !.ok = FALSE]
      ELSE [fn |-> out(s.fn), sn |-> out(s.sn), ok |-> TRUE,
            r |-> IF onEdge THEN hashChildren(p, s.r) ELSE hashChildren(s.r, p)]

\* for (const p of proof): the state after the last round.
InclusionLoop(leafHash, leafIndex, treeSize, proof) ==
  LET after[i \in 0 .. Len(proof)] ==
        IF i = 0 THEN [fn |-> leafIndex, sn |-> treeSize - 1, r |-> leafHash, ok |-> TRUE]
        ELSE InclusionRound(after[i - 1], proof[i])
  IN  after[Len(proof)]

verifyInclusionAnyLength(leafHash, leafIndex, treeSize, proof, root) ==   \* mutant: sn is not tested
  /\ leafIndex >= 0 /\ leafIndex < treeSize
  /\ LET end == InclusionLoop(leafHash, leafIndex, treeSize, proof)
     IN  end.ok /\ end.r = root

verifyInclusionUncompared(leafHash, leafIndex, treeSize, proof, root) ==   \* mutant: nor is the root
  /\ leafIndex >= 0 /\ leafIndex < treeSize
  /\ LET end == InclusionLoop(leafHash, leafIndex, treeSize, proof)
     IN  end.ok /\ end.sn = 0

verifyInclusion(leafHash, leafIndex, treeSize, proof, root) ==
  /\ leafIndex >= 0 /\ leafIndex < treeSize
  /\ LET end == InclusionLoop(leafHash, leafIndex, treeSize, proof)
     IN  end.ok /\ end.sn = 0 /\ end.r = root

IsPowerOfTwoAboveOne(m) == m \in {TwoTo[i] : i \in 1 .. Width - 1}   \* mutant: 1 is left out

\* (m & (m - 1)) = 0, for a size within the width.
IsPowerOfTwo(m) == m \in {TwoTo[i] : i \in 0 .. Width - 1}

\* while fn is odd, shift fn and sn; after Width rounds fn is 0 or -1.  (An fn that
\* wraps to -1 stays odd for ever: no size here is that large.)
ShiftOdd(fn, sn) ==
  LET out[i \in 0 .. Width] ==
        [s \in Int \X Int |-> IF i > 0 /\ IsOdd(s[1])
                              THEN out[i - 1][<<Shift(s[1]), Shift(s[2])>>] ELSE s]
  IN  out[Width][<<fn, sn>>]

\* One round of the loop of verifyConsistency: fr and sr rebuild the two roots.
ConsistencyRound(s, c) ==
  LET onEdge == IsOdd(s.fn) \/ s.fn = s.sn
      out(x) == Shift(IF onEdge /\ ~IsOdd(s.fn) THEN ShiftOut(x) ELSE x)
  IN  IF s.sn = 0 \/ ~s.ok THEN [s EXCEPT !.ok = FALSE]
      ELSE [fn |-> out(s.fn), sn |-> out(s.sn), ok |-> TRUE,
            fr |-> IF onEdge THEN hashChildren(c, s.fr) ELSE s.fr,
            sr |-> IF onEdge THEN hashChildren(c, s.sr) ELSE hashChildren(s.sr, c)]

\* for (let i = 1; i < path.length; i++): the state after the last round.
ConsistencyLoop(m, n, path) ==
  LET start == ShiftOdd(m - 1, n - 1)
      after[i \in 0 .. Len(path) - 1] ==
        IF i = 0 THEN [fn |-> start[1], sn |-> start[2], ok |-> TRUE,
                       fr |-> path[1], sr |-> path[1]]
        ELSE ConsistencyRound(after[i - 1], path[i + 1])
  IN  after[Len(path) - 1]

\* Mutant: only the second root is compared.
verifyConsistencySecond(m, n, firstRoot, secondRoot, proof) ==
  LET path == IF IsPowerOfTwo(m) THEN <<firstRoot>> \o proof ELSE proof
      end  == ConsistencyLoop(m, n, path)
  IN  m > 0 /\ m < n /\ path # <<>> /\ end.ok /\ end.sn = 0 /\ end.sr = secondRoot

\* Mutant: only the first root is compared.
verifyConsistencyFirst(m, n, firstRoot, secondRoot, proof) ==
  LET path == IF IsPowerOfTwo(m) THEN <<firstRoot>> \o proof ELSE proof
      end  == ConsistencyLoop(m, n, path)
  IN  m > 0 /\ m < n /\ path # <<>> /\ end.ok /\ end.sn = 0 /\ end.fr = firstRoot

\* The tree of size n is an append of the tree of size m.
verifyConsistency(m, n, firstRoot, secondRoot, proof) ==
  LET path == IF IsPowerOfTwo(m) THEN <<firstRoot>> \o proof ELSE proof
      end  == ConsistencyLoop(m, n, path)
  IN  /\ m > 0 /\ m < n
      /\ path # <<>>
      /\ end.ok /\ end.sn = 0 /\ end.fr = firstRoot /\ end.sr = secondRoot
=============================================================================
