---------------------------- MODULE MCMerkleTree ----------------------------
(***************************************************************************)
(* Every claim about a small tree, with every proof built from its hashes. *)
(* The entries of a tree of size n are 1, ..., n; 0 is one it lacks.       *)
(***************************************************************************)
EXTENDS MerkleTree

CONSTANTS
  MaxTree,    \* size of the largest tree
  MaxClaim,   \* largest tree size a claim states
  MaxPath,    \* length of the longest inclusion proof
  MaxProof    \* length of the longest consistency proof

Tree(n) == [i \in 1 .. n |-> i]

\* The claim "entry is at index, in a tree of size": its root is that of `tree`.
InclusionClaim ==
  UNION {{c \in [kind : {"inclusion"}, tree : {Tree(n)}, entry : 0 .. n,
                 index : 0 .. MaxClaim - 1, size : 1 .. MaxClaim] :
            c.index < c.size} : n \in 1 .. MaxTree}

\* The claim "the second tree is an append of the first": the first is a prefix of
\* the second, or a prefix with one entry rewritten.
ConsistencyClaim ==
  UNION {[kind : {"consistency"}, tree : {Tree(n)},
          first : {[Tree(m) EXCEPT ![j] = 0] : j \in 1 .. m} \cup {Tree(m)}] :
         <<m, n>> \in {mn \in (1 .. MaxTree) \X (1 .. MaxTree) : mn[1] < mn[2]}}

\* The hashes a verifier of D meets: those of its subtrees.
Nodes(D) ==
  LET sub[lo \in Nat, n \in Nat] ==
        {SubtreeHash(D, lo, n)} \cup
        (IF n < 2 THEN {}
         ELSE LET k == largestPowerOfTwoLessThan(n) IN sub[lo, k] \cup sub[lo + k, n - k])
  IN  sub[1, Len(D)]

Pool(claim) ==
  IF claim.kind = "inclusion" THEN Nodes(claim.tree)
  ELSE Nodes(claim.tree) \cup Nodes(claim.first)

Longest(claim) == IF claim.kind = "inclusion" THEN MaxPath ELSE MaxProof
=============================================================================
