---------------------------- MODULE Library_proofs ----------------------------
(***************************************************************************)
(* The promises of the libraries and scripts, for every value of the       *)
(* constants: what the transparency log and its witnesses do in every      *)
(* behaviour, and what the functions compute for every input of their      *)
(* types, lists, keys, names and sites of any length.                      *)
(***************************************************************************)
EXTENDS Library, HostName_proofs, MerkleTree_proofs, FiniteSetTheorems

-----------------------------------------------------------------------------
\* A log within its bound is within the width of the verifier's shifts.
LEMMA WithinWidth ==
  ASSUME NEW n \in 1 .. MaxSize
  PROVE  n <= TwoTo[Width - 1]
<1>1. Width - 1 \in Nat
  BY WidthAssumption
<1>2. TwoTo[Width - 1] \in Nat
  BY <1>1, Powers
<1> QED
  BY <1>2, LogAssumption

\* A list of artifact hashes within the bound, with an entry at least.
Recorded(tree) == tree \in Seq(Artifact) /\ Len(tree) \in 1 .. MaxSize

\* What the log holds and what it archived are lists of artifact hashes, and it signs
\* with a key of its own.
Held ==
  /\ log \in Seq(Artifact) /\ Len(log) <= MaxSize
  /\ signing \in SigningKey
  /\ \A h \in archive : Recorded(h.tree) /\ h.key \in SigningKey

\* Appending, signing a head and restoring a backup keep it so.
LEMMA HeldStep == Held /\ [Next]_vars => Held'
<1> SUFFICES ASSUME Held, [Next]_vars PROVE Held'
  OBVIOUS
<1>1. ASSUME NEW a \in Artifact, Submit(a) PROVE Held'
  <2>1. log' \in Seq(Artifact) /\ Len(log') = Len(log) + 1
    BY <1>1, AppendProperties DEF Held, Submit
  <2>2. Len(log') <= MaxSize
    BY <1>1, <2>1, LogAssumption DEF Held, Submit
  <2> QED
    BY <1>1, <2>1, <2>2 DEF Held, Submit
<1>2. CASE SignHead
  <2>1. \A h \in archive' : h \in archive \/ (h.tree = log /\ h.key = signing)
    BY <1>2 DEF SignHead, Archived
  <2>2. Recorded(log)
    <3>1. Len(log) \in Nat /\ Len(log) # 0
      BY <1>2, EmptySeq DEF Held, SignHead
    <3> QED
      BY <3>1, LogAssumption DEF Held, Recorded
  <2> QED
    BY <1>2, <2>1, <2>2 DEF Held, SignHead
<1>3. CASE Restore
  <2>1. PICK k \in 0 .. Len(log) - 1 : log' = SubSeq(log, 1, k)
    BY <1>3 DEF Restore
  <2>2. SubSeq(log, 1, k) \in Seq(Artifact) /\ Len(SubSeq(log, 1, k)) <= MaxSize
    <3>1. k \in Nat /\ k <= Len(log) /\ Len(log) \in Nat
      BY <2>1 DEF Held
    <3>2. SubSeq(log, 1, k) \in Seq(Artifact) /\ Len(SubSeq(log, 1, k)) = k
      BY <3>1, SubSeqProperties DEF Held
    <3> QED
      BY <3>1, <3>2, LogAssumption DEF Held
  <2> QED
    BY <1>3, <2>1, <2>2 DEF Held, Restore
<1>4. CASE RotateKey \/ RetireKeys \/ UNCHANGED vars
  <2>1. log' = log /\ archive' = archive /\ signing' \in SigningKey
    BY <1>4 DEF Held, RotateKey, RetireKeys, vars
  <2> QED
    BY <2>1 DEF Held
<1> QED
  BY <1>1, <1>2, <1>3, <1>4 DEF Next

\* It is so in every state of the service.
LEMMA HeldAlways == Spec => []Held
<1>1. Init => Held
  BY LogAssumption DEF Init, Held
<1> QED
  BY <1>1, HeldStep, PTL DEF Spec

\* A tree head that verifies, with a signature the operator once made, is a head it
\* archived under a key it still publishes.
LEMMA ValidHeadIsArchived ==
  ASSUME NEW sth, NEW jws,
         jws \in HeadSignatures \cup {[j EXCEPT !.intact = FALSE] : j \in HeadSignatures} \cup {None},
         verifySignedTreeHead(sth, jws, published) = "sth_valid"
  PROVE  \E h \in archive : TreeHead(h.tree) = sth /\ h.key \in published
<1>1. /\ jws # None /\ jws.kid \in published /\ jws.intact /\ jws.payload = sth
  BY DEF verifySignedTreeHead, JwsOutcome
<1>2. ASSUME NEW j \in HeadSignatures PROVE [j EXCEPT !.intact = FALSE].intact = FALSE
  BY DEF HeadSignatures, Jws
<1>3. PICK h \in archive : jws = Jws(h)
  BY <1>1, <1>2 DEF HeadSignatures
<1> QED
  BY <1>1, <1>3 DEF Jws

\* verifyAnchoring makes up no record, whatever an answer is put together from: by the
\* soundness of verifyInclusion an entry that verifies against a signed head is in
\* the tree that was signed.
THEOREM AnchoredWasRecorded == Spec => []AnchoredIsRecorded
<1>1. ASSUME Held PROVE AnchoredIsRecorded
  <2> SUFFICES ASSUME NEW answer \in Answers, NEW a \in Artifact, NEW d \in Issuer,
                      verifyAnchoring(a, answer, published, d) = "anchored"
               PROVE  /\ HostOwned(d) /\ ~LogId.host.dot /\ ~LogId.host.port =>
                           registrableDomain(LogId.host.name) # d
                      /\ \E h \in archive : /\ TreeHead(h.tree) = answer.signed_tree_head
                                            /\ h.key \in published
                                            /\ a \in ToSet(h.tree)
    BY DEF AnchoredIsRecorded
  <2> DEFINE sth == answer.signed_tree_head
             inc == answer.inclusion
  <2>a. verifySignedTreeHead(sth, answer.jws, published) # "anchored"
    BY DEF verifySignedTreeHead, JwsOutcome
  <2>1. /\ sth # None /\ inc # None /\ answer.jws # None
        /\ ~sameOperator(sth.log_id.host, d)
        /\ verifySignedTreeHead(sth, answer.jws, published) = "sth_valid"
        /\ verifyInclusion(hashLeaf(a), inc.leaf_index, inc.tree_size, inc.audit_path,
                           sth.root_hash)
    BY <2>a DEF verifyAnchoring
  <2>2. PICK h \in archive : TreeHead(h.tree) = sth /\ h.key \in published
    BY <2>1, ValidHeadIsArchived DEF Answers
  <2>3. sth.log_id = LogId /\ sth.root_hash = merkleTreeHash(h.tree)
    BY <2>2 DEF TreeHead
  <2>4. HostOwned(d) /\ ~LogId.host.dot /\ ~LogId.host.port =>
          registrableDomain(LogId.host.name) # d
    BY <2>1, <2>3, LogAssumption, OwnLogCaught DEF OwnLogIsCaught
  <2>5. Len(inc.audit_path) \in Nat
    <3>1. PICK t \in Moments : \E m \in 0 .. Len(t) - 1 : inc.audit_path = inclusionProof(m, t)
      BY <2>1 DEF Answers, Inclusions
    <3>2. t \in Seq(Artifact)
      BY <1>1 DEF Held, Recorded, Moments
    <3> QED
      BY <3>1, <3>2, InclusionProofType
  <2>6. PICK i \in 1 .. Len(h.tree) : h.tree[i] = a
    <3>1. Len(h.tree) \in Nat
      BY <1>1 DEF Held, Recorded
    <3> QED
      BY <2>1, <2>3, <2>5, <3>1, MembersOnly
  <2>7. a \in ToSet(h.tree)
    BY <1>1, <2>6 DEF Held, Recorded, ToSet
  <2> QED
    BY <2>2, <2>4, <2>7
<1> QED
  BY <1>1, HeldAlways, PTL

\* "A rewrite of history is cryptographically detectable against any earlier archived
\* STH": by the soundness of verifyConsistency, for a log of any size and age.
THEOREM RewriteDetected == Spec => []RewriteIsDetected
<1>1. ASSUME Held PROVE RewriteIsDetected
  <2> SUFFICES ASSUME NEW first \in archive, NEW second \in archive, NEW t \in Moments,
                      Len(first.tree) < Len(t),
                      Audit(first, second, t) = <<"consistent">>
               PROVE  IsPrefix(first.tree, second.tree)
    BY DEF RewriteIsDetected
  <2> DEFINE A == first.tree
             B == second.tree
             proof == consistencyProof(Len(A), t)
  <2>1. A \in Seq(Artifact) /\ B \in Seq(Artifact) /\ t \in Seq(Artifact)
    BY <1>1 DEF Held, Recorded, Moments
  <2>2. verifyConsistency(Len(A), Len(B), merkleTreeHash(A), merkleTreeHash(B), proof)
    BY DEF Audit, verifyConsistencyVector, TreeHead, Jws
  <2>3. Len(A) \in 1 .. Len(t)
    <3>1. Len(A) > 0
      BY <2>2 DEF verifyConsistency
    <3> QED
      BY <2>1, <3>1
  <2>4. proof \in Seq(Hashes(t))
    BY <2>1, <2>3, ConsistencyProofType
  <2> QED
    BY <2>1, <2>2, <2>4, AppendsOnly
<1> QED
  BY <1>1, HeldAlways, PTL

\* The signed head of an archived tree verifies while its key is published, and what
\* the log serves of it is there.
LEMMA ArchivedHeadIsValid ==
  ASSUME Held, NEW h \in archive, h.key \in published
  PROVE  /\ TreeHead(h.tree) # None /\ Jws(h) # None
         /\ \A m \in 0 .. Len(h.tree) - 1 : Inclusion(h.tree, m) # None
         /\ verifySignedTreeHead(TreeHead(h.tree), Jws(h), published) = "sth_valid"
<1>1. Recorded(h.tree) /\ h.key \in SigningKey
  BY DEF Held
<1>2. h.tree \in [1 .. Len(h.tree) -> Artifact] /\ Len(h.tree) \in 1 .. MaxSize
  BY <1>1 DEF Recorded
<1>3. h.tree \in UNION {[1 .. n -> Artifact] : n \in 1 .. MaxSize}
  BY <1>2
<1>4. Jws(Archived(h.tree, h.key)) = Jws(h)
  BY DEF Jws, Archived
<1>5. /\ TreeHead(h.tree) # None /\ Jws(h) # None
      /\ \A m \in 0 .. Len(h.tree) - 1 : Inclusion(h.tree, m) # None
  BY <1>1, <1>3, <1>4, NoneAssumption
<1>6. Jws(h).kid \in published /\ Jws(h).intact /\ Jws(h).payload = TreeHead(h.tree)
  BY DEF Jws
<1> QED
  BY <1>5, <1>6 DEF verifySignedTreeHead, JwsOutcome

\* verifyAnchoring refuses no record: an archived entry verifies by its audit path, in
\* a log of any size that the width admits.
THEOREM RecordedIsAccepted == Spec => []RecordedIsAnchored
<1>1. ASSUME Held PROVE RecordedIsAnchored
  <2> SUFFICES ASSUME NEW h \in archive, NEW m \in DOMAIN h.tree, NEW d \in Issuer,
                      h.key \in published, LogId.didWeb, ~sameOperator(LogId.host, d)
               PROVE  verifyAnchoring(h.tree[m], Answer(h, m - 1), published, d) = "anchored"
    BY DEF RecordedIsAnchored
  <2> DEFINE D == h.tree
             i == m - 1
             sth == TreeHead(D)
             answer == Answer(h, i)
  <2>1. D \in Seq(Artifact) /\ Len(D) \in 1 .. MaxSize
    BY <1>1 DEF Held, Recorded
  <2>2. m \in 1 .. Len(D) /\ i \in 0 .. Len(D) - 1 /\ i + 1 = m /\ Len(D) \in Nat
    BY <2>1
  <2>3. Len(D) <= TwoTo[Width - 1]
    BY <2>1, WithinWidth
  <2>4. verifyInclusion(hashLeaf(D[m]), i, Len(D), inclusionProof(i, D), merkleTreeHash(D))
    <3> HIDE DEF D, i
    <3> QED
      BY <2>2, <2>3, MembersVerify
  <2>5. /\ sth # None /\ Jws(h) # None /\ Inclusion(D, i) # None
        /\ verifySignedTreeHead(sth, Jws(h), published) = "sth_valid"
    BY <1>1, <2>2, ArchivedHeadIsValid
  <2>6. /\ answer.signed_tree_head = sth /\ answer.jws = Jws(h)
        /\ answer.inclusion = Inclusion(D, i)
    BY DEF Answer
  <2>7. sth.log_id = LogId /\ sth.root_hash = merkleTreeHash(D)
    BY DEF TreeHead
  <2>8. /\ Inclusion(D, i).leaf_index = i /\ Inclusion(D, i).tree_size = Len(D)
        /\ Inclusion(D, i).audit_path = inclusionProof(i, D)
    BY DEF Inclusion
  <2> HIDE DEF D, i, sth, answer
  <2>9. verifyAnchoring(D[m], answer, published, d) = "anchored"
    BY <2>4, <2>5, <2>6, <2>7, <2>8 DEF verifyAnchoring
  <2> QED
    BY <2>9 DEF D, i, answer
<1> QED
  BY <1>1, HeldAlways, PTL

\* A log that only grew is never accused: two archived heads audit as consistent by the
\* proof that consistencyProof gives over the larger tree.
THEOREM GrowthIsAccepted == Spec => []GrowthIsConsistent
<1>1. ASSUME Held PROVE GrowthIsConsistent
  <2> SUFFICES ASSUME NEW first \in archive, NEW second \in archive,
                      Len(first.tree) < Len(second.tree), IsPrefix(first.tree, second.tree),
                      first.key \in published, second.key \in published
               PROVE  Audit(first, second, second.tree) = <<"consistent">>
    BY DEF GrowthIsConsistent
  <2> DEFINE A == first.tree
             B == second.tree
             proof == consistencyProof(Len(A), B)
  <2>1. /\ A \in Seq(Artifact) /\ Len(A) \in 1 .. MaxSize
        /\ B \in Seq(Artifact) /\ Len(B) \in 1 .. MaxSize
    BY <1>1 DEF Held, Recorded
  <2>2. Len(B) <= TwoTo[Width - 1] /\ 0 < Len(A)
    BY <2>1, WithinWidth
  <2>3. verifyConsistency(Len(A), Len(B), merkleTreeHash(A), merkleTreeHash(B), proof)
    BY <2>1, <2>2, GrowthVerifies
  <2>4. /\ verifySignedTreeHead(TreeHead(A), Jws(first), published) = "sth_valid"
        /\ verifySignedTreeHead(TreeHead(B), Jws(second), published) = "sth_valid"
    BY <1>1, ArchivedHeadIsValid
  <2>5. Jws(first).payload = TreeHead(A) /\ Jws(second).payload = TreeHead(B)
    BY DEF Jws
  <2>6. /\ TreeHead(A).log_id = TreeHead(B).log_id
        /\ TreeHead(A).tree_size = Len(A) /\ TreeHead(A).root_hash = merkleTreeHash(A)
        /\ TreeHead(B).tree_size = Len(B) /\ TreeHead(B).root_hash = merkleTreeHash(B)
    BY DEF TreeHead
  <2> HIDE DEF A, B, proof
  <2>7. verifyConsistencyVector(
          [signed_tree_head |-> TreeHead(A), jws |-> Jws(first)],
          [signed_tree_head |-> TreeHead(B), jws |-> Jws(second)],
          [first_size |-> Len(A), second_size |-> Len(B), proof |-> proof], published)
        = <<"consistent">>
    BY <2>3, <2>4, <2>5, <2>6 DEF verifyConsistencyVector
  <2> QED
    BY <2>7 DEF Audit, A, B, proof
<1> QED
  BY <1>1, HeldAlways, PTL

-----------------------------------------------------------------------------
\* What verifyInclusion makes of a claim about a tree: MembersOnly, and at the tree's own
\* size AuditPathDecides.
LEMMA ClaimDecided == InputOK => OnlyMembersVerify /\ OnlyTheAuditPathVerifies
<1> SUFFICES ASSUME InputOK, subject = "claim", input[1].kind = "inclusion"
             PROVE  OnlyMembersVerify /\ OnlyTheAuditPathVerifies
  BY DEF OnlyMembersVerify, OnlyTheAuditPathVerifies
<1> DEFINE c == input[1]
           proof == input[2]
           D == c.tree
<1>1. PICK E, S : /\ proof \in Seq(S) /\ D \in Seq(E) /\ Len(D) <= TwoTo[Width - 1]
                  /\ c.size \in Nat /\ c.index \in 0 .. c.size - 1
  BY DEF InputOK, ClaimOK
<1>2. Len(D) \in Nat /\ Len(proof) \in Nat
  BY <1>1
<1>3. ASSUME c.size = Len(D)
      PROVE  Included(c, proof) <=>
               D[c.index + 1] = c.entry /\ proof = inclusionProof(c.index, D)
  <2>1. c.index \in 0 .. Len(D) - 1
    BY <1>1, <1>3
  <2> HIDE DEF c, proof, D
  <2>2. verifyInclusion(hashLeaf(c.entry), c.index, Len(D), proof, merkleTreeHash(D))
          <=> D[c.index + 1] = c.entry /\ proof = inclusionProof(c.index, D)
    BY <1>1, <1>2, <2>1, AuditPathDecides
  <2> QED
    BY <1>3, <2>2 DEF Included, D
<1>4. ASSUME Included(c, proof) PROVE c.entry \in ToSet(D)
  <2> HIDE DEF c, proof
  <2>1. \E i \in 1 .. Len(D) : D[i] = c.entry
    BY <1>2, <1>4, MembersOnly DEF Included
  <2> QED
    BY <1>1, <2>1 DEF ToSet
<1>5. OnlyMembersVerify
  BY <1>3, <1>4 DEF OnlyMembersVerify
<1>6. OnlyTheAuditPathVerifies
  BY <1>3 DEF OnlyTheAuditPathVerifies
<1> QED
  BY <1>5, <1>6

\* verifyInclusion accepts members only, whatever index, size and hashes are stated.
THEOREM MembershipDecided == InputOK => OnlyMembersVerify
BY ClaimDecided

\* At the tree's own size it accepts the path of inclusionProof, and that path only.
THEOREM PathDecided == InputOK => OnlyTheAuditPathVerifies
BY ClaimDecided

\* An append of the first tree verifies by its own proof, and nothing else does.
THEOREM AppendsDecided == InputOK => OnlyAppendsVerify
<1> SUFFICES ASSUME InputOK, subject = "claim", input[1].kind = "consistency"
             PROVE  OnlyAppendsVerify
  BY DEF OnlyAppendsVerify
<1> DEFINE c == input[1]
           proof == input[2]
<1>1. PICK E, S : /\ proof \in Seq(S) /\ c.tree \in Seq(E) /\ Len(c.tree) <= TwoTo[Width - 1]
                  /\ c.first \in Seq(E) /\ Len(c.first) \in 1 .. Len(c.tree) - 1
  BY DEF InputOK, ClaimOK
<1>2. 0 < Len(c.first) /\ Len(c.first) < Len(c.tree)
  BY <1>1
<1> HIDE DEF c, proof
<1>3. verifyConsistency(Len(c.first), Len(c.tree), merkleTreeHash(c.first),
                        merkleTreeHash(c.tree), proof)
        <=> IsPrefix(c.first, c.tree) /\ proof = consistencyProof(Len(c.first), c.tree)
  BY <1>1, <1>2, ConsistencyProofDecides
<1> QED
  BY <1>3 DEF OnlyAppendsVerify, c, proof

-----------------------------------------------------------------------------
\* The least member of a set of indices.
LEMMA Least ==
  ASSUME NEW N \in Nat, NEW T \in SUBSET (1 .. N), T # {}
  PROVE  Min(T) \in T /\ \A t \in T : Min(T) <= t
<1>0. T \subseteq Nat
  OBVIOUS
<1>1. PICK x \in T : \A y \in T : ~(<<y, x>> \in OpToRel(<, Nat))
  BY <1>0, NatLessThanWellFounded, WFMin
<1>2. \A y \in T : ~(y < x)
  BY <1>0, <1>1 DEF OpToRel
<1>3. \A y \in T : x =< y
  BY <1>0, <1>2
<1> QED
  BY <1>1, <1>3 DEF Min

\* The entry of a key set that its first match of a kid is.
FirstNamed(set, kid) == SelectInSeq(set, LAMBDA e : e.kid = kid)

\* Nothing before it has the kid.
LEMMA FirstNamedProperties ==
  ASSUME NEW S, NEW set \in Seq(S), NEW kid
  PROVE  /\ FirstNamed(set, kid) \in 0 .. Len(set)
         /\ FirstNamed(set, kid) = 0 => \A i \in 1 .. Len(set) : set[i].kid # kid
         /\ FirstNamed(set, kid) # 0 =>
              /\ set[FirstNamed(set, kid)].kid = kid
              /\ \A i \in 1 .. Len(set) : set[i].kid = kid => FirstNamed(set, kid) <= i
<1> DEFINE T == {i \in 1 .. Len(set) : set[i].kid = kid}
<1>1. FirstNamed(set, kid) = IF T # {} THEN Min(T) ELSE 0
  BY DEF FirstNamed, SelectInSeq
<1>2. T \in SUBSET (1 .. Len(set)) /\ Len(set) \in Nat
  OBVIOUS
<1>3. CASE T = {}
  BY <1>1, <1>2, <1>3
<1>4. CASE T # {}
  <2>1. Min(T) \in T /\ \A t \in T : Min(T) <= t
    <3> HIDE DEF T
    <3> QED
      BY <1>2, <1>4, Least
  <2> QED
    BY <1>1, <1>2, <1>4, <2>1
<1> QED
  BY <1>3, <1>4

\* What ends the library's search: a candidate that verifies or cannot be imported.
EndsSearch(jws, e) ==
  (e.okp /\ e.kid = Trimmed(jws.kid)) /\ (e.key = Broken \/ Verifies(jws, e))

EndOfSearch(jws, set) == SelectInSeq(set, LAMBDA e : EndsSearch(jws, e))

\* The library stops at the first entry that verifies or cannot be imported.
LEMMA EndOfSearchProperties ==
  ASSUME NEW jws, NEW S, NEW set \in Seq(S)
  PROVE  /\ EndOfSearch(jws, set) \in 0 .. Len(set)
         /\ EndOfSearch(jws, set) = 0 => \A i \in 1 .. Len(set) : ~EndsSearch(jws, set[i])
         /\ EndOfSearch(jws, set) # 0 =>
              /\ EndsSearch(jws, set[EndOfSearch(jws, set)])
              /\ \A i \in 1 .. Len(set) : EndsSearch(jws, set[i]) => EndOfSearch(jws, set) <= i
<1> DEFINE T == {i \in 1 .. Len(set) : EndsSearch(jws, set[i])}
<1>1. EndOfSearch(jws, set) = IF T # {} THEN Min(T) ELSE 0
  BY DEF EndOfSearch, SelectInSeq
<1>2. T \in SUBSET (1 .. Len(set)) /\ Len(set) \in Nat
  OBVIOUS
<1>3. CASE T = {}
  BY <1>1, <1>2, <1>3
<1>4. CASE T # {}
  <2>1. Min(T) \in T /\ \A t \in T : Min(T) <= t
    <3> HIDE DEF T
    <3> QED
      BY <1>2, <1>4, Least
  <2> QED
    BY <1>1, <1>2, <1>4, <2>1
<1> QED
  BY <1>3, <1>4

\* When the library's verifier accepts.
LEMMA LibraryAccepts ==
  ASSUME NEW jws, NEW set \in Seq(EntryType), jws.header \in {"object", "broken"}, jws.kid \in Kid
  PROVE  verifyCompactJws(jws, set) = "verified" <=> HoldsUnder(jws, set)
<1> DEFINE kid == Trimmed(jws.kid)
           f == EndOfSearch(jws, set)
           IsCandidate(e) == e.okp /\ e.kid = kid
<1>1. /\ f \in 0 .. Len(set)
      /\ f = 0 => \A i \in 1 .. Len(set) : ~EndsSearch(jws, set[i])
      /\ f # 0 => /\ EndsSearch(jws, set[f])
                  /\ \A i \in 1 .. Len(set) : EndsSearch(jws, set[i]) => f <= i
  BY EndOfSearchProperties
<1>2. f = SelectInSeq(set, LAMBDA e : IsCandidate(e) /\ (e.key = Broken \/ Verifies(jws, e)))
  BY DEF EndOfSearch, EndsSearch, SelectInSeq
<1>3. verifyCompactJws(jws, set) =
        IF jws.parts # 3 \/ jws.header = "broken" \/ jws.payload \in {Scalar, Broken}
        THEN "malformed"
        ELSE IF ~jws.eddsa THEN "unsupported_alg"
        ELSE IF kid = NoKid THEN "no_kid"
        ELSE IF ~\E i \in DOMAIN set : IsCandidate(set[i]) THEN "no_matching_key"
        ELSE IF f = 0 THEN "verification_failed"
        ELSE IF set[f].key = Broken THEN "unimportable_key" ELSE "verified"
  BY <1>2 DEF verifyCompactJws
<1>4. kid = NoKid <=> jws.kid = NoKid
  BY JwsAssumption DEF Trimmed, Kid
<1>5. DOMAIN set = 1 .. Len(set) /\ Len(set) \in Nat
  OBVIOUS
<1> HIDE DEF f
<1>6. ASSUME HoldsUnder(jws, set) PROVE verifyCompactJws(jws, set) = "verified"
  <2>1. PICK i \in DOMAIN set :
          /\ set[i].okp /\ set[i].kid = kid
          /\ set[i].key = jws.signer /\ jws.signer # Broken
          /\ \A j \in 1 .. i : set[j].okp /\ set[j].kid = kid => set[j].key # Broken
    BY <1>6 DEF HoldsUnder
  <2>2. f # 0 /\ f <= i
    BY <1>1, <1>5, <2>1 DEF EndsSearch, Verifies
  <2>3. set[f].key # Broken
    BY <1>1, <1>5, <2>1, <2>2 DEF EndsSearch
  <2> QED
    BY <1>3, <1>4, <1>6, <2>1, <2>2, <2>3 DEF HoldsUnder
<1>7. ASSUME verifyCompactJws(jws, set) = "verified" PROVE HoldsUnder(jws, set)
  <2>1. f # 0 /\ set[f].key # Broken
    BY <1>3, <1>7
  <2>2. \A j \in 1 .. f : set[j].okp /\ set[j].kid = kid => set[j].key # Broken
    BY <1>1, <1>5, <2>1 DEF EndsSearch
  <2>3. /\ f \in DOMAIN set /\ set[f].okp /\ set[f].kid = kid
        /\ set[f].key = jws.signer /\ jws.signer # Broken
    BY <1>1, <1>5, <2>1 DEF EndsSearch, Verifies
  <2>4. /\ jws.parts = 3 /\ jws.header = "object" /\ jws.eddsa
        /\ jws.payload \notin {Scalar, Broken} /\ jws.kid # NoKid
    BY <1>3, <1>4, <1>7
  <2> QED
    BY <2>2, <2>3, <2>4 DEF HoldsUnder
<1> QED
  BY <1>6, <1>7

-----------------------------------------------------------------------------
\* How the vectors' verifier decides by the first entry of the kid.
LEMMA Decided ==
  ASSUME NEW jws, NEW set \in Seq(EntryType), NEW missing
  PROVE  LET f == FirstNamed(set, jws.kid)
         IN  DecideByEntry(jws, set, missing) =
               IF f = 0 THEN missing
               ELSE IF ~set[f].okp \/ set[f].key = Broken THEN "unsupported_key"
               ELSE IF ~Verifies(jws, set[f]) THEN "signature_mismatch"
               ELSE IF jws.payload = Broken THEN "malformed_payload" ELSE "valid"
BY DEF DecideByEntry, FirstNamed

\* verifyCompactJws of lib/vrp-jws.mjs and the two verifiers of conformance.mjs agree, on
\* every JWS and key set with one entry a kid, and that of verify-stayintent.mjs with
\* them, on every kid that the set lists, up to what it does not read.
THEOREM VerifiersAgree == InputOK => SelectorsAgree
<1> SUFFICES ASSUME InputOK, subject = "jws" PROVE SelectorsAgree
  BY DEF SelectorsAgree
<1> DEFINE jws == input[1]
           set == input[2]
           lib == verifyCompactJws(jws, set) = "verified"
           vector == verifyVectorJws(jws, set) = "valid"
           node == verifyNodeOffer(jws, set)
           named == \E i \in DOMAIN set : set[i].kid = jws.kid
           f == FirstNamed(set, jws.kid)
<1>1. jws \in JwsType /\ set \in Seq(EntryType)
  BY DEF InputOK
<1> SUFFICES ASSUME \A i, j \in DOMAIN set : set[i].kid = set[j].kid => i = j,
                    jws.kid # NoKid, jws.kid = Trimmed(jws.kid)
             PROVE  /\ jws.payload # Scalar => (lib <=> vector)
                    /\ vector /\ jws.typ = "vc+jwt" <=> verifyAttestationJws(jws, set) = "valid"
                    /\ ~named => ~lib /\ ~vector
                    /\ lib => node = "true"
                    /\ named /\ node = "true" /\ ~lib =>
                         ~jws.eddsa \/ jws.parts = 4 \/ jws.payload \in {Scalar, Broken}
  BY DEF SelectorsAgree
<1>2. /\ jws.parts \in {2, 3, 4} /\ jws.header \in {"object", "broken"} /\ jws.kid \in Kid
      /\ jws.eddsa \in BOOLEAN /\ jws # NoJws
  BY <1>1, JwsAssumption DEF JwsType, JwsOf
<1>3. DOMAIN set = 1 .. Len(set) /\ Len(set) \in Nat
  BY <1>1
<1>4. /\ f \in 0 .. Len(set)
      /\ f = 0 => \A i \in 1 .. Len(set) : set[i].kid # jws.kid
      /\ f # 0 => set[f].kid = jws.kid
  BY <1>1, FirstNamedProperties
<1>5. lib <=> HoldsUnder(jws, set)
  BY <1>1, <1>2, LibraryAccepts
<1>6. vector <=> /\ jws.parts = 3 /\ jws.header # "broken" /\ jws.eddsa
                 /\ f # 0 /\ set[f].okp /\ set[f].key # Broken /\ Verifies(jws, set[f])
                 /\ jws.payload # Broken
  BY <1>1, Decided DEF verifyVectorJws
<1>7. verifyAttestationJws(jws, set) = "valid" <=>
        /\ jws.parts = 3 /\ jws.header # "broken" /\ jws.typ = "vc+jwt" /\ jws.eddsa
        /\ f # 0 /\ set[f].okp /\ set[f].key # Broken /\ Verifies(jws, set[f])
        /\ jws.payload # Broken
  BY <1>1, Decided DEF verifyAttestationJws
<1> DEFINE e == IF f # 0 THEN f ELSE 1
<1>8. node = "true" <=> /\ jws.header # "broken" /\ jws.parts # 2 /\ set # <<>>
                        /\ set[e].okp /\ set[e].key # Broken /\ Verifies(jws, set[e])
  BY <1>2 DEF verifyNodeOffer, FirstNamed
<1> HIDE DEF f, jws, set, node
<1>9. HoldsUnder(jws, set) <=>
        /\ jws.parts = 3 /\ jws.header # "broken" /\ jws.eddsa
        /\ jws.payload \notin {Scalar, Broken}
        /\ f # 0 /\ set[f].okp /\ set[f].key # Broken /\ Verifies(jws, set[f])
  <2>1. ASSUME HoldsUnder(jws, set)
        PROVE  f # 0 /\ set[f].okp /\ set[f].key # Broken /\ Verifies(jws, set[f])
    <3>1. PICK i \in DOMAIN set : /\ set[i].okp /\ set[i].kid = jws.kid
                                  /\ set[i].key = jws.signer /\ jws.signer # Broken
      BY <2>1 DEF HoldsUnder
    <3>2. f = i
      BY <1>3, <1>4, <3>1
    <3> QED
      BY <3>1, <3>2, <1>3 DEF Verifies
  <2>2. ASSUME f # 0, set[f].okp, set[f].key # Broken, Verifies(jws, set[f]),
               jws.parts = 3, jws.header # "broken", jws.eddsa,
               jws.payload \notin {Scalar, Broken}
        PROVE  HoldsUnder(jws, set)
    <3>1. f \in DOMAIN set /\ \A j \in 1 .. f : set[j].kid = jws.kid => j = f
      BY <1>3, <1>4, <2>2
    <3>2. set[f].key = jws.signer /\ jws.signer # Broken
      BY <2>2 DEF Verifies
    <3> QED
      BY <1>2, <1>4, <2>2, <3>1, <3>2 DEF HoldsUnder
  <2> QED
    BY <1>2, <2>1, <2>2 DEF HoldsUnder
<1>10. (f # 0 <=> named) /\ (f # 0 => set # <<>>)
  BY <1>3, <1>4
<1> HIDE DEF named, lib, vector
<1>12. jws.payload # Scalar => (lib <=> vector)
  BY <1>5, <1>6, <1>9
<1>13. vector /\ jws.typ = "vc+jwt" <=> verifyAttestationJws(jws, set) = "valid"
  BY <1>6, <1>7
<1>11. ~named => ~lib /\ ~vector
  BY <1>5, <1>6, <1>9, <1>10
<1>14. lib => node = "true"
  BY <1>2, <1>5, <1>8, <1>9, <1>10
<1>15. named /\ node = "true" /\ ~lib =>
         ~jws.eddsa \/ jws.parts = 4 \/ jws.payload \in {Scalar, Broken}
  BY <1>2, <1>5, <1>8, <1>9, <1>10
<1> QED
  BY <1>11, <1>12, <1>13, <1>14, <1>15

-----------------------------------------------------------------------------
\* verifyReceipt of lib/vrp-receipt.mjs: a receipt is fully verified exactly when each
\* of its attestations holds, whatever the others are, for every receipt and instant.
THEOREM EachAttestationCounts == InputOK => FullyVerifiedMeansEach
<1> SUFFICES ASSUME InputOK, subject = "receipt" PROVE FullyVerifiedMeansEach
  BY DEF FullyVerifiedMeansEach
<1> DEFINE receipt == input[1]
           now == input[2]
           verdict == verifyReceipt(receipt, now)
           atts == receipt.attestations
           Holds(a) == /\ a.from # Absent /\ a.until # Absent /\ now \in a.from .. a.until
                       /\ a.signature # Absent /\ a.jwks # Absent
                       /\ HoldsUnder(a.signature, a.jwks)
           One(i) == [receipt EXCEPT !.attestations = <<@[i]>>]
<1>1. receipt \in ReceiptType /\ now \in Int
  BY DEF InputOK
<1>2. atts \in Seq(AttestationType) /\ DOMAIN atts = 1 .. Len(atts) /\ Len(atts) \in Nat
  BY <1>1 DEF ReceiptType
<1>3. ASSUME NEW i \in DOMAIN atts
      PROVE  verifyAttestation(atts[i], now) = "verified" <=> Holds(atts[i])
  <2> DEFINE a == atts[i]
  <2>1. a \in AttestationType
    BY <1>2
  <2>2. /\ a.from # Absent => a.from \in Int
        /\ a.until # Absent => a.until \in Int
        /\ a.signature # Absent => a.signature \in JwsType
        /\ a.jwks # Absent => a.jwks \in Seq(EntryType)
    BY <2>1 DEF AttestationType
  <2>3. a.signature # Absent /\ a.jwks # Absent =>
          (verifyCompactJws(a.signature, a.jwks) = "verified" <=> HoldsUnder(a.signature, a.jwks))
    BY <2>2, LibraryAccepts DEF JwsType, JwsOf
  <2> HIDE DEF a
  <2>4. verifyAttestation(a, now) = "verified" <=> Holds(a)
    BY <1>1, <2>2, <2>3 DEF verifyAttestation
  <2> QED
    BY <2>4 DEF a
<1>4. ASSUME NEW i \in DOMAIN atts
      PROVE  Status(verifyAttestation(atts[i], now)) = "verified" <=>
               verifyAttestation(atts[i], now) = "verified"
  <2>1. verifyAttestation(atts[i], now) \in
          {"missing_validity_window", "layer_unverifiable", "key_unresolvable", "sig_invalid",
           "not_yet_valid", "sig_expired", "verified"}
    BY DEF verifyAttestation
  <2> QED
    BY <2>1 DEF Status
<1> DEFINE outcomes == [i \in DOMAIN atts |-> verifyAttestation(atts[i], now)]
<1>5. /\ validateReceiptShape(receipt) =>
           /\ verdict.receipt_valid /\ verdict.attestations = outcomes
           /\ verdict.fully_verified <=>
                \A i \in DOMAIN outcomes : Status(outcomes[i]) = "verified"
      /\ ~validateReceiptShape(receipt) =>
           ~verdict.receipt_valid /\ ~verdict.fully_verified /\ verdict.attestations = <<>>
  BY DEF verifyReceipt, validateReceiptShape, Refused
<1>6. verdict.fully_verified <=> validateReceiptShape(receipt) /\ \A i \in DOMAIN atts : Holds(atts[i])
  BY <1>3, <1>4, <1>5
<1>7. ASSUME validateReceiptShape(receipt), NEW i \in DOMAIN atts
      PROVE  verdict.attestations[i] = verifyReceipt(One(i), now).attestations[1]
  <2>1. /\ One(i).object = receipt.object /\ One(i).version = receipt.version
        /\ One(i).complete = receipt.complete /\ One(i).attestations = <<atts[i]>>
    BY <1>1 DEF ReceiptType
  <2>2. DOMAIN <<atts[i]>> = {1} /\ <<atts[i]>>[1] = atts[i] /\ <<atts[i]>> # <<>>
    OBVIOUS
  <2> HIDE DEF atts
  <2>3. validateReceiptShape(One(i))
    BY <1>7, <2>1, <2>2 DEF validateReceiptShape, atts
  <2>4. verifyReceipt(One(i), now).attestations[1] = verifyAttestation(atts[i], now)
    <3> HIDE DEF One
    <3>1. verifyReceipt(One(i), now).attestations =
            [j \in DOMAIN One(i).attestations |-> verifyAttestation(One(i).attestations[j], now)]
      BY <2>3 DEF verifyReceipt, validateReceiptShape
    <3> QED
      BY <2>1, <2>2, <3>1
  <2> QED
    BY <1>5, <1>7, <2>4
<1> QED
  BY <1>5, <1>6, <1>7 DEF FullyVerifiedMeansEach

-----------------------------------------------------------------------------
\* The vectors' verifier accepts an offer signed with the published key, and none
\* that was tampered with.
LEMMA FixtureSignature ==
  ASSUME NEW fixture \in FixtureType
  PROVE  /\ verifyVectorJws(compactJwsForFixture(fixture), TestJwks) = "valid" <=>
              ~fixture.tampered
         /\ ~fixture.tampered => compactJwsForFixture(fixture).payload = fixture.offer
<1> DEFINE jws == compactJwsForFixture(fixture)
           offer == fixture.offer
           f == FirstNamed(TestJwks, jws.kid)
<1>1. offer \in FactsType /\ fixture.tampered \in BOOLEAN
  BY DEF FixtureType
<1>2. /\ jws.parts = 3 /\ jws.header = "object" /\ jws.eddsa /\ jws.kid = TestKid
      /\ jws.signer = IF fixture.tampered THEN Broken ELSE TestKey
      /\ ~fixture.tampered => jws.payload = offer
  BY <1>1 DEF compactJwsForFixture, signOffer, Signed, Tampered
<1>3. TestKid \in Kid /\ TestKey \in Key /\ TestKey # Broken /\ offer # Broken
  BY <1>1, VectorsAssumption DEF TestKid, Kid
<1>4. /\ TestJwks \in Seq(EntryType) /\ Len(TestJwks) = 1
      /\ TestJwks[1].kid = TestKid /\ TestJwks[1].okp /\ TestJwks[1].key = TestKey
  BY <1>3 DEF TestJwks, EntryType
<1>5. f = 1
  BY <1>2, <1>4, FirstNamedProperties
<1> HIDE DEF jws, f
<1>6. verifyVectorJws(jws, TestJwks) = "valid" <=>
        Verifies(jws, TestJwks[1]) /\ jws.payload # Broken
  BY <1>2, <1>3, <1>4, <1>5, Decided DEF verifyVectorJws, f
<1>7. Verifies(jws, TestJwks[1]) <=> ~fixture.tampered
  BY <1>2, <1>3, <1>4 DEF Verifies
<1> QED
  BY <1>2, <1>3, <1>6, <1>7 DEF jws

\* What a verdict that only knows some facts says of the others.
LEMMA UnknownFacts ==
  ASSUME NEW facts, NEW known
  PROVE  LET v == Unknown(facts, known)
         IN  /\ v.fetch /\ ~v.quote /\ ~v.cite
             /\ \A f \in DOMAIN v.facts : f \notin DOMAIN known => v.facts[f] = "unknown"
BY DEF Unknown

\* evaluateFixture of verify-three-state-fixtures.mjs says nothing of an offer beyond what
\* its signature, its freshness and its own members carry, for every fixture and every
\* instant.
THEOREM SilenceIsUnknown == InputOK => NothingIsInferred
<1> SUFFICES ASSUME InputOK, subject = "fixture" PROVE NothingIsInferred
  BY DEF NothingIsInferred
<1> DEFINE fixture == input[1]
           now == input[2]
           offer == fixture.offer
           result == evaluateFixture(fixture, now)
           current == /\ fixture.kind = "signed_offer" /\ ~fixture.tampered
                      /\ TimeReasons(offer, now) \cap {"malformed_valid_until", "expired"} = {}
           Says == /\ result.fetch <=> ~current
                   /\ result.fetch => /\ ~result.quote /\ ~result.cite
                                      /\ \A f \in DOMAIN result.facts :
                                           f \notin {"signature", "offer_freshness"} =>
                                             result.facts[f] = "unknown"
                   /\ ~(result.quote /\ result.cite)
                   /\ result.quote => \A f \in DOMAIN result.facts : result.facts[f] = "affirmed"
<1> SUFFICES Says
  BY DEF NothingIsInferred
<1>1. /\ fixture \in FixtureType /\ now \in Int /\ offer \in FactsType
      /\ fixture.kind \in {"discovery_timeout", "signed_offer"} /\ offer.valid_until \in Instant
  BY DEF InputOK, FixtureType, FactsType
<1>2. TimeReasons(offer, now) \cap {"malformed_valid_until", "expired"} = {} <=>
        Fresh(offer.valid_until, now)
  <2>1. "malformed_valid_until" \in TimeReasons(offer, now) <=> offer.valid_until = Malformed
    BY DEF TimeReasons
  <2>2. "expired" \in TimeReasons(offer, now) <=>
          offer.valid_until # Malformed /\ offer.valid_until <= now
    BY DEF TimeReasons
  <2>3. offer.valid_until # Malformed => offer.valid_until \in Int
    BY <1>1 DEF Instant
  <2> HIDE DEF offer, now
  <2>4. offer.valid_until # Malformed => (offer.valid_until <= now <=> ~(offer.valid_until > now))
    BY <1>1, <2>3
  <2> QED
    BY <2>1, <2>2, <2>4 DEF Fresh
<1> HIDE DEF offer, now, fixture
<1>3. CASE fixture.kind = "discovery_timeout"
  <2>1. result = Unknown({"canonical_domain", "verified_stay_offer_endpoint", "availability",
                          "price", "direct_booking_url"}, <<>>)
    BY <1>3 DEF evaluateFixture, unknownResultForNoResponse
  <2>2. \A f \in DOMAIN result.facts : result.facts[f] = "unknown"
    BY <2>1 DEF Unknown
  <2> QED
    BY <1>3, <2>1, <2>2, UnknownFacts
<1>4. CASE fixture.kind = "signed_offer" /\ fixture.tampered
  <2>1. result = Unknown(Quotable \cup {"agent_permission"}, [signature |-> "negated"])
    BY <1>1, <1>4, FixtureSignature DEF evaluateFixture
  <2>2. DOMAIN [signature |-> "negated"] = {"signature"}
    OBVIOUS
  <2> QED
    BY <1>4, <2>1, <2>2, UnknownFacts
<1>5. CASE fixture.kind = "signed_offer" /\ ~fixture.tampered /\ ~Fresh(offer.valid_until, now)
  <2>1. result = Unknown(Quotable, [signature |-> "affirmed", offer_freshness |-> "negated"])
    BY <1>1, <1>5, FixtureSignature DEF evaluateFixture, offer
  <2>2. DOMAIN [signature |-> "affirmed", offer_freshness |-> "negated"] =
          {"signature", "offer_freshness"}
    OBVIOUS
  <2> QED
    BY <1>2, <1>5, <2>1, <2>2, UnknownFacts
<1>6. CASE fixture.kind = "signed_offer" /\ ~fixture.tampered /\ Fresh(offer.valid_until, now)
  <2>1. result = Judged(offer)
    BY <1>1, <1>6, FixtureSignature DEF evaluateFixture, offer
  <2>2. ~result.fetch /\ current
    BY <1>2, <1>6, <2>1 DEF Judged
  <2>a. offer.exact \in BOOLEAN /\ offer.whole \in BOOLEAN /\ offer.permission \in BOOLEAN
        /\ offer.https \in BOOLEAN
    BY <1>1 DEF FactsType
  <2>b. /\ result.quote <=> /\ offer.available = "true" /\ offer.exact /\ offer.whole
                            /\ offer.permission /\ offer.https
        /\ result.cite <=> offer.available = "false"
    <3> HIDE DEF result
    <3> QED
      BY <2>1, <2>a DEF Judged
  <2>3. ~(result.quote /\ result.cite)
    BY <2>b
  <2>4. ASSUME result.quote, NEW f \in DOMAIN result.facts
        PROVE  result.facts[f] = "affirmed"
    <3>1. /\ offer.available = "true" /\ offer.exact /\ offer.whole /\ offer.permission
          /\ offer.https
      BY <2>b, <2>4
    <3>2. result.facts = [signature |-> "affirmed", offer_freshness |-> "affirmed",
                          available |-> "affirmed", price |-> "affirmed",
                          direct_booking_url |-> "affirmed", agent_permission |-> "affirmed"]
      BY <2>1, <3>1 DEF Judged
    <3> HIDE DEF result
    <3> QED
      BY <2>4, <3>2
  <2> QED
    BY <2>2, <2>3, <2>4
<1> QED
  BY <1>1, <1>3, <1>4, <1>5, <1>6

-----------------------------------------------------------------------------
\* The last k labels of a name.
LastLabels(name, k) == SubSeq(name, Len(name) - k + 1, Len(name))

\* They are a name that the whole name ends with.
LEMMA LastLabelsProperties ==
  ASSUME NEW name \in Seq(STRING), NEW k \in 1 .. Len(name)
  PROVE  /\ LastLabels(name, k) \in Seq(STRING)
         /\ Len(LastLabels(name, k)) = k
         /\ Ends(LastLabels(name, k), name)
<1> DEFINE N == Len(name)
           t == LastLabels(name, k)
<1>1. N \in Nat /\ k \in Nat /\ N - k + 1 \in 1 .. N /\ \A i \in N - k + 1 .. N : name[i] \in STRING
  OBVIOUS
<1>2. /\ t \in Seq(STRING)
      /\ Len(t) = IF N - k + 1 <= N THEN N - (N - k + 1) + 1 ELSE 0
      /\ \A i \in 1 .. N - (N - k + 1) + 1 : t[i] = name[N - k + 1 + i - 1]
  <2> HIDE DEF N
  <2> QED
    BY <1>1, SubSeqProperties DEF LastLabels, N
<1>3. Len(t) = k
  BY <1>1, <1>2
<1>4. ASSUME NEW i \in 1 .. k PROVE t[i] = name[N - k + i]
  <2>1. N - (N - k + 1) + 1 = k /\ N - k + 1 + i - 1 = N - k + i
    BY <1>1
  <2> QED
    BY <1>2, <2>1
<1> QED
  BY <1>1, <1>2, <1>3, <1>4 DEF Ends

\* Every suffix of a name is its last k labels.
LEMMA NonemptySuffixes ==
  ASSUME NEW name \in Seq(STRING)
  PROVE  Suffixes(name) \ {<<>>} = {LastLabels(name, k) : k \in 1 .. Len(name)}
<1>1. ASSUME NEW k \in 1 .. Len(name) PROVE LastLabels(name, k) \in Suffixes(name) \ {<<>>}
  <2>1. LastLabels(name, k) # <<>>
    BY LastLabelsProperties
  <2>2. Len(name) - k + 1 \in 1 .. Len(name)
    OBVIOUS
  <2> QED
    BY <2>1, <2>2 DEF LastLabels, Suffixes
<1>2. ASSUME NEW s \in Suffixes(name) \ {<<>>}
      PROVE  \E k \in 1 .. Len(name) : s = LastLabels(name, k)
  <2>1. PICK l \in 1 .. Len(name) : s = SubSeq(name, l, Len(name))
    BY DEF Suffixes
  <2>2. Len(name) - l + 1 \in 1 .. Len(name) /\ Len(name) - (Len(name) - l + 1) + 1 = l
    OBVIOUS
  <2> QED
    BY <2>1, <2>2 DEF LastLabels
<1> QED
  BY <1>1, <1>2

\* The tail of the last k labels is the last k - 1.
LEMMA TailOfLastLabels ==
  ASSUME NEW name \in Seq(STRING), NEW k \in 2 .. Len(name)
  PROVE  Tail(LastLabels(name, k)) = LastLabels(name, k - 1)
<1> DEFINE t == LastLabels(name, k)
           u == LastLabels(name, k - 1)
<1>1. /\ k \in 1 .. Len(name) /\ k - 1 \in 1 .. Len(name) /\ Len(name) \in Nat
      /\ k \in Nat
  OBVIOUS
<1>2. /\ t \in Seq(STRING) /\ Len(t) = k /\ t # <<>>
      /\ \A i \in 1 .. k : t[i] = name[Len(name) - k + i]
  <2>1. t \in Seq(STRING) /\ Len(t) = k /\ Ends(t, name)
    BY <1>1, LastLabelsProperties
  <2> HIDE DEF t
  <2> QED
    BY <1>1, <2>1 DEF Ends
<1>3. /\ u \in Seq(STRING) /\ Len(u) = k - 1
      /\ \A i \in 1 .. k - 1 : u[i] = name[Len(name) - (k - 1) + i]
  BY <1>1, LastLabelsProperties DEF Ends
<1> HIDE DEF t, u
<1>4. /\ Tail(t) \in Seq(STRING) /\ Len(Tail(t)) = k - 1
      /\ \A i \in 1 .. k - 1 : Tail(t)[i] = t[i + 1]
  BY <1>2, HeadTailProperties
<1>5. ASSUME NEW i \in 1 .. k - 1 PROVE Tail(t)[i] = u[i]
  <2>1. i + 1 \in 1 .. k /\ Len(name) - k + (i + 1) = Len(name) - (k - 1) + i
    BY <1>1
  <2> QED
    <3>1. Tail(t)[i] = name[Len(name) - k + (i + 1)]
      BY <1>2, <1>4, <2>1
    <3>2. u[i] = name[Len(name) - (k - 1) + i]
      BY <1>3
    <3> QED
      BY <2>1, <3>1, <3>2
<1>6. Tail(t) = u
  BY <1>3, <1>4, <1>5, SeqEqual
<1> QED
  BY <1>6 DEF t, u

\* A rule of k labels matches the last k labels of the names it matches.
LEMMA MatchesLast ==
  ASSUME NEW name \in Seq(STRING), NEW k \in 1 .. Len(name), NEW r \in Rules, Len(r.labels) = k
  PROVE  Matches(r, LastLabels(name, k)) <=> Matches(r, name)
BY LastLabelsProperties, MatchesEnd

\* registrableDomain of verify-host-domain.mjs computes what the words of the Public
\* Suffix List say, for every list of rules and every name.
THEOREM ListIsKept == InputOK => AgreesWithTheList
<1> SUFFICES ASSUME NEW name \in Seq(STRING), name # <<>>
             PROVE  Owner(name) = (IF registrableDomain(name) = <<>> THEN {}
                                   ELSE {registrableDomain(name)})
  BY DEF InputOK, AgreesWithTheList
<1> DEFINE N == Len(name)
           n == publicSuffixLength(name)
           t(k) == LastLabels(name, k)
           S == {t(k) : k \in 1 .. N}
           exempt == {s \in S : Excepted(s)}
           public == {s \in S : IsPublicSuffix(s)}
           owners == {s \in S : Tail(s) \in public /\ \A p \in public : Len(p) < Len(s)}
           domain == IF registrableDomain(name) = <<>> THEN {} ELSE {registrableDomain(name)}
<1>1. Owner(name) = IF exempt # {} THEN exempt ELSE owners
  BY NonemptySuffixes DEF Owner
<1>2. N \in Nat /\ N >= 1 /\ n \in 0 .. N
  BY SuffixLength
<1>3. \A k \in 1 .. N : Len(t(k)) = k
  BY LastLabelsProperties
<1>4. \A k \in 1 .. N : Excepted(t(k)) <=>
         \E r \in Rules : r.ex /\ Len(r.labels) = k /\ Matches(r, name)
  BY <1>3, MatchesLast DEF Excepted
<1>5. \A k \in 1 .. N : IsPublicSuffix(t(k)) <=>
         k = 1 \/ \E r \in Rules : ~r.ex /\ Len(r.labels) = k /\ Matches(r, name)
  BY <1>3, MatchesLast DEF IsPublicSuffix
<1>6. domain = IF n < N THEN {t(n + 1)} ELSE {}
  <2>1. registrableDomain(name) = IF N > n THEN SubSeq(name, N - n, N) ELSE <<>>
    BY DEF registrableDomain
  <2>2. N - (n + 1) + 1 = N - n
    BY <1>2
  <2>3. N > n => registrableDomain(name) = t(n + 1)
    BY <2>1, <2>2 DEF LastLabels
  <2>4. N > n => t(n + 1) # <<>>
    <3>1. N > n => n + 1 \in 1 .. N
      BY <1>2
    <3> QED
      BY <1>2, <1>3, <3>1
  <2> QED
    BY <1>2, <2>1, <2>3, <2>4
<1>7. CASE \E r \in Rules : r.ex /\ Matches(r, name)
  <2>1. \A r \in Rules : r.ex /\ Matches(r, name) => Len(r.labels) = n + 1 /\ n + 1 \in 1 .. N
    BY <1>2, MatchLength, SuffixLength
  <2>2. n + 1 \in 1 .. N /\ \A k \in 1 .. N : Excepted(t(k)) <=> k = n + 1
    BY <1>4, <1>7, <2>1
  <2>3. exempt = {t(n + 1)}
    <3> HIDE DEF n, N
    <3> QED
      BY <2>2
  <2>4. n < N
    BY <1>2, <2>2
  <2>5. Owner(name) = {t(n + 1)}
    BY <1>1, <2>3
  <2>6. domain = {t(n + 1)}
    BY <1>6, <2>4
  <2> QED
    BY <2>5, <2>6
<1>8. CASE \A r \in Rules : Matches(r, name) => ~r.ex
  <2>1. exempt = {}
    BY <1>4, <1>8
  <2>2. /\ n >= 1
        /\ \A r \in Rules : Matches(r, name) => Len(r.labels) <= n /\ Len(r.labels) \in 1 .. N
        /\ n = 1 \/ \E r \in Rules : Matches(r, name) /\ Len(r.labels) = n
    BY <1>8, SuffixLength, MatchLength
  <2>3. /\ \A k \in 1 .. N : IsPublicSuffix(t(k)) => k <= n
        /\ n \in 1 .. N /\ IsPublicSuffix(t(n))
    <3>1. \A k \in 1 .. N : IsPublicSuffix(t(k)) => k <= n
      BY <1>2, <1>5, <2>2
    <3>2. n \in 1 .. N
      BY <1>2, <2>2
    <3> QED
      BY <1>5, <1>8, <2>2, <3>1, <3>2
  <2>4. ASSUME NEW k \in 1 .. N PROVE t(k) \in owners <=> k = n + 1
    <3>1. ASSUME t(k) \in owners PROVE k = n + 1
      <4>1. Tail(t(k)) \in public /\ Len(t(n)) < Len(t(k))
        BY <2>3, <3>1
      <4>2. k > n
        BY <1>3, <2>3, <4>1
      <4>3. k \in 2 .. N /\ k - 1 \in 1 .. N
        BY <2>2, <1>2, <4>2
      <4>4. t(k - 1) \in public
        BY <4>1, <4>3, TailOfLastLabels
      <4>5. k - 1 <= n
        BY <2>3, <4>3, <4>4
      <4> QED
        BY <1>2, <4>2, <4>5
    <3>2. ASSUME k = n + 1 PROVE t(k) \in owners
      <4>1. k \in 2 .. N /\ k - 1 = n
        BY <1>2, <2>3, <3>2
      <4>2. Tail(t(k)) = t(n)
        BY <4>1, TailOfLastLabels
      <4>3. Tail(t(k)) \in public
        BY <2>3, <4>2
      <4>4. ASSUME NEW p \in public PROVE Len(p) < Len(t(k))
        <5>1. PICK j \in 1 .. N : p = t(j) /\ IsPublicSuffix(t(j))
          OBVIOUS
        <5>2. j <= n /\ Len(p) = j /\ Len(t(k)) = k
          BY <1>3, <2>3, <5>1
        <5> HIDE DEF t, n
        <5> QED
          BY <1>2, <3>2, <5>2
      <4> QED
        BY <4>3, <4>4
    <3> QED
      BY <3>1, <3>2
  <2>5. owners = IF n < N THEN {t(n + 1)} ELSE {}
    <3>1. n < N => n + 1 \in 1 .. N
      BY <1>2
    <3>2. owners \subseteq S
      OBVIOUS
    <3>3. ~(n < N) => \A k \in 1 .. N : k # n + 1
      BY <1>2
    <3> HIDE DEF owners, t, n
    <3>4. ASSUME NEW s PROVE s \in owners <=> n < N /\ s = t(n + 1)
      BY <2>4, <3>1, <3>2, <3>3
    <3> QED
      BY <3>4
  <2> QED
    BY <1>1, <1>6, <2>1, <2>5
<1> QED
  BY <1>7, <1>8

-----------------------------------------------------------------------------
\* The type that is served is one that a rule sets, if any does.
LEMMA ServedType ==
  ASSUME NEW site \in SiteType, NEW route
  PROVE  /\ contentTypes(site, route) = {} => headerContentType(site, route) = NoPath
         /\ contentTypes(site, route) # {} =>
              /\ headerContentType(site, route) \in contentTypes(site, route)
              /\ headerContentType(site, route) # NoPath
<1> DEFINE headers == site.headers
           T == {i \in 1 .. Len(headers) : SetsType(headers[i], route)}
           last == SelectLastInSeq(headers, LAMBDA h : SetsType(h, route))
<1>1. DOMAIN headers = 1 .. Len(headers) /\ Len(headers) \in Nat
  BY DEF SiteType
<1>2. last = IF T # {} THEN Max(T) ELSE 0
  BY DEF SelectLastInSeq
<1>3. contentTypes(site, route) = {headers[i].type : i \in T}
  BY <1>1 DEF contentTypes
<1>4. headerContentType(site, route) = IF last = 0 THEN NoPath ELSE headers[last].type
  BY DEF headerContentType
<1>5. T # {} => Max(T) \in T
  <2>1. T \in SUBSET (0 .. Len(headers)) /\ T \subseteq Nat
    BY <1>1
  <2> HIDE DEF T
  <2>2. T # {} => \E n \in T : \A m \in T : m <= n
    BY <1>1, <2>1, Largest
  <2>3. T # {} => \E n \in T : \A m \in T : n >= m
    BY <2>1, <2>2
  <2> QED
    BY <2>3 DEF Max
<1> HIDE DEF last, headers
<1>6. T # {} => last \in T /\ last # 0
  BY <1>1, <1>2, <1>5
<1>7. T # {} => headers[last].type # NoPath
  BY <1>6 DEF SetsType
<1> QED
  BY <1>2, <1>3, <1>4, <1>6, <1>7

\* The .html file of an address is an address.
LEMMA HtmlIsPath ==
  ASSUME NEW path \in Path
  PROVE  Html(path) \in Path /\ Html(path).ext = "html" /\ path # NoPath /\ Html(path) # NoPath
<1>1. Html(path) \in Path /\ Html(path).ext = "html"
  BY DEF Html, Path, Ext
<1> QED
  BY <1>1, PathAssumption

\* What a rewrite leads to is an address.
LEMMA RewriteIsPath ==
  ASSUME NEW site \in SiteType, NEW route \in Path
  PROVE  rewriteDestination(site, route) \in Path \cup {NoPath}
<1> DEFINE Fits(item) ==
             /\ item.source.dir = route.dir
             /\ item.source.name = Slug \/ (item.source.name = route.name
                                            /\ item.source.ext = route.ext)
           T == {i \in 1 .. Len(site.rewrites) : Fits(site.rewrites[i])}
           match == SelectInSeq(site.rewrites, Fits)
           to == site.rewrites[match].destination
           Pattern == [dir : Dir, name : FileName \cup {Slug}, ext : Ext]
<1>1. /\ Len(site.rewrites) \in Nat
      /\ \A i \in 1 .. Len(site.rewrites) : site.rewrites[i].destination \in Pattern
  <2> DEFINE Rewrite == [source : Pattern, destination : Pattern]
  <2>1. site.rewrites \in Seq(Rewrite)
    BY DEF SiteType
  <2>2. \A rw \in Rewrite : rw.destination \in Pattern
    <3> HIDE DEF Pattern
    <3> QED
      OBVIOUS
  <2> HIDE DEF Pattern, Rewrite
  <2> QED
    BY <2>1, <2>2
<1>2. match = IF T # {} THEN Min(T) ELSE 0
  BY DEF SelectInSeq
<1>3. match # 0 => match \in 1 .. Len(site.rewrites)
  <2>1. T \in SUBSET (1 .. Len(site.rewrites))
    OBVIOUS
  <2> HIDE DEF T
  <2> QED
    BY <1>1, <1>2, <2>1, Least
<1>4. match # 0 => to \in Pattern
  BY <1>1, <1>3
<1>5. rewriteDestination(site, route) =
        IF match = 0 THEN NoPath
        ELSE IF to.name # Slug THEN to
        ELSE IF to.ext = "" THEN [to EXCEPT !.name = route.name, !.ext = route.ext]
        ELSE IF route.ext = "" THEN [to EXCEPT !.name = route.name] ELSE NoPath
  BY DEF rewriteDestination
<1>6. route.name \in FileName /\ route.ext \in Ext
  BY DEF Path
<1> HIDE DEF match, to
<1> QED
  BY <1>4, <1>5, <1>6 DEF Path

\* The check's file system is Vercel's, but for directories and .html addresses.
LEMMA ExistingIsServed ==
  ASSUME NEW site \in SiteType, NEW path \in Path, path.ext # "html"
  PROVE  /\ resolveExisting(site, path) = NoPath => Served(site, path) = 404
         /\ resolveExisting(site, path) \notin site.dirs \cup {NoPath} =>
              /\ Served(site, path) = 200
              /\ resolveExisting(site, path) = IF path \in site.files THEN path ELSE Html(path)
<1>1. Html(path) # NoPath /\ path # NoPath
  BY HtmlIsPath
<1>2. CASE path \in site.files \cup site.dirs
  BY <1>1, <1>2 DEF resolveExisting, Served, fileExists
<1>3. CASE path \notin site.files \cup site.dirs
  <2>1. path \notin site.files /\ path \notin site.dirs
    BY <1>3
  <2>2. resolveExisting(site, path) =
          IF path.ext = "" /\ (Html(path) \in site.files \/ Html(path) \in site.dirs)
          THEN Html(path) ELSE NoPath
    BY <2>1 DEF resolveExisting, fileExists
  <2>3. Served(site, path) = IF path.ext = "" /\ Html(path) \in site.files THEN 200 ELSE 404
    BY <2>1 DEF Served
  <2>4. CASE path.ext = "" /\ Html(path) \in site.files
    BY <2>1, <2>2, <2>3, <2>4, <1>1
  <2>5. CASE path.ext = "" /\ Html(path) \notin site.files /\ Html(path) \in site.dirs
    BY <2>2, <2>5, <1>1
  <2>6. CASE ~(path.ext = "" /\ (Html(path) \in site.files \/ Html(path) \in site.dirs))
    BY <2>2, <2>3, <2>6
  <2> QED
    BY <2>4, <2>5, <2>6
<1> QED
  BY <1>2, <1>3

\* A route that names no .html file and no directory is answered with the file that
\* the check resolved.
LEMMA ResolvedIsServed ==
  ASSUME NEW site \in SiteType, NEW r \in Path, r.ext # "html",
         resolveRoute(site, r) \notin site.dirs \cup {NoPath},
         rewriteDestination(site, r) # NoPath => rewriteDestination(site, r).ext # "html"
  PROVE  /\ Response(site, r).status = 200
         /\ Response(site, r).file = resolveRoute(site, r)
<1> DEFINE to == rewriteDestination(site, r)
           path == IF Served(site, r) # 404 \/ to = NoPath THEN r ELSE to
<1>1. /\ Response(site, r).status = Served(site, path)
      /\ Response(site, r).file = IF path \in site.files THEN path ELSE Html(path)
  BY DEF Response
<1>2. CASE resolveExisting(site, r) # NoPath
  <2>1. resolveRoute(site, r) = resolveExisting(site, r)
    BY <1>2 DEF resolveRoute
  <2>2. Served(site, r) = 200 /\ path = r
    BY <1>2, <2>1, ExistingIsServed
  <2> QED
    BY <1>1, <1>2, <2>1, <2>2, ExistingIsServed
<1>3. CASE resolveExisting(site, r) = NoPath
  <2>1. to # NoPath /\ resolveRoute(site, r) = resolveExisting(site, to)
    BY <1>3 DEF resolveRoute
  <2>2. path = to /\ to \in Path /\ to.ext # "html"
    BY <1>3, <2>1, ExistingIsServed, RewriteIsPath
  <2> QED
    BY <1>1, <2>1, <2>2, ExistingIsServed
<1> QED
  BY <1>2, <1>3

\* A route that passes checkPublicRoutes is answered by Vercel with the file and under
\* the type the check expected, and the live check passes, for every site.
THEOREM StaticIsLive == InputOK => StaticImpliesLive
<1> SUFFICES ASSUME InputOK, subject = "site", input[1] = "lists" PROVE StaticImpliesLive
  BY DEF StaticImpliesLive
<1> DEFINE site == input[2]
           routes == site.sitemap \cup site.llms \cup site.hrefs
           linked == linkHeaderRoutes(site)
           answers == [r \in routes \cup linked |-> Response(site, r)]
           Expected(r) == expectedContentType(r, resolveRoute(site, r))
           Canonical(r) ==
             /\ r.ext # "html"
             /\ resolveRoute(site, r) \notin site.dirs
             /\ rewriteDestination(site, r) # NoPath => rewriteDestination(site, r).ext # "html"
           TellsType(r, file) ==
             /\ r.ext = "jsonld" => file.ext = "jsonld"
             /\ r.dir \in Documents => file.ext # ""  /\ (file.ext = "jsonld" => r.ext = "jsonld")
<1> SUFFICES ASSUME checkPublicRoutes(site), \A r \in routes : Canonical(r)
             PROVE  /\ \A r \in routes :
                         /\ answers[r].status = 200 /\ answers[r].file = resolveRoute(site, r)
                         /\ Expected(r) # NoPath =>
                              /\ answers[r].type = Expected(r)
                              /\ TellsType(r, answers[r].file) =>
                                   answers[r].type = TypeOf(answers[r].file)
                    /\ (\A r \in linked : /\ Canonical(r) /\ TellsType(r, r)
                                          /\ contentTypes(site, r) \subseteq {TypeOf(r)}) =>
                         checkLiveRoutes(site, answers)
  BY DEF StaticImpliesLive
<1>1. site \in SiteType /\ routes \subseteq Path
  BY DEF InputOK, SiteType
<1>2. linked \subseteq Path
  <2> DEFINE Rule == [covers : SUBSET Path, exact : BOOLEAN, type : Type \cup {NoPath},
                      link : Path \cup {NoPath}]
  <2>1. site.headers \in Seq(Rule)
    BY <1>1 DEF SiteType
  <2>2. \A h \in Rule : h.covers \subseteq Path
    OBVIOUS
  <2>3. \A i \in DOMAIN site.headers : site.headers[i] \in Rule
    <3> HIDE DEF Rule
    <3> QED
      BY <2>1
  <2>4. \A h \in ToSet(site.headers) : h.covers \subseteq Path
    <3> HIDE DEF Rule, site
    <3> QED
      BY <2>2, <2>3 DEF ToSet
  <2> HIDE DEF site
  <2> QED
    BY <2>4 DEF linkHeaderRoutes
<1>3. ASSUME NEW r \in Path, NEW file \in Path, TellsType(r, file),
             expectedContentType(r, file) # NoPath
      PROVE  expectedContentType(r, file) = TypeOf(file)
  <2>1. file.ext \in {"", "html", "md", "jsonld"}
    BY DEF Path, Ext
  <2>2. file # NoPath
    BY PathAssumption
  <2>3. /\ TypeOf(file) = IF file.ext = "html" THEN "text/html"
                          ELSE IF file.ext = "md" THEN "text/markdown"
                          ELSE IF file.ext = "jsonld" THEN "application/ld+json" ELSE NoPath
    BY DEF TypeOf
  <2> QED
    BY <1>3, <2>1, <2>2, <2>3 DEF expectedContentType
<1>4. ASSUME NEW r \in routes \cup linked PROVE answers[r] = Response(site, r)
  OBVIOUS
<1>5. ASSUME NEW r \in routes \cup linked
      PROVE  /\ contentTypes(site, r) = {} => answers[r].type = TypeOf(answers[r].file)
             /\ contentTypes(site, r) # {} => answers[r].type \in contentTypes(site, r)
             /\ answers[r].link = linkHeaderFor(site, r)
  <2>1. answers[r] = Response(site, r)
    OBVIOUS
  <2>2. /\ Response(site, r).type = IF headerContentType(site, r) # NoPath
                                     THEN headerContentType(site, r)
                                     ELSE TypeOf(Response(site, r).file)
        /\ Response(site, r).link = linkHeaderFor(site, r)
    BY DEF Response
  <2> HIDE DEF answers
  <2> QED
    BY <1>1, <2>1, <2>2, ServedType
<1> HIDE DEF answers
<1>6. ASSUME NEW r \in routes
      PROVE  /\ answers[r].status = 200 /\ answers[r].file = resolveRoute(site, r)
             /\ Expected(r) # NoPath => answers[r].type = Expected(r)
             /\ resolveRoute(site, r) \in Path
  <2>1. RoutePasses(site, r) /\ Canonical(r) /\ r \in Path
    BY <1>1 DEF checkPublicRoutes
  <2>2. resolveRoute(site, r) # NoPath
        /\ (Expected(r) # NoPath => contentTypes(site, r) = {Expected(r)})
    BY <2>1 DEF RoutePasses
  <2>3. answers[r].status = 200 /\ answers[r].file = resolveRoute(site, r)
    BY <1>1, <1>4, <2>1, <2>2, ResolvedIsServed
  <2>4. Expected(r) # NoPath => answers[r].type = Expected(r)
    BY <1>5, <2>2
  <2>5. resolveRoute(site, r) \in Path
    BY <1>1, <2>1, <2>2, HtmlIsPath, RewriteIsPath DEF resolveRoute, resolveExisting
  <2> QED
    BY <2>3, <2>4, <2>5
<1>7. ASSUME NEW r \in routes, Expected(r) # NoPath, TellsType(r, answers[r].file)
      PROVE  answers[r].type = TypeOf(answers[r].file)
  <2> DEFINE file == resolveRoute(site, r)
  <2>1. r \in Path /\ file \in Path /\ answers[r].file = file /\ answers[r].type = Expected(r)
    BY <1>1, <1>6, <1>7
  <2>2. TellsType(r, file) /\ expectedContentType(r, file) # NoPath
    BY <1>7, <2>1
  <2> HIDE DEF file, TellsType
  <2>3. expectedContentType(r, file) = TypeOf(file)
    BY <1>3, <2>1, <2>2
  <2> QED
    BY <2>1, <2>3 DEF file
<1>8. ASSUME \A r \in linked : /\ Canonical(r) /\ TellsType(r, r)
                               /\ contentTypes(site, r) \subseteq {TypeOf(r)},
             NEW r \in site.sitemap \cup site.hrefs \cup linked
      PROVE  LivePasses(site, answers[r], r)
  <2>1. answers[r].link = linkHeaderFor(site, r)
    BY <1>5
  <2>2. CASE r \in routes
    BY <1>6, <2>1, <2>2 DEF LivePasses
  <2>3. CASE r \in linked
    <3>1. r \in Path /\ r.ext # "html" /\ r \in site.files \cup site.dirs /\ TellsType(r, r)
          /\ contentTypes(site, r) \subseteq {TypeOf(r)} /\ Canonical(r)
      BY <1>2, <1>8, <2>3 DEF checkPublicRoutes, LinksAreCanonical, fileExists
    <3>2. resolveRoute(site, r) = r /\ r # NoPath
      BY <3>1, PathAssumption DEF resolveRoute, resolveExisting, fileExists
    <3>3. answers[r].status = 200 /\ answers[r].file = r
      <4>1. answers[r] = Response(site, r)
        BY <1>4, <2>3
      <4>2. Response(site, r).status = 200 /\ Response(site, r).file = r
        <5>1. resolveRoute(site, r) \notin site.dirs \cup {NoPath}
          BY <3>1, <3>2
        <5>2. rewriteDestination(site, r) # NoPath => rewriteDestination(site, r).ext # "html"
          BY <3>1
        <5>3. r \in Path /\ r.ext # "html" /\ site \in SiteType
          BY <1>1, <3>1
        <5>4. resolveRoute(site, r) = r
          BY <3>2
        <5> HIDE DEF site, Canonical
        <5> QED
          BY <5>1, <5>2, <5>3, <5>4, ResolvedIsServed
      <4> QED
        BY <4>1, <4>2
    <3>4. answers[r].type = TypeOf(r)
      <4>1. /\ contentTypes(site, r) = {} => answers[r].type = TypeOf(answers[r].file)
            /\ contentTypes(site, r) # {} => answers[r].type \in contentTypes(site, r)
        BY <1>5, <2>3
      <4> QED
        BY <3>1, <3>3, <4>1
    <3>5. Expected(r) # NoPath => answers[r].type = Expected(r)
      BY <1>3, <3>1, <3>2, <3>4
    <3> QED
      BY <2>1, <3>3, <3>5 DEF LivePasses
  <2> QED
    BY <2>2, <2>3
<1>9. (\A r \in linked : /\ Canonical(r) /\ TellsType(r, r)
                         /\ contentTypes(site, r) \subseteq {TypeOf(r)}) =>
        checkLiveRoutes(site, answers)
  BY <1>8 DEF checkLiveRoutes
<1> QED
  BY <1>6, <1>7, <1>9

-----------------------------------------------------------------------------
\* The verifier of credentials, by the first method of the kid.
LEMMA AttestationOutcome ==
  ASSUME NEW jws, NEW did \in Seq(EntryType),
         jws.parts = 3, jws.header = "object", jws.typ = "vc+jwt", jws.eddsa,
         jws.payload # Broken
  PROVE  LET f == FirstNamed(did, jws.kid)
         IN  /\ f = 0 => verifyAttestationJws(jws, did) = "kid_not_in_did_document"
             /\ f # 0 /\ did[f].okp /\ did[f].key # Broken =>
                  verifyAttestationJws(jws, did) =
                    IF Verifies(jws, did[f]) THEN "valid" ELSE "signature_mismatch"
BY Decided DEF verifyAttestationJws

\* What the verifier of credentials calls valid can be read and is signed by the first
\* method of its kid.
LEMMA AttestationValid ==
  ASSUME NEW jws \in JwsOf(CredentialType), NEW did \in Seq(EntryType),
         verifyAttestationJws(jws, did) = "valid"
  PROVE  LET f == FirstNamed(did, jws.kid)
         IN  /\ jws.parts = 3 /\ jws.header = "object" /\ jws.typ = "vc+jwt" /\ jws.eddsa = TRUE
             /\ jws.payload # Broken
             /\ f # 0 /\ did[f].okp /\ did[f].key # Broken /\ Verifies(jws, did[f])
<1>1. jws.header \in {"object", "broken"} /\ jws.eddsa \in BOOLEAN
  BY DEF JwsOf
<1> QED
  BY <1>1, Decided DEF verifyAttestationJws

\* The script's rules for the claims are those of a good manifest.
LEMMA ClaimsAreGood ==
  ASSUME NEW claims \in Seq(ClaimType)
  PROVE  ClaimsChecks(claims) <=>
           /\ claims \in Seq([key : {"pets_dogs", "pets_cats", "hot_tub"}, form : {"plain"},
                              state : {"affirmed", "negated"}, verified_at : {"absent", "date"}])
           /\ \A i, j \in DOMAIN claims : claims[i].key = claims[j].key => i = j
           /\ {<<"pets_dogs", "affirmed">>, <<"pets_cats", "negated">>} \subseteq
                {<<claims[i].key, claims[i].state>> : i \in DOMAIN claims}
<1> DEFINE Good == [key : {"pets_dogs", "pets_cats", "hot_tub"}, form : {"plain"},
                    state : {"affirmed", "negated"}, verified_at : {"absent", "date"}]
           stated == {<<claims[i].key, claims[i].state>> : i \in DOMAIN claims}
<1>1. DOMAIN claims = 1 .. Len(claims) /\ Len(claims) \in Nat
      /\ \A i \in DOMAIN claims : claims[i] \in ClaimType
  OBVIOUS
<1>2. \A c \in ClaimType : c \in Good <=> /\ c.form = "plain" /\ c.state \in {"affirmed", "negated"}
                                          /\ c.verified_at \in {"absent", "date"}
  BY DEF ClaimType
<1>3. claims \in Seq(Good) <=> \A i \in DOMAIN claims : claims[i] \in Good
  <2> HIDE DEF Good
  <2> QED
    BY <1>1
<1>4. <<"pets_dogs", "affirmed">> \in stated <=>
        \E i \in DOMAIN claims : claims[i].key = "pets_dogs" /\ claims[i].state = "affirmed"
  OBVIOUS
<1>5. <<"pets_cats", "negated">> \in stated <=>
        \E i \in DOMAIN claims : claims[i].key = "pets_cats" /\ claims[i].state = "negated"
  OBVIOUS
<1>6. (\E i \in DOMAIN claims : claims[i].key = "pets_dogs" /\ claims[i].state = "affirmed") =>
        claims # <<>>
  BY <1>1
<1> HIDE DEF Good, stated
<1>7. ClaimsChecks(claims) <=>
        /\ \A i \in DOMAIN claims : claims[i] \in Good
        /\ \A i, j \in DOMAIN claims : claims[i].key = claims[j].key => i = j
        /\ \E i \in DOMAIN claims : claims[i].key = "pets_dogs" /\ claims[i].state = "affirmed"
        /\ \E i \in DOMAIN claims : claims[i].key = "pets_cats" /\ claims[i].state = "negated"
  BY <1>1, <1>2, <1>6 DEF ClaimsChecks
<1> QED
  BY <1>3, <1>4, <1>5, <1>7 DEF Good, stated

\* Replacing the key of the first method leaves the choice of the method.
LEMMA SameMethod ==
  ASSUME NEW did \in Seq(EntryType), did # <<>>, NEW key \in Key, NEW kid,
         FirstNamed(did, kid) # 0
  PROVE  LET other == [did EXCEPT ![1].key = key]
         IN  /\ other \in Seq(EntryType) /\ Len(other) = Len(did)
             /\ \A i \in 1 .. Len(did) : i # 1 => other[i] = did[i]
             /\ other[1].okp = did[1].okp /\ other[1].kid = did[1].kid /\ other[1].key = key
             /\ FirstNamed(other, kid) = FirstNamed(did, kid)
<1> DEFINE other == [did EXCEPT ![1].key = key]
           f == FirstNamed(did, kid)
           g == FirstNamed(other, kid)
<1>1. Len(did) \in Nat /\ Len(did) >= 1 /\ DOMAIN did = 1 .. Len(did) /\ did[1] \in EntryType
  OBVIOUS
<1>2. /\ [did[1] EXCEPT !.key = key] \in EntryType
      /\ [did[1] EXCEPT !.key = key].okp = did[1].okp
      /\ [did[1] EXCEPT !.key = key].kid = did[1].kid
      /\ [did[1] EXCEPT !.key = key].key = key
  BY <1>1 DEF EntryType
<1>3. /\ other \in Seq(EntryType) /\ Len(other) = Len(did)
      /\ \A i \in 1 .. Len(did) : i # 1 => other[i] = did[i]
      /\ other[1] = [did[1] EXCEPT !.key = key]
  BY <1>1, <1>2
<1>4. \A i \in 1 .. Len(did) : other[i].kid = did[i].kid
  BY <1>1, <1>2, <1>3
<1> HIDE DEF other
<1>5. /\ f \in 1 .. Len(did) /\ did[f].kid = kid
      /\ \A i \in 1 .. Len(did) : did[i].kid = kid => f <= i
  BY <1>1, FirstNamedProperties
<1>6. /\ g \in 0 .. Len(did)
      /\ g = 0 => \A i \in 1 .. Len(did) : other[i].kid # kid
      /\ g # 0 => other[g].kid = kid /\ \A i \in 1 .. Len(did) : other[i].kid = kid => g <= i
  BY <1>3, FirstNamedProperties
<1> HIDE DEF f, g
<1>7. g = f
  BY <1>1, <1>4, <1>5, <1>6
<1> QED
  BY <1>2, <1>3, <1>7 DEF other, f, g

\* The kid of the negative vector is the published one with white space.
LEMMA PaddedKid ==
  [AttestationKid EXCEPT !.padded = TRUE] = [name |-> AttestationName, padded |-> TRUE]
<1> DEFINE K == [name : {AttestationName}, padded : BOOLEAN]
           k == [AttestationKid EXCEPT !.padded = TRUE]
<1>1. AttestationKid \in K /\ AttestationKid.name = AttestationName
  BY DEF AttestationKid
<1> HIDE DEF AttestationKid
<1>2. k \in K /\ k.padded = TRUE /\ k.name = AttestationName
  BY <1>1
<1> HIDE DEF k
<1>3. k = [name |-> AttestationName, padded |-> TRUE]
  BY <1>2
<1> QED
  BY <1>3 DEF k

\* The attestation vectors' checks accept, under a DID document, exactly the bundle
\* that signing good payloads builds: no other key, order, header or payload.
THEOREM BundleIsPinned == InputOK => BundleChecksBite
<1> SUFFICES ASSUME InputOK, subject = "bundle" PROVE BundleChecksBite
  BY DEF BundleChecksBite
<1> DEFINE bundle == input.bundle
           examples == input.examples
           did == input.did
           otherKey == input.otherKey
           creds == bundle.credentials
           lost == [name |-> AttestationName, padded |-> TRUE]
           first == creds[1].jws
           other == [did EXCEPT ![1].key = otherKey]
           f == FirstNamed(did, AttestationKid)
<1>1. /\ bundle \in BundleType /\ examples \in ExamplesType /\ did \in Seq(EntryType)
      /\ otherKey \in Key /\ otherKey # AttestationKey
  BY DEF InputOK
<1>2. Len(CredentialTypes) = 5 /\ DOMAIN CredentialTypes = 1 .. 5
  BY DEF CredentialTypes
<1> DEFINE Credential0 == [type : STRING, joseMedia : BOOLEAN, jws : JwsOf(CredentialType)]
<1>3. /\ creds \in Seq(Credential0) /\ DOMAIN creds = 1 .. Len(creds) /\ Len(creds) \in Nat
      /\ bundle = [issuer |-> bundle.issuer, credentials |-> creds]
  BY <1>1 DEF BundleType
<1>4. \A i \in 1 .. 5 : examples[i] \in CredentialType /\ examples[i] # Broken
  BY <1>1, <1>2, CredentialsAssumption DEF ExamplesType
<1>5. [AttestationKid EXCEPT !.padded = TRUE] = lost
  BY PaddedKid
<1>6. attestationDidWebDocument[1] = [kid |-> AttestationKid, okp |-> TRUE, key |-> AttestationKey]
  BY DEF attestationDidWebDocument
<1> HIDE DEF bundle, examples, did, otherKey, creds
<1>7. ASSUME BundlePasses(bundle, examples, did, otherKey)
      PROVE  /\ GoodExamples(examples)
             /\ bundle = signedAttestationBundle(examples)
             /\ did # <<>> /\ did[1] = attestationDidWebDocument[1]
             /\ \A i \in DOMAIN did : did[i].kid # lost
  <2>1. /\ did # <<>> /\ did[1].key = AttestationKey
        /\ bundle.issuer = IssuerDid /\ Len(creds) = 5
        /\ \A i \in 1 .. 5 : creds[i].type = CredentialTypes[i]
        /\ \A i \in 1 .. 5 : CredentialChecks(creds[i], examples[i], bundle, did)
        /\ ClaimsChecks(creds[5].jws.payload.claims)
    BY <1>2, <1>3, <1>7 DEF BundlePasses, BundleShape, creds
  <2>2. /\ verifyAttestationJws(signCredential(examples[1], lost, AttestationKey), did)
             = "kid_not_in_did_document"
        /\ verifyAttestationJws(first, other) = "signature_mismatch"
    BY <1>7 DEF BundlePasses, creds
  <2>3. \A i \in 1 .. 5 : creds[i] \in Credential0
    <3>1. creds \in Seq(Credential0)
      BY <1>3
    <3>2. Len(creds) = 5
      BY <2>1
    <3> HIDE DEF Credential0
    <3>3. \A i \in 1 .. Len(creds) : creds[i] \in Credential0
      BY <3>1
    <3> QED
      BY <3>2, <3>3
  <2>4. ASSUME NEW i \in 1 .. 5
        PROVE  /\ creds[i].joseMedia = TRUE /\ creds[i].type = CredentialTypes[i]
               /\ creds[i].jws \in JwsOf(CredentialType)
               /\ creds[i].jws.parts = 3 /\ creds[i].jws.header = "object"
               /\ creds[i].jws.typ = "vc+jwt" /\ creds[i].jws.eddsa = TRUE
               /\ creds[i].jws.kid = AttestationKid
               /\ creds[i].jws.payload = examples[i] /\ examples[i] # Broken
               /\ f # 0 /\ did[f].okp /\ did[f].key # Broken
               /\ creds[i].jws.signer = did[f].key
               /\ PayloadChecks(examples[i], CredentialTypes[i], bundle)
    <3>1. creds[i].jws \in JwsOf(CredentialType) /\ creds[i].joseMedia \in BOOLEAN
      BY <2>3
    <3>2. /\ creds[i].joseMedia /\ verifyAttestationJws(creds[i].jws, did) = "valid"
          /\ creds[i].jws.kid = AttestationKid /\ creds[i].jws.payload = examples[i]
          /\ PayloadChecks(creds[i].jws.payload, creds[i].type, bundle)
      BY <2>1 DEF CredentialChecks
    <3> QED
      BY <1>1, <2>1, <3>1, <3>2, AttestationValid DEF Verifies
  <2>5. f = 1
    <3>1. f \in 0 .. Len(did)
      BY <1>1, FirstNamedProperties
    <3>2. /\ other \in Seq(EntryType) /\ Len(other) = Len(did)
          /\ \A i \in 1 .. Len(did) : i # 1 => other[i] = did[i]
          /\ FirstNamed(other, AttestationKid) = f
      <4>1. did # <<>> /\ otherKey \in Key /\ did \in Seq(EntryType)
        BY <1>1, <2>1
      <4>2. 1 \in 1 .. 5
        OBVIOUS
      <4>3. FirstNamed(did, AttestationKid) # 0
        BY <2>4, <4>2
      <4> QED
        BY <4>1, <4>3, SameMethod
    <3> SUFFICES ASSUME f # 1 PROVE FALSE
      OBVIOUS
    <3> HIDE DEF other, f
    <3>3. f \in 1 .. Len(did) /\ other[f] = did[f]
      BY <2>4, <3>1, <3>2
    <3>4. Verifies(first, did[f])
      BY <2>4 DEF Verifies
    <3>5. verifyAttestationJws(first, other) = "valid"
      <4>1. 1 \in 1 .. 5
        OBVIOUS
      <4>2. /\ first.parts = 3 /\ first.header = "object" /\ first.typ = "vc+jwt"
            /\ first.eddsa = TRUE /\ first.kid = AttestationKid /\ first.payload # Broken
            /\ did[f].okp /\ did[f].key # Broken /\ f # 0
        BY <2>4, <4>1
      <4> HIDE DEF first
      <4>3. FirstNamed(other, first.kid) = f
        BY <3>2, <4>2
      <4> QED
        BY <3>2, <3>3, <3>4, <4>2, <4>3, AttestationOutcome
    <3> QED
      BY <2>2, <3>5
  <2>6. did[1] = [kid |-> AttestationKid, okp |-> TRUE, key |-> AttestationKey]
    <3>1. did[1] \in EntryType
      BY <1>1, <2>1
    <3>2. did[1].kid = AttestationKid
      BY <1>1, <2>4, <2>5, FirstNamedProperties
    <3>3. did[1].okp = TRUE /\ did[1].key = AttestationKey
      BY <2>1, <2>4, <2>5, <3>1 DEF EntryType
    <3> QED
      BY <3>1, <3>2, <3>3 DEF EntryType
  <2>7. ASSUME NEW i \in 1 .. 5
        PROVE  creds[i] = [type |-> CredentialTypes[i], joseMedia |-> TRUE,
                           jws |-> signCredential(examples[i], AttestationKid, AttestationKey)]
    <3>1. creds[i].jws.signer = AttestationKey
      BY <2>4, <2>5, <2>6
    <3>2. creds[i].jws = signCredential(examples[i], AttestationKid, AttestationKey)
      BY <2>4, <3>1 DEF JwsOf, signCredential, Signed
    <3>3. creds[i] \in Credential0
      BY <2>3
    <3> QED
      BY <2>4, <3>2, <3>3
  <2>8. bundle = signedAttestationBundle(examples)
    <3> DEFINE c(i) == [type |-> CredentialTypes[i], joseMedia |-> TRUE,
                        jws |-> signCredential(examples[i], AttestationKid, AttestationKey)]
    <3>1. \A i \in 1 .. 5 : creds[i] = c(i)
      BY <2>7
    <3> HIDE DEF c
    <3>2. creds = [i \in 1 .. 5 |-> c(i)]
      BY <1>3, <2>1, <3>1
    <3> QED
      BY <1>2, <1>3, <2>1, <3>2 DEF signedAttestationBundle, c
  <2>9. \A i \in DOMAIN did : did[i].kid # lost
    <3> DEFINE jws == signCredential(examples[1], lost, AttestationKey)
    <3>1. /\ jws.parts = 3 /\ jws.header = "object" /\ jws.typ = "vc+jwt" /\ jws.eddsa = TRUE
          /\ jws.payload = examples[1] /\ jws.kid = lost /\ examples[1] # Broken
      BY <1>4 DEF signCredential, Signed
    <3>2. verifyAttestationJws(jws, did) = "kid_not_in_did_document"
      BY <2>2
    <3> HIDE DEF jws, lost
    <3>3. FirstNamed(did, lost) = 0
      BY <1>1, <3>1, <3>2, Decided DEF verifyAttestationJws
    <3> QED
      BY <1>1, <3>3, FirstNamedProperties
  <2>10. GoodExamples(examples)
    <3>1. ASSUME NEW i \in 1 .. 5
          PROVE  examples[i] \in [contexts : {TRUE},
                                  types : {t \in SUBSET ToSet(CredentialTypes) :
                                             CredentialTypes[i] \in t},
                                  issuer : {IssuerDid}, current : {TRUE}, embedded : {FALSE},
                                  claims : Seq(ClaimType)]
      <4>1. /\ examples[i].contexts /\ CredentialTypes[i] \in examples[i].types
            /\ examples[i].issuer = IssuerDid /\ examples[i].current /\ ~examples[i].embedded
        BY <2>1, <2>4 DEF PayloadChecks
      <4> QED
        BY <1>4, <4>1 DEF CredentialType
    <3>2. ClaimsChecks(examples[5].claims) /\ examples[5].claims \in Seq(ClaimType)
      BY <1>4, <2>1, <2>4 DEF CredentialType
    <3> QED
      <4> DEFINE claims == examples[Len(CredentialTypes)].claims
      <4>1. /\ claims \in Seq([key : {"pets_dogs", "pets_cats", "hot_tub"}, form : {"plain"},
                                state : {"affirmed", "negated"}, verified_at : {"absent", "date"}])
            /\ \A i, j \in DOMAIN claims : claims[i].key = claims[j].key => i = j
            /\ {<<"pets_dogs", "affirmed">>, <<"pets_cats", "negated">>} \subseteq
                 {<<claims[i].key, claims[i].state>> : i \in DOMAIN claims}
        <5>1. ClaimsChecks(claims) /\ claims \in Seq(ClaimType)
          BY <1>2, <3>2
        <5> HIDE DEF claims
        <5> QED
          BY <5>1, ClaimsAreGood
      <4>2. \A i \in DOMAIN CredentialTypes :
              examples[i] \in [contexts : {TRUE},
                               types : {t \in SUBSET ToSet(CredentialTypes) :
                                          CredentialTypes[i] \in t},
                               issuer : {IssuerDid}, current : {TRUE}, embedded : {FALSE},
                               claims : Seq(ClaimType)]
        BY <1>2, <3>1, Zenon
      <4> QED
        BY <4>1, <4>2, Zenon DEF GoodExamples
  <2> QED
    BY <1>6, <2>1, <2>6, <2>8, <2>9, <2>10
<1>8. ASSUME GoodExamples(examples), bundle = signedAttestationBundle(examples),
             did # <<>>, did[1] = attestationDidWebDocument[1],
             \A i \in DOMAIN did : did[i].kid # lost
      PROVE  BundlePasses(bundle, examples, did, otherKey)
  <2>1. /\ bundle.issuer = IssuerDid
        /\ creds = [i \in 1 .. 5 |->
                      [type |-> CredentialTypes[i], joseMedia |-> TRUE,
                       jws |-> signCredential(examples[i], AttestationKid, AttestationKey)]]
    BY <1>2, <1>8 DEF signedAttestationBundle, creds
  <2>2. /\ DOMAIN creds = 1 .. 5 /\ Len(creds) = 5
        /\ \A i \in 1 .. 5 : /\ creds[i].type = CredentialTypes[i] /\ creds[i].joseMedia
                             /\ creds[i].jws = signCredential(examples[i], AttestationKid, AttestationKey)
    <3>1. DOMAIN creds = 1 .. 5
      BY <2>1
    <3>2. Len(creds) = 5
      BY <1>3, <3>1, 1 .. Len(creds) = 1 .. 5, 5 \in 1 .. Len(creds), Len(creds) \in 1 .. Len(creds)
    <3> QED
      BY <2>1, <3>1, <3>2
  <2>3. /\ did[1].kid = AttestationKid /\ did[1].okp /\ did[1].key = AttestationKey
        /\ AttestationKey # Broken
    BY <1>6, <1>8, CredentialsAssumption
  <2>4. f = 1
    BY <1>1, <1>8, <2>3, FirstNamedProperties
  <2>5. ASSUME NEW i \in 1 .. 5
        PROVE  CredentialChecks(creds[i], examples[i], bundle, did)
    <3> DEFINE jws == signCredential(examples[i], AttestationKid, AttestationKey)
    <3>1. /\ jws.parts = 3 /\ jws.header = "object" /\ jws.typ = "vc+jwt" /\ jws.eddsa = TRUE
          /\ jws.payload = examples[i] /\ jws.kid = AttestationKid /\ jws.signer = AttestationKey
          /\ examples[i] # Broken
      BY <1>4 DEF signCredential, Signed
    <3>2. creds[i].jws = jws /\ creds[i].joseMedia /\ creds[i].type = CredentialTypes[i]
      BY <2>2
    <3> HIDE DEF jws
    <3>3. verifyAttestationJws(jws, did) = "valid"
      BY <1>1, <2>3, <2>4, <3>1, AttestationOutcome DEF Verifies
    <3>4. /\ examples[i].contexts = TRUE /\ CredentialTypes[i] \in examples[i].types
          /\ examples[i].issuer = IssuerDid /\ examples[i].current = TRUE
          /\ examples[i].embedded = FALSE
      BY <1>2, <1>8 DEF GoodExamples
    <3> QED
      BY <2>1, <3>1, <3>2, <3>3, <3>4 DEF CredentialChecks, PayloadChecks
  <2>6. ClaimsChecks(creds[5].jws.payload.claims)
    <3>1. creds[5].jws.payload = examples[5]
      BY <2>2 DEF signCredential, Signed
    <3>2. examples[5].claims \in Seq(ClaimType)
      BY <1>4 DEF CredentialType
    <3> QED
      BY <1>2, <1>8, <3>1, <3>2, ClaimsAreGood DEF GoodExamples
  <2> DEFINE jws1 == signCredential(examples[1], AttestationKid, AttestationKey)
  <2>7. /\ first = jws1
        /\ jws1.parts = 3 /\ jws1.header = "object" /\ jws1.typ = "vc+jwt" /\ jws1.eddsa = TRUE
        /\ jws1.payload = examples[1] /\ jws1.kid = AttestationKid /\ jws1.signer = AttestationKey
        /\ examples[1] # Broken
    BY <1>4, <2>2 DEF signCredential, Signed
  <2>8. verifyAttestationJws(Tampered(first, examples[1]), did) = "signature_mismatch"
    <3> DEFINE t == Tampered(jws1, examples[1])
    <3>1. /\ t.parts = 3 /\ t.header = "object" /\ t.typ = "vc+jwt" /\ t.eddsa = TRUE
          /\ t.payload = examples[1] /\ t.kid = AttestationKid /\ t.signer = Broken
      BY DEF Tampered, signCredential, Signed
    <3> HIDE DEF t
    <3>2. verifyAttestationJws(t, did) = "signature_mismatch"
      BY <1>1, <2>3, <2>4, <2>7, <3>1, AttestationOutcome DEF Verifies
    <3> QED
      BY <2>7, <3>2 DEF t
  <2>9. verifyAttestationJws(signCredential(examples[1], lost, AttestationKey), did)
          = "kid_not_in_did_document"
    <3>1. FirstNamed(did, lost) = 0
      <4> HIDE DEF lost
      <4> QED
        BY <1>1, <1>8, FirstNamedProperties
    <3> DEFINE jws == signCredential(examples[1], lost, AttestationKey)
    <3>2. /\ jws.parts = 3 /\ jws.header = "object" /\ jws.typ = "vc+jwt" /\ jws.eddsa = TRUE
          /\ jws.payload = examples[1] /\ jws.kid = lost /\ examples[1] # Broken
      BY <1>4 DEF signCredential, Signed
    <3> HIDE DEF jws, lost
    <3>3. verifyAttestationJws(jws, did) = "kid_not_in_did_document"
      BY <1>1, <3>1, <3>2, AttestationOutcome
    <3> QED
      BY <3>3 DEF jws
  <2>10. verifyAttestationJws(first, other) = "signature_mismatch"
    <3>1. /\ other \in Seq(EntryType) /\ FirstNamed(other, AttestationKid) = 1
          /\ other[1].okp = did[1].okp /\ other[1].key = otherKey
      BY <1>1, <1>8, <2>4, SameMethod
    <3>2. otherKey # Broken
      BY <1>1, CredentialsAssumption
    <3> HIDE DEF other, jws1, first
    <3>3. /\ FirstNamed(other, first.kid) = 1 /\ other[1].okp /\ other[1].key # Broken
          /\ first.payload # Broken /\ ~Verifies(first, other[1])
      BY <1>1, <2>3, <2>7, <3>1, <3>2 DEF Verifies
    <3> QED
      BY <2>7, <3>1, <3>3, AttestationOutcome
  <2>11. BundleShape(bundle)
    BY <1>2, <2>1, <2>2 DEF BundleShape, creds
  <2> QED
    BY <1>2, <1>8, <2>2, <2>3, <2>5, <2>6, <2>8, <2>9, <2>10, <2>11 DEF BundlePasses, creds
<1> QED
  BY <1>5, <1>7, <1>8 DEF BundleChecksBite, bundle, examples, did, otherKey

-----------------------------------------------------------------------------
\* The first stop from i on: none lies before it.
LEMMA BeyondProperties ==
  ASSUME NEW S, NEW s \in Seq(S), NEW i \in 1 .. Len(s) + 1, NEW stops \in SUBSET (1 .. Len(s))
  PROVE  /\ Beyond(s, i, stops) \in i .. Len(s) + 1
         /\ Beyond(s, i, stops) <= Len(s) => Beyond(s, i, stops) \in stops
         /\ \A k \in i .. Beyond(s, i, stops) - 1 : k \notin stops
<1> DEFINE later == {j \in stops : i <= j /\ j <= Len(s)}
<1>1. Beyond(s, i, stops) = IF later = {} THEN Len(s) + 1
                            ELSE CHOOSE j \in later : \A k \in later : j <= k
  BY DEF Beyond
<1>2. Len(s) \in Nat /\ \A j \in stops : j \in Nat
  OBVIOUS
<1>3. CASE later = {}
  BY <1>1, <1>2, <1>3
<1>4. CASE later # {}
  <2>1. later \subseteq Nat
    BY <1>2
  <2> HIDE DEF later
  <2>2. PICK x \in later : \A y \in later : ~(<<y, x>> \in OpToRel(<, Nat))
    BY ONLY <1>4, <2>1, NatLessThanWellFounded, WFMin
  <2>3. \A y \in later : ~(y < x)
    BY <2>1, <2>2 DEF OpToRel
  <2>4. \A y \in later : x <= y
    BY <2>1, <2>3
  <2>5. Beyond(s, i, stops) \in later /\ \A k \in later : Beyond(s, i, stops) <= k
    BY <1>1, <1>4, <2>4
  <2> DEFINE e == Beyond(s, i, stops)
  <2>6. e \in Nat /\ e \in stops /\ i <= e /\ e <= Len(s)
    BY <2>1, <2>5 DEF later
  <2>7. \A k \in i .. e - 1 : k \notin stops
    <3> SUFFICES ASSUME NEW k \in i .. e - 1, k \in stops PROVE FALSE
      OBVIOUS
    <3>1. k \in later
      BY <1>2, <2>6 DEF later
    <3> QED
      BY <2>1, <2>5, <2>6, <3>1
  <2> HIDE DEF e
  <2>8. e \in i .. Len(s) + 1
    BY <1>2, <2>6
  <2> QED
    BY <2>6, <2>7, <2>8 DEF e
<1> QED
  BY <1>3, <1>4

-----------------------------------------------------------------------------
\* A sequence of the members of T, each of them once.
Lists(s, T) ==
  /\ s \in Seq(T)
  /\ \A m, n \in 1 .. Len(s) : s[m] = s[n] => m = n
  /\ \A x \in T : \E n \in 1 .. Len(s) : s[n] = x

\* Two lists of different members, one after the other.
LEMMA ListsConcat ==
  ASSUME NEW A, NEW B, NEW s, NEW t, Lists(s, A), Lists(t, B), A \cap B = {}
  PROVE  Lists(s \o t, A \cup B)
<1>1. s \in Seq(A \cup B) /\ t \in Seq(A \cup B) /\ Len(s) \in Nat /\ Len(t) \in Nat
  BY SeqMonotonic DEF Lists
<1>2. /\ s \o t \in Seq(A \cup B)
      /\ Len(s \o t) = Len(s) + Len(t)
      /\ \A n \in 1 .. Len(s) + Len(t) :
           (s \o t)[n] = IF n <= Len(s) THEN s[n] ELSE t[n - Len(s)]
  BY <1>1, ConcatProperties
<1>3. /\ \A n \in 1 .. Len(s) : (s \o t)[n] = s[n] /\ s[n] \in A
      /\ \A n \in 1 .. Len(t) : (s \o t)[Len(s) + n] = t[n] /\ t[n] \in B
  BY <1>1, <1>2, ElementOfSeq DEF Lists
<1>4. ASSUME NEW m \in 1 .. Len(s) + Len(t), NEW n \in 1 .. Len(s) + Len(t),
             (s \o t)[m] = (s \o t)[n]
      PROVE  m = n
  <2>1. CASE m <= Len(s) /\ n <= Len(s)
    BY <1>1, <1>3, <1>4, <2>1 DEF Lists
  <2>2. CASE m > Len(s) /\ n > Len(s)
    <3>1. m - Len(s) \in 1 .. Len(t) /\ n - Len(s) \in 1 .. Len(t)
      BY <1>1, <2>2
    <3>2. t[m - Len(s)] = t[n - Len(s)]
      BY <1>1, <1>2, <1>4, <2>2
    <3>3. m - Len(s) = n - Len(s)
      BY <3>1, <3>2 DEF Lists
    <3> QED
      BY <1>1, <3>3
  <2>3. CASE m <= Len(s) /\ n > Len(s)
    <3>1. n - Len(s) \in 1 .. Len(t) /\ n = Len(s) + (n - Len(s)) /\ m \in 1 .. Len(s)
      BY <1>1, <2>3
    <3>2. (s \o t)[m] \in A /\ (s \o t)[n] \in B
      BY <1>3, <3>1
    <3> QED
      BY <1>4, <3>2
  <2>4. CASE m > Len(s) /\ n <= Len(s)
    <3>1. m - Len(s) \in 1 .. Len(t) /\ m = Len(s) + (m - Len(s)) /\ n \in 1 .. Len(s)
      BY <1>1, <2>4
    <3>2. (s \o t)[n] \in A /\ (s \o t)[m] \in B
      BY <1>3, <3>1
    <3> QED
      BY <1>4, <3>2
  <2> QED
    BY <1>1, <2>1, <2>2, <2>3, <2>4
<1>5. ASSUME NEW x \in A \cup B PROVE \E n \in 1 .. Len(s) + Len(t) : (s \o t)[n] = x
  <2>1. CASE x \in A
    <3>1. PICK n \in 1 .. Len(s) : s[n] = x
      BY <2>1 DEF Lists
    <3>2. n \in 1 .. Len(s) + Len(t) /\ (s \o t)[n] = x
      BY <1>1, <1>3, <3>1
    <3> QED
      BY <3>2
  <2>2. CASE x \in B
    <3>1. PICK n \in 1 .. Len(t) : t[n] = x
      BY <2>2 DEF Lists
    <3>2. Len(s) + n \in 1 .. Len(s) + Len(t) /\ (s \o t)[Len(s) + n] = x
      BY <1>1, <1>3, <3>1
    <3> QED
      BY <3>2
  <2> QED
    BY <2>1, <2>2
<1> QED
  BY <1>2, <1>4, <1>5 DEF Lists

\* The numbers from first up to beyond, in order.
LEMMA NumbersProperties ==
  ASSUME NEW first \in Nat, NEW beyond \in Nat, first <= beyond
  PROVE  /\ Lists(Numbers(first, beyond), first .. beyond - 1)
         /\ Len(Numbers(first, beyond)) = beyond - first
         /\ \A n \in 1 .. beyond - first : Numbers(first, beyond)[n] = first + n - 1
<1> DEFINE s == Numbers(first, beyond)
<1>1. s = [n \in 1 .. beyond - first |-> first + n - 1] /\ beyond - first \in Nat
  BY DEF Numbers
<1>2. \A n \in 1 .. beyond - first : s[n] = first + n - 1 /\ s[n] \in first .. beyond - 1
  BY <1>1
<1>3. s \in Seq(first .. beyond - 1) /\ Len(s) = beyond - first
  <2>1. s \in [1 .. beyond - first -> first .. beyond - 1]
    BY <1>1
  <2> HIDE DEF s
  <2> QED
    BY <1>1, <2>1
<1>4. \A x \in first .. beyond - 1 : \E n \in 1 .. beyond - first : s[n] = x
  <2> SUFFICES ASSUME NEW x \in first .. beyond - 1
               PROVE  \E n \in 1 .. beyond - first : s[n] = x
    OBVIOUS
  <2>1. x - first + 1 \in 1 .. beyond - first
    OBVIOUS
  <2>2. s[x - first + 1] = x
    BY <1>2, <2>1
  <2> QED
    BY <2>1, <2>2
<1> HIDE DEF s
<1>5. \A m, n \in 1 .. beyond - first : s[m] = s[n] => m = n
  BY <1>2
<1>6. Lists(s, first .. beyond - 1)
  BY <1>3, <1>4, <1>5 DEF Lists
<1> QED
  BY <1>2, <1>3, <1>6 DEF s

\* A part of a sequence lists its members.
LEMMA SubSeqLists ==
  ASSUME NEW T, NEW s, Lists(s, T), NEW m \in Nat, NEW n \in Nat, 1 <= m, n <= Len(s), m <= n + 1
  PROVE  /\ Lists(SubSeq(s, m, n), {s[k] : k \in m .. n})
         /\ Len(SubSeq(s, m, n)) = n - m + 1
<1> DEFINE t == SubSeq(s, m, n)
           A == {s[k] : k \in m .. n}
<1>1. Len(s) \in Nat /\ \A k \in m .. n : s[k] \in A
  BY DEF Lists
<1>2. t \in Seq(A) /\ Len(t) = n - m + 1 /\ \A k \in 1 .. n - m + 1 : t[k] = s[m + k - 1]
  <2> HIDE DEF A
  <2>1. t \in Seq(A) /\ Len(t) = IF m <= n THEN n - m + 1 ELSE 0
    BY <1>1, SubSeqProperties
  <2>2. \A k \in 1 .. n - m + 1 : t[k] = s[m + k - 1]
    BY <1>1, SubSeqProperties
  <2> QED
    BY <2>1, <2>2
<1> HIDE DEF t
<1>3. \A j, k \in 1 .. Len(t) : t[j] = t[k] => j = k
  <2> SUFFICES ASSUME NEW j \in 1 .. Len(t), NEW k \in 1 .. Len(t), t[j] = t[k] PROVE j = k
    OBVIOUS
  <2>1. m + j - 1 \in 1 .. Len(s) /\ m + k - 1 \in 1 .. Len(s)
    BY <1>1, <1>2
  <2>a. s[m + j - 1] = s[m + k - 1]
    BY <1>2
  <2>2. m + j - 1 = m + k - 1
    BY <2>1, <2>a DEF Lists
  <2> QED
    BY <1>2, <2>2
<1>4. \A x \in A : \E k \in 1 .. Len(t) : t[k] = x
  <2> SUFFICES ASSUME NEW j \in m .. n PROVE \E k \in 1 .. Len(t) : t[k] = s[j]
    OBVIOUS
  <2>1. j - m + 1 \in 1 .. n - m + 1 /\ m + (j - m + 1) - 1 = j
    OBVIOUS
  <2>2. t[j - m + 1] = s[j]
    BY <1>2, <2>1
  <2> QED
    BY <1>2, <2>1, <2>2
<1> QED
  BY <1>2, <1>3, <1>4 DEF Lists, t

\* One member, and none.
LEMMA ListsOne == ASSUME NEW x PROVE Lists(<<x>>, {x})
<1>1. <<x>> \in Seq({x}) /\ Len(<<x>>) = 1 /\ <<x>>[1] = x
  OBVIOUS
<1> QED
  BY <1>1 DEF Lists

LEMMA ListsNone == Lists(<<>>, {})
BY EmptySeq DEF Lists

\* Picking keeps what is in the set, once each.
LEMMA PickedRounds ==
  ASSUME NEW s, Len(s) \in Nat, NEW set
  PROVE  \E g : /\ g[0] = <<>>
                /\ \A k \in 1 .. Len(s) : g[k] = IF s[k] \in set THEN Append(g[k - 1], s[k])
                                                 ELSE g[k - 1]
                /\ Picked(s, set) = g[Len(s)]
<1> DEFINE n == Len(s)
           Step(t, k) == IF s[k] \in set THEN Append(t, s[k]) ELSE t
           Solves(g, m) == g = [k \in 0 .. m |-> IF k = 0 THEN <<>> ELSE Step(g[k - 1], k)]
           T == {m \in Nat : \E g : Solves(g, m)}
<1>1. T = Nat
  <2>1. ASSUME NEW m \in Nat, \A j \in 0 .. m - 1 : j \in T PROVE m \in T
    <3> HIDE DEF Step
    <3>1. CASE m = 0
      <4>1. Solves([k \in 0 .. 0 |-> <<>>], 0)
        OBVIOUS
      <4> QED
        BY <4>1, <3>1
    <3>2. CASE m # 0
      <4>0. m - 1 \in T
        <5> HIDE DEF T
        <5>1. m - 1 \in 0 .. m - 1
          BY <3>2
        <5> QED
          BY <2>1, <5>1
      <4>1. PICK g : Solves(g, m - 1)
        <5> HIDE DEF Solves
        <5> QED
          BY <4>0
      <4>2. Solves([k \in 0 .. m |-> IF k < m THEN g[k] ELSE Step(g[k - 1], k)], m)
        BY <4>1, <3>2
      <4> QED
        BY <4>2
    <3> QED
      BY <3>1, <3>2
  <2> QED
    BY <2>1, StrongInduction
<1> DEFINE picked == CHOOSE g : Solves(g, n)
<1>2. Solves(picked, n)
  BY <1>1
<1>3. Picked(s, set) = picked[n]
  BY DEF Picked
<1> HIDE DEF picked
<1>4. picked[0] = <<>> /\ \A k \in 1 .. n : picked[k] = Step(picked[k - 1], k)
  <2> HIDE DEF Step, n
  <2>1. n \in Nat
    BY DEF n
  <2> QED
    BY <1>2, <2>1
<1> QED
  BY <1>3, <1>4

\* Picking from any sequence, and from one that has every line once.
LEMMA PickedType ==
  ASSUME NEW S, NEW s \in Seq(S), NEW set
  PROVE  Picked(s, set) \in Seq(S \cap set) /\ Len(Picked(s, set)) <= Len(s)
<1>1. Len(s) \in Nat
  OBVIOUS
<1>2. PICK g : /\ g[0] = <<>>
               /\ \A k \in 1 .. Len(s) : g[k] = IF s[k] \in set THEN Append(g[k - 1], s[k])
                                                ELSE g[k - 1]
               /\ Picked(s, set) = g[Len(s)]
  BY <1>1, PickedRounds
<1> DEFINE Good(k) == g[k] \in Seq(S \cap set) /\ Len(g[k]) <= k
           U == {k \in Nat : k <= Len(s) => Good(k)}
<1>3. ASSUME NEW k \in Nat, \A j \in 0 .. k - 1 : j \in U PROVE k \in U
  <2>1. CASE k = 0
    <3>1. <<>> \in Seq(S \cap set) /\ Len(<<>>) = 0
      OBVIOUS
    <3>2. Good(0)
      BY <1>2, <3>1
    <3> HIDE DEF Good
    <3> QED
      BY <2>1, <3>2
  <2>2. CASE k # 0 /\ k <= Len(s)
    <3>1. g[k] = IF s[k] \in set THEN Append(g[k - 1], s[k]) ELSE g[k - 1]
      BY <1>1, <1>2, <2>2
    <3>2. k - 1 \in 0 .. k - 1 /\ k - 1 <= Len(s) /\ k \in 1 .. Len(s)
      BY <1>1, <2>2
    <3>3. Good(k - 1)
      <4> HIDE DEF Good
      <4>1. k - 1 \in U
        <5> HIDE DEF U
        <5> QED
          BY <1>3, <3>2
      <4> QED
        BY <3>2, <4>1
    <3>4. CASE s[k] \in set
      <4>1. s[k] \in S \cap set
        BY <3>2, <3>4
      <4>2. Append(g[k - 1], s[k]) \in Seq(S \cap set)
            /\ Len(Append(g[k - 1], s[k])) = Len(g[k - 1]) + 1 /\ Len(g[k - 1]) \in Nat
        BY <3>3, <4>1, AppendProperties
      <4>3. Good(k)
        BY <2>2, <3>1, <3>3, <3>4, <4>2
      <4> HIDE DEF Good
      <4> QED
        BY <4>3
    <3>5. CASE s[k] \notin set
      <4>1. Len(g[k - 1]) \in Nat
        BY <3>3
      <4>2. Good(k)
        BY <2>2, <3>1, <3>3, <3>5, <4>1
      <4> HIDE DEF Good
      <4> QED
        BY <4>2
    <3> QED
      BY <3>4, <3>5
  <2> HIDE DEF Good
  <2> QED
    BY <2>1, <2>2
<1>4. U = Nat
  <2>1. U \subseteq Nat
    OBVIOUS
  <2> HIDE DEF U
  <2> QED
    BY <1>3, <2>1, StrongInduction
<1>5. Good(Len(s))
  <2> HIDE DEF Good
  <2>1. Len(s) \in U /\ Len(s) <= Len(s)
    BY <1>1, <1>4
  <2> QED
    BY <2>1
<1> QED
  BY <1>2, <1>5

LEMMA PickedProperties ==
  ASSUME NEW T, NEW s, Lists(s, T), NEW set
  PROVE  Lists(Picked(s, set), T \cap set) /\ Len(Picked(s, set)) <= Len(s)
<1>1. Len(s) \in Nat
  BY DEF Lists
<1>2. PICK g : /\ g[0] = <<>>
               /\ \A k \in 1 .. Len(s) : g[k] = IF s[k] \in set THEN Append(g[k - 1], s[k])
                                                ELSE g[k - 1]
               /\ Picked(s, set) = g[Len(s)]
  BY <1>1, PickedRounds
<1> DEFINE Seen(k) == {s[j] : j \in 1 .. k}
           Good(k) == Lists(g[k], Seen(k) \cap set) /\ Len(g[k]) <= k
           U == {k \in Nat : k <= Len(s) => Good(k)}
<1>3. ASSUME NEW k \in Nat, \A j \in 0 .. k - 1 : j \in U PROVE k \in U
  <2>1. CASE k = 0
    <3>1. Seen(0) \cap set = {} /\ Len(<<>>) = 0
      OBVIOUS
    <3>2. Len(g[0]) <= 0 /\ g[0] = <<>>
      BY <1>2, <3>1
    <3> HIDE DEF Seen
    <3>3. Good(0)
      BY <3>1, <3>2, ListsNone
    <3> HIDE DEF Good
    <3> QED
      BY <2>1, <3>3
  <2>2. CASE k # 0 /\ k <= Len(s)
    <3>0. g[k] = IF s[k] \in set THEN Append(g[k - 1], s[k]) ELSE g[k - 1]
      BY <1>1, <1>2, <2>2
    <3>a. k - 1 \in U /\ k - 1 <= Len(s)
      <4>1. k - 1 \in 0 .. k - 1 /\ k - 1 <= Len(s)
        BY <1>1, <2>2
      <4> QED
        BY <1>3, <4>1
    <3>1. Good(k - 1) /\ g[k] = IF s[k] \in set THEN Append(g[k - 1], s[k]) ELSE g[k - 1]
      <4> HIDE DEF Good
      <4> QED
        BY <3>0, <3>a
    <3>2. Seen(k) = Seen(k - 1) \cup {s[k]}
      <4>1. 1 .. k = (1 .. k - 1) \cup {k}
        BY <2>2
      <4> QED
        BY <4>1
    <3>3. s[k] \notin Seen(k - 1)
      <4> SUFFICES ASSUME NEW j \in 1 .. k - 1, s[k] = s[j] PROVE FALSE
        OBVIOUS
      <4>1. j \in 1 .. Len(s) /\ k \in 1 .. Len(s)
        BY <1>1, <2>2
      <4>2. k = j
        BY <4>1 DEF Lists
      <4> QED
        BY <4>2
    <3> HIDE DEF Seen
    <3>4. CASE s[k] \in set
      <4>1. Lists(<<s[k]>>, {s[k]})
        BY ListsOne
      <4>2. Lists(g[k - 1] \o <<s[k]>>, (Seen(k - 1) \cap set) \cup {s[k]})
        BY <3>1, <3>3, <4>1, ListsConcat
      <4>3. g[k - 1] \in Seq((Seen(k - 1) \cap set) \cup {s[k]}) /\ Len(g[k - 1]) <= k - 1
        BY <3>1, SeqMonotonic DEF Lists
      <4>4. g[k] = g[k - 1] \o <<s[k]>> /\ Len(g[k]) = Len(g[k - 1]) + 1
        BY <3>1, <3>4, <4>3, AppendIsConcat, AppendProperties
      <4>5. (Seen(k - 1) \cap set) \cup {s[k]} = Seen(k) \cap set
        BY <3>2, <3>4
      <4>6. Len(g[k - 1]) \in Nat
        BY <4>3
      <4>7. Len(g[k]) <= k
        BY <2>2, <4>3, <4>4, <4>6
      <4> QED
        BY <4>2, <4>4, <4>5, <4>7
    <3>5. CASE s[k] \notin set
      <4>1. Seen(k) \cap set = Seen(k - 1) \cap set /\ g[k] = g[k - 1]
        BY <3>1, <3>2, <3>5
      <4>2. Len(g[k - 1]) \in Nat
        BY <3>1 DEF Lists
      <4>3. Len(g[k]) <= k
        BY <2>2, <3>1, <4>1, <4>2
      <4> QED
        BY <3>1, <4>1, <4>3
    <3> QED
      BY <3>4, <3>5
  <2> QED
    BY <2>1, <2>2
<1>4. U = Nat
  <2>1. U \subseteq Nat
    OBVIOUS
  <2> HIDE DEF U
  <2> QED
    BY <1>3, <2>1, StrongInduction
<1>5. Good(Len(s))
  <2> HIDE DEF Good
  <2>1. Len(s) \in U /\ Len(s) <= Len(s)
    BY <1>1, <1>4
  <2> QED
    BY <2>1
<1>6. Seen(Len(s)) = T
  BY DEF Lists
<1> QED
  BY <1>2, <1>5, <1>6

-----------------------------------------------------------------------------
\* renderList goes through the block once: what it does with the two parts of a block,
\* the lists nested in its first item and the items after that, is shorter.
NestedLines(doc, p) == SubSeq(p[1], 2, NextItem(doc, p[1], p[2]) - 1)
NestedItems(doc, p) == Picked(NestedLines(doc, p), Items(doc))
OtherItems(doc, p)  == SubSeq(p[1], NextItem(doc, p[1], p[2]), Len(p[1]))

ListBlock(doc) == Seq(DOMAIN doc) \X Nat

LEMMA PartsAreShorter ==
  ASSUME NEW doc \in Seq(LineType), NEW p \in ListBlock(doc), p[1] # <<>>
  PROVE  /\ NextItem(doc, p[1], p[2]) \in 2 .. Len(p[1]) + 1
         /\ NestedItems(doc, p) \in Seq(DOMAIN doc) /\ Len(NestedItems(doc, p)) < Len(p[1])
         /\ OtherItems(doc, p) \in Seq(DOMAIN doc) /\ Len(OtherItems(doc, p)) < Len(p[1])
<1> DEFINE b == p[1]
           own == {k \in DOMAIN b : b[k] \in Items(doc) /\ doc[b[k]].indent <= p[2]}
           next == NextItem(doc, b, p[2])
<1>1. b \in Seq(DOMAIN doc) /\ Len(b) \in Nat /\ Len(b) >= 1 /\ DOMAIN b = 1 .. Len(b)
  BY EmptySeq DEF ListBlock
<1>2. next \in 2 .. Len(b) + 1
  <2>1. own \in SUBSET (1 .. Len(b)) /\ 2 \in 1 .. Len(b) + 1
    BY <1>1
  <2>2. next = Beyond(b, 2, own)
    BY DEF NextItem
  <2> HIDE DEF own, next, b
  <2> QED
    BY <1>1, <2>1, <2>2, BeyondProperties
<1> HIDE DEF own, next, b
<1>3. SubSeq(b, 2, next - 1) \in Seq(DOMAIN doc) /\ Len(SubSeq(b, 2, next - 1)) = next - 2
  <2>1. \A k \in 2 .. next - 1 : b[k] \in DOMAIN doc
    BY <1>1, <1>2
  <2>2. 2 \in Int /\ next - 1 \in Int
    BY <1>2
  <2>3. Len(SubSeq(b, 2, next - 1)) = IF 2 <= next - 1 THEN next - 1 - 2 + 1 ELSE 0
    BY ONLY <2>1, <2>2, SubSeqProperties
  <2>4. Len(SubSeq(b, 2, next - 1)) = next - 2
    BY <1>2, <2>3
  <2>5. SubSeq(b, 2, next - 1) \in Seq(DOMAIN doc)
    BY ONLY <2>1, <2>2, SubSeqProperties
  <2> QED
    BY <2>4, <2>5
<1>4. /\ SubSeq(b, next, Len(b)) \in Seq(DOMAIN doc)
      /\ Len(SubSeq(b, next, Len(b))) = Len(b) - next + 1
  <2>1. \A k \in next .. Len(b) : b[k] \in DOMAIN doc
    BY <1>1, <1>2
  <2>2. next \in Int /\ Len(b) \in Int
    BY <1>1, <1>2
  <2>3. Len(SubSeq(b, next, Len(b))) = IF next <= Len(b) THEN Len(b) - next + 1 ELSE 0
    BY ONLY <2>1, <2>2, SubSeqProperties
  <2>4. Len(SubSeq(b, next, Len(b))) = Len(b) - next + 1
    BY <1>1, <1>2, <2>3
  <2>5. SubSeq(b, next, Len(b)) \in Seq(DOMAIN doc)
    BY ONLY <2>1, <2>2, SubSeqProperties
  <2> QED
    BY <2>4, <2>5
<1> DEFINE rest == SubSeq(b, 2, next - 1)
           items == Picked(rest, Items(doc))
<1>5. items \in Seq(DOMAIN doc) /\ Len(items) < Len(b)
  <2> HIDE DEF rest
  <2>1. items \in Seq(DOMAIN doc \cap Items(doc)) /\ Len(items) <= Len(rest)
    BY <1>3, PickedType DEF rest
  <2> HIDE DEF items
  <2>2. items \in Seq(DOMAIN doc)
    BY <2>1, SeqMonotonic
  <2>3. Len(items) \in Nat /\ Len(rest) = next - 2
    BY <1>3, <2>2 DEF rest
  <2> QED
    BY <1>1, <1>2, <2>1, <2>2, <2>3
<1>6. Len(b) - next + 1 < Len(b)
  BY <1>1, <1>2
<1> QED
  BY <1>2, <1>4, <1>5, <1>6 DEF b, next, NestedItems, NestedLines, OtherItems

\* What a block lists, part by part.
LEMMA ListParts ==
  ASSUME NEW doc \in Seq(LineType), NEW p \in Seq(DOMAIN doc) \X Nat, p[1] # <<>>,
         NEW T, Lists(p[1], T)
  PROVE  \E R, O : /\ T = {p[1][1]} \cup (R \cup O)
                   /\ p[1][1] \notin R \cup O /\ R \cap O = {}
                   /\ Lists(NestedLines(doc, p), R) /\ Lists(OtherItems(doc, p), O)
                   /\ Len(NestedLines(doc, p)) < Len(p[1])
                   /\ Len(OtherItems(doc, p)) < Len(p[1])
<1> DEFINE b == p[1]
           own == {k \in DOMAIN b : b[k] \in Items(doc) /\ doc[b[k]].indent <= p[2]}
           next == NextItem(doc, b, p[2])
           R == {b[k] : k \in 2 .. next - 1}
           O == {b[k] : k \in next .. Len(b)}
<1>1. b \in Seq(T) /\ Len(b) \in Nat /\ Len(b) >= 1 /\ DOMAIN b = 1 .. Len(b)
  BY DEF Lists
<1>2. next \in 2 .. Len(b) + 1
  <2>1. own \in SUBSET (1 .. Len(b)) /\ 2 \in 1 .. Len(b) + 1
    BY <1>1
  <2>2. next = Beyond(b, 2, own)
    BY DEF NextItem
  <2> HIDE DEF own, next, b
  <2> QED
    BY <1>1, <2>1, <2>2, BeyondProperties
<1> HIDE DEF own, next
<1>3. Lists(SubSeq(b, 2, next - 1), R) /\ Len(SubSeq(b, 2, next - 1)) = next - 2
  <2>1. /\ next - 1 \in Nat /\ 1 <= 2 /\ next - 1 <= Len(b) /\ 2 <= (next - 1) + 1
        /\ next - 1 - 2 + 1 = next - 2
    BY <1>1, <1>2
  <2>2. Lists(b, T)
    OBVIOUS
  <2> HIDE DEF b
  <2>3. 2 \in Nat
    OBVIOUS
  <2>4. Lists(SubSeq(b, 2, next - 1), R) /\ Len(SubSeq(b, 2, next - 1)) = next - 1 - 2 + 1
    BY ONLY <2>1, <2>2, <2>3, SubSeqLists
  <2> QED
    BY <2>1, <2>4
<1>4. Lists(SubSeq(b, next, Len(b)), O) /\ Len(SubSeq(b, next, Len(b))) = Len(b) - next + 1
  <2>1. next \in Nat /\ 1 <= next /\ Len(b) <= Len(b) /\ next <= Len(b) + 1
    BY <1>1, <1>2
  <2>2. Lists(b, T)
    OBVIOUS
  <2> HIDE DEF b
  <2> QED
    BY ONLY <1>1, <2>1, <2>2, SubSeqLists
<1>5. /\ T = {b[1]} \cup (R \cup O)
      /\ b[1] \notin R \cup O /\ R \cap O = {}
  <2>1. \A k \in 1 .. Len(b) : b[k] \in T
    BY <1>1
  <2>2. \A x \in T : x \in {b[1]} \cup (R \cup O)
    <3> SUFFICES ASSUME NEW x \in T PROVE x \in {b[1]} \cup (R \cup O)
      OBVIOUS
    <3>1. PICK k \in 1 .. Len(b) : b[k] = x
      BY DEF Lists
    <3>2. k = 1 \/ k \in 2 .. next - 1 \/ k \in next .. Len(b)
      BY <1>1, <1>2
    <3> QED
      BY <3>1, <3>2
  <2>3. \A j, k \in 1 .. Len(b) : b[j] = b[k] => j = k
    BY DEF Lists
  <2>4. /\ 1 \in 1 .. Len(b) /\ 2 .. next - 1 \subseteq 1 .. Len(b) /\ next .. Len(b) \subseteq 1 .. Len(b)
        /\ 1 \notin 2 .. next - 1 /\ 1 \notin next .. Len(b)
        /\ \A k \in 2 .. next - 1 : k \notin next .. Len(b)
    BY <1>1, <1>2
  <2> HIDE DEF b
  <2>5. {b[1]} \cup (R \cup O) \subseteq T
    BY <2>1, <2>4
  <2>6. b[1] \notin R \cup O
    BY <2>3, <2>4
  <2>7. R \cap O = {}
    BY <2>3, <2>4
  <2> QED
    BY <2>2, <2>5, <2>6, <2>7
<1>6. next - 2 < Len(b) /\ Len(b) - next + 1 < Len(b)
  BY <1>1, <1>2
<1> QED
  BY <1>3, <1>4, <1>5, <1>6 DEF NestedLines, OtherItems, next

\* The equation of the recursive function in renderList.
ListStep(doc, g, p) ==
  IF p[1] = <<>> THEN <<>>
  ELSE <<p[1][1]>> \o Picked(NestedLines(doc, p), DOMAIN doc \ Items(doc))
         \o (IF NestedItems(doc, p) = <<>> THEN <<>>
             ELSE g[<<NestedItems(doc, p), doc[NestedItems(doc, p)[1]].indent>>])
         \o g[<<OtherItems(doc, p), p[2]>>]

LEMMA renderListDef ==
  ASSUME NEW doc \in Seq(LineType)
  PROVE  \E list : /\ \A p \in ListBlock(doc) : list[p] = ListStep(doc, list, p)
                   /\ \A lines : renderList(doc, lines) = list[<<lines, doc[lines[1]].indent>>]
<1> DEFINE Up(m) == {p \in ListBlock(doc) : Len(p[1]) <= m}
           Upto(g, m) == g = [p \in Up(m) |-> ListStep(doc, g, p)]
           Solves(g) == g = [p \in ListBlock(doc) |-> ListStep(doc, g, p)]
<1>l. \A p \in ListBlock(doc) : Len(p[1]) \in Nat
  BY DEF ListBlock
<1>a. ASSUME NEW p \in ListBlock(doc), NEW g, NEW h,
             \A q \in ListBlock(doc) : Len(q[1]) < Len(p[1]) => g[q] = h[q]
      PROVE  ListStep(doc, g, p) = ListStep(doc, h, p)
  <2>1. CASE p[1] = <<>>
    BY <2>1 DEF ListStep
  <2>2. CASE p[1] # <<>>
    <3> DEFINE items == NestedItems(doc, p)
               q == <<items, doc[items[1]].indent>>
               r == <<OtherItems(doc, p), p[2]>>
    <3>1. items \in Seq(DOMAIN doc) /\ Len(items) < Len(p[1])
      BY <2>2, PartsAreShorter
    <3>2. OtherItems(doc, p) \in Seq(DOMAIN doc) /\ Len(OtherItems(doc, p)) < Len(p[1])
      BY <2>2, PartsAreShorter
    <3>3. g[r] = h[r]
      <4>1. r \in ListBlock(doc) /\ r[1] = OtherItems(doc, p)
        BY <3>2 DEF ListBlock
      <4> QED
        BY <1>a, <3>2, <4>1
    <3>4. ASSUME items # <<>> PROVE g[q] = h[q]
      <4> HIDE DEF items
      <4>1. items[1] \in DOMAIN doc
        BY <3>1, <3>4, EmptySeq
      <4>2. doc[items[1]].indent \in Nat
        BY <4>1 DEF LineType
      <4>3. q \in ListBlock(doc) /\ q[1] = items
        BY <3>1, <4>2 DEF ListBlock
      <4> QED
        BY <1>a, <3>1, <4>3
    <3> QED
      BY <3>3, <3>4 DEF ListStep
  <2> QED
    BY <2>1, <2>2
<1> DEFINE T == {m \in Nat : \E g : Upto(g, m)}
<1>1. T = Nat
  <2>1. ASSUME NEW m \in Nat, \A j \in 0 .. m - 1 : j \in T PROVE m \in T
    <3>1. \E g : \A p \in ListBlock(doc) : Len(p[1]) < m => g[p] = ListStep(doc, g, p)
      <4>1. CASE m = 0
        BY <1>l, <4>1
      <4>2. CASE m # 0
        <5>0. m - 1 \in T
          <6> HIDE DEF T
          <6>1. m - 1 \in 0 .. m - 1
            BY <4>2
          <6> QED
            BY <2>1, <6>1
        <5>1. PICK g : Upto(g, m - 1)
          <6> HIDE DEF Upto
          <6> QED
            BY <5>0
        <5>2. \A p \in ListBlock(doc) : Len(p[1]) < m => p \in Up(m - 1)
          BY <1>l
        <5> QED
          BY <5>1, <5>2
      <4> QED
        BY <4>1, <4>2
    <3>2. PICK g : \A p \in ListBlock(doc) : Len(p[1]) < m => g[p] = ListStep(doc, g, p)
      BY <3>1
    <3> DEFINE h == [p \in Up(m) |-> ListStep(doc, g, p)]
    <3>3. \A p \in Up(m) : \A q \in ListBlock(doc) : Len(q[1]) < Len(p[1]) => g[q] = h[q]
      BY <1>l, <3>2
    <3>4. \A p \in Up(m) : ListStep(doc, g, p) = ListStep(doc, h, p)
      <4> HIDE DEF h
      <4> QED
        BY <1>a, <3>3
    <3>5. Upto(h, m)
      BY <3>4
    <3>6. \E f : Upto(f, m)
      BY <3>5
    <3> HIDE DEF Upto
    <3> QED
      BY <3>6
  <2>2. T \subseteq Nat
    OBVIOUS
  <2> HIDE DEF T
  <2> QED
    BY <2>1, <2>2, StrongInduction
<1>2. ASSUME NEW m \in Nat, NEW n \in Nat, NEW g, NEW h, Upto(g, m), Upto(h, n), m <= n
      PROVE  \A p \in Up(m) : g[p] = h[p]
  <2> DEFINE U == {k \in Nat : \A p \in Up(m) : Len(p[1]) = k => g[p] = h[p]}
  <2>1. ASSUME NEW k \in Nat, \A j \in 0 .. k - 1 : j \in U PROVE k \in U
    <3> SUFFICES ASSUME NEW p \in Up(m), Len(p[1]) = k PROVE g[p] = h[p]
      OBVIOUS
    <3>1. \A q \in ListBlock(doc) : Len(q[1]) < Len(p[1]) => g[q] = h[q]
      <4> SUFFICES ASSUME NEW q \in ListBlock(doc), Len(q[1]) < Len(p[1]) PROVE g[q] = h[q]
        OBVIOUS
      <4>1. Len(q[1]) \in 0 .. k - 1 /\ q \in Up(m)
        BY <1>l
      <4>2. Len(q[1]) \in U
        <5> HIDE DEF U
        <5> QED
          BY <2>1, <4>1
      <4> QED
        BY <4>1, <4>2
    <3>2. ListStep(doc, g, p) = ListStep(doc, h, p)
      BY <1>a, <3>1
    <3>3. p \in Up(n)
      BY <1>l, <1>2
    <3> QED
      BY <1>2, <3>2, <3>3
  <2>2. U = Nat
    <3>1. U \subseteq Nat
      OBVIOUS
    <3> HIDE DEF U
    <3> QED
      BY <2>1, <3>1, StrongInduction
  <2> QED
    BY <1>l, <2>2
<1> DEFINE G == [m \in Nat |-> CHOOSE g : Upto(g, m)]
           f == [p \in ListBlock(doc) |-> G[Len(p[1])][p]]
<1>3. \A m \in Nat : Upto(G[m], m)
  <2> SUFFICES ASSUME NEW m \in Nat PROVE Upto(G[m], m)
    OBVIOUS
  <2>1. m \in T
    BY <1>1
  <2> HIDE DEF Upto
  <2>2. \E g : Upto(g, m)
    BY <2>1
  <2> QED
    BY <2>2
<1> HIDE DEF G, T
<1>4. Solves(f)
  <2>1. ASSUME NEW p \in ListBlock(doc) PROVE f[p] = ListStep(doc, f, p)
    <3> DEFINE n == Len(p[1])
    <3>1. n \in Nat /\ Upto(G[n], n)
      BY <1>l, <1>3
    <3>2. \A q \in ListBlock(doc) : Len(q[1]) < Len(p[1]) => f[q] = G[n][q]
      <4> SUFFICES ASSUME NEW q \in ListBlock(doc), Len(q[1]) < n PROVE G[Len(q[1])][q] = G[n][q]
        OBVIOUS
      <4>a. Len(q[1]) \in Nat /\ Len(q[1]) <= n
        BY <1>l, <3>1
      <4>1. Len(q[1]) \in Nat /\ Upto(G[Len(q[1])], Len(q[1])) /\ Len(q[1]) <= n
        <5> HIDE DEF Upto
        <5> QED
          BY <1>3, <4>a
      <4>2. q \in Up(Len(q[1]))
        BY <4>1
      <4> HIDE DEF Upto, n
      <4> QED
        BY <1>2, <3>1, <4>1, <4>2
    <3>3. ListStep(doc, f, p) = ListStep(doc, G[n], p)
      <4> HIDE DEF f
      <4> QED
        BY <1>a, <3>2
    <3>4. p \in Up(n)
      BY <3>1
    <3> QED
      BY <3>1, <3>3, <3>4
  <2> HIDE DEF f
  <2>2. f = [p \in ListBlock(doc) |-> f[p]]
    BY DEF f
  <2> QED
    BY <2>1, <2>2
<1> HIDE DEF f
<1> DEFINE list == CHOOSE g : Solves(g)
<1>5. Solves(list)
  BY <1>4
<1>6. \A lines : renderList(doc, lines) = list[<<lines, doc[lines[1]].indent>>]
  BY DEF renderList, ListStep, ListBlock, NestedItems, NestedLines, OtherItems
<1> HIDE DEF list
<1>7. \A p \in ListBlock(doc) : list[p] = ListStep(doc, list, p)
  BY <1>5
<1> QED
  BY <1>6, <1>7

\* renderList gives out every line of its block once.
LEMMA ListIsWhole ==
  ASSUME NEW doc \in Seq(LineType), NEW lines \in Seq(DOMAIN doc), lines # <<>>,
         NEW T, Lists(lines, T)
  PROVE  Lists(renderList(doc, lines), T)
<1>1. PICK list : /\ \A p \in ListBlock(doc) : list[p] = ListStep(doc, list, p)
                  /\ \A b : renderList(doc, b) = list[<<b, doc[b[1]].indent>>]
  BY renderListDef
<1> DEFINE Good(p) == \A A : Lists(p[1], A) => Lists(list[p], A)
           U == {n \in Nat : \A p \in ListBlock(doc) : Len(p[1]) = n => Good(p)}
<1>2. ASSUME NEW n \in Nat, \A m \in 0 .. n - 1 : m \in U PROVE n \in U
  <2> SUFFICES ASSUME NEW p \in ListBlock(doc), Len(p[1]) = n, NEW A, Lists(p[1], A)
               PROVE  Lists(list[p], A)
    OBVIOUS
  <2>0. \A q \in ListBlock(doc) : Len(q[1]) < n => Good(q)
    <3> SUFFICES ASSUME NEW q \in ListBlock(doc), Len(q[1]) < n PROVE Good(q)
      OBVIOUS
    <3>1. Len(q[1]) \in 0 .. n - 1
      BY DEF ListBlock
    <3>2. Len(q[1]) \in U
      <4> HIDE DEF U
      <4> QED
        BY <1>2, <3>1
    <3> HIDE DEF Good
    <3> QED
      BY <3>2
  <2> HIDE DEF U
  <2>1. CASE p[1] = <<>>
    <3>1. list[p] = <<>>
      BY <1>1, <2>1 DEF ListStep
    <3>2. list[p] = p[1]
      BY <2>1, <3>1
    <3> QED
      BY <3>2
  <2>2. CASE p[1] # <<>>
    <3> DEFINE rest == NestedLines(doc, p)
               items == NestedItems(doc, p)
               text == Picked(rest, DOMAIN doc \ Items(doc))
               others == OtherItems(doc, p)
               nested == IF items = <<>> THEN <<>> ELSE list[<<items, doc[items[1]].indent>>]
    <3>1. PICK R, O : /\ A = {p[1][1]} \cup (R \cup O)
                      /\ p[1][1] \notin R \cup O /\ R \cap O = {}
                      /\ Lists(rest, R) /\ Lists(others, O)
      BY <2>2, ListParts DEF ListBlock
    <3>2. /\ items \in Seq(DOMAIN doc) /\ Len(items) < n
          /\ others \in Seq(DOMAIN doc) /\ Len(others) < n
      BY <2>2, PartsAreShorter
    <3>3. Lists(items, R \cap Items(doc)) /\ Lists(text, R \cap (DOMAIN doc \ Items(doc)))
      BY <3>1, PickedProperties DEF NestedItems
    <3>4. list[p] = <<p[1][1]>> \o text \o nested \o list[<<others, p[2]>>]
      BY <1>1, <2>2 DEF ListStep
    <3>5. R \subseteq DOMAIN doc
      <4>1. \A x \in A : x \in DOMAIN doc
        <5> SUFFICES ASSUME NEW x \in A PROVE x \in DOMAIN doc
          OBVIOUS
        <5>1. PICK k \in 1 .. Len(p[1]) : p[1][k] = x
          BY DEF Lists
        <5> QED
          BY <5>1 DEF ListBlock
      <4> QED
        BY <3>1, <4>1
    <3> HIDE DEF rest, text, others
    <3>6. Lists(list[<<others, p[2]>>], O)
      <4>1. <<others, p[2]>> \in ListBlock(doc) /\ <<others, p[2]>>[1] = others
        BY <3>2 DEF ListBlock
      <4> QED
        BY <2>0, <3>1, <3>2, <4>1
    <3>7. Lists(nested, R \cap Items(doc))
      <4>1. CASE items = <<>>
        <5>1. nested = items
          BY <4>1
        <5> QED
          BY <3>3, <5>1
      <4>2. CASE items # <<>>
        <5> HIDE DEF items
        <5>1. items[1] \in DOMAIN doc
          BY <3>2, <4>2, EmptySeq
        <5>2. doc[items[1]].indent \in Nat
          BY <5>1 DEF LineType
        <5> DEFINE q == <<items, doc[items[1]].indent>>
        <5>3. q \in ListBlock(doc) /\ q[1] = items
          BY <3>2, <5>2 DEF ListBlock
        <5>4. nested = list[q]
          BY <4>2
        <5> HIDE DEF q, nested
        <5> QED
          BY <2>0, <3>2, <3>3, <5>3, <5>4
      <4> QED
        BY <4>1, <4>2
    <3> HIDE DEF items, nested
    <3>8. Lists(<<p[1][1]>>, {p[1][1]})
      BY ListsOne
    <3> DEFINE x == p[1][1]
               S1 == R \cap (DOMAIN doc \ Items(doc))
               S2 == R \cap Items(doc)
    <3>9. Lists(<<x>> \o text, {x} \cup S1)
      BY <3>1, <3>3, <3>8, ListsConcat
    <3>10. Lists((<<x>> \o text) \o nested, ({x} \cup S1) \cup S2)
      <4>1. ({x} \cup S1) \cap S2 = {}
        BY <3>1
      <4> QED
        BY <3>7, <3>9, <4>1, ListsConcat
    <3>11. Lists(((<<x>> \o text) \o nested) \o list[<<others, p[2]>>], (({x} \cup S1) \cup S2) \cup O)
      <4>1. (({x} \cup S1) \cup S2) \cap O = {}
        BY <3>1
      <4> QED
        BY <3>6, <3>10, <4>1, ListsConcat
    <3>12. (({x} \cup S1) \cup S2) \cup O = A
      BY <3>1, <3>5
    <3> QED
      BY <3>4, <3>11, <3>12
  <2> QED
    BY <2>1, <2>2
<1>3. U = Nat
  <2>1. U \subseteq Nat
    OBVIOUS
  <2> HIDE DEF U
  <2> QED
    BY <1>2, <2>1, StrongInduction
<1> DEFINE p == <<lines, doc[lines[1]].indent>>
<1>4. p \in ListBlock(doc) /\ p[1] = lines
  <2>1. lines[1] \in DOMAIN doc
    BY EmptySeq
  <2>2. doc[lines[1]].indent \in Nat
    BY <2>1 DEF LineType
  <2> QED
    BY <2>2 DEF ListBlock
<1>5. Len(p[1]) \in Nat
  BY <1>4
<1>6. renderList(doc, lines) = list[p]
  BY <1>1
<1> HIDE DEF p
<1>7. Good(p)
  <2> HIDE DEF Good
  <2>1. Len(p[1]) \in U
    BY <1>3, <1>5
  <2> QED
    BY <1>4, <2>1
<1> QED
  BY <1>4, <1>6, <1>7

-----------------------------------------------------------------------------
Textual == {"text", "heading", "quote", "item", "row"}

Increasing(lines) == \A m, n \in 1 .. Len(lines) : m < n => lines[m] < lines[n]

\* The block of a round at line i that lists the lines T: they are of the stretch up to
\* where the next round begins and nothing of its text is missing.
Covers(doc, i, b, T) ==
  /\ b.first = i /\ b.next \in i .. Len(doc) + 2
  /\ Lists(b.lines, T) /\ T \subseteq i .. b.next - 1 /\ T \subseteq DOMAIN doc
  /\ \A j \in i .. b.next - 1 : j \in DOMAIN doc /\ doc[j].kind \in Textual => j \in T
  /\ b.tag # "list" => Increasing(b.lines)

\* Its fences, when they are plain: those around code, and no others.
Fenced(doc, i, b, T) ==
  IF b.tag = "pre"
  THEN /\ doc[i].kind \in FenceKind /\ b.next > i + 1
       /\ \A j \in DOMAIN doc : i < j /\ j < b.next - 1 => j \in T /\ doc[j].kind # "tick"
       /\ i \notin T /\ b.next - 1 \notin T
       /\ b.next - 1 \in DOMAIN doc => doc[b.next - 1].kind = "tick"
  ELSE \A j \in DOMAIN doc : i <= j /\ j < b.next => doc[j].kind \notin FenceKind

\* A stretch of lines, in order.
LEMMA Stretch ==
  ASSUME NEW doc \in Seq(LineType), NEW i \in DOMAIN doc, NEW end \in i .. Len(doc) + 1
  PROVE  /\ Lists(Numbers(i, end), i .. end - 1) /\ Increasing(Numbers(i, end))
         /\ i .. end - 1 \subseteq DOMAIN doc
<1>1. i \in Nat /\ end \in Nat /\ i <= end /\ DOMAIN doc = 1 .. Len(doc) /\ Len(doc) \in Nat
  OBVIOUS
<1>2. /\ Lists(Numbers(i, end), i .. end - 1)
      /\ Len(Numbers(i, end)) = end - i
      /\ \A n \in 1 .. end - i : Numbers(i, end)[n] = i + n - 1
  BY <1>1, NumbersProperties
<1>3. Increasing(Numbers(i, end))
  BY <1>1, <1>2 DEF Increasing
<1> QED
  BY <1>1, <1>2, <1>3

\* Code: up to the fence that closes it, or to the end of the document.
LEMMA CodeCovers ==
  ASSUME NEW doc \in Seq(LineType), NEW i \in DOMAIN doc, doc[i].kind \in FenceKind
  PROVE  \E T : /\ Covers(doc, i, Code(doc, i), T)
                /\ PlainFences(doc) => Fenced(doc, i, Code(doc, i), T)
<1> DEFINE closers == {j \in DOMAIN doc : Closes(doc[j], doc[i])}
           end == Beyond(doc, i + 1, closers)
           lines == Numbers(i + 1, end)
           b == Code(doc, i)
           T == i + 1 .. end - 1
<1>1. DOMAIN doc = 1 .. Len(doc) /\ Len(doc) \in Nat /\ i \in 1 .. Len(doc)
  OBVIOUS
<1>2. /\ end \in i + 1 .. Len(doc) + 1
      /\ end <= Len(doc) => end \in closers
      /\ \A k \in i + 1 .. end - 1 : k \notin closers
  <2>1. i + 1 \in 1 .. Len(doc) + 1 /\ closers \in SUBSET (1 .. Len(doc))
    BY <1>1
  <2> HIDE DEF closers
  <2> QED
    BY <2>1, BeyondProperties
<1>3. b = [tag |-> "pre", first |-> i, lines |-> lines, next |-> end + 1]
  BY DEF Code, Block
<1> HIDE DEF end, b
<1>4. /\ Lists(lines, T) /\ Len(lines) = end - (i + 1)
      /\ \A n \in 1 .. end - (i + 1) : lines[n] = i + 1 + n - 1
  <2>1. i + 1 \in Nat /\ end \in Nat /\ i + 1 <= end
    BY <1>1, <1>2
  <2> QED
    BY <2>1, NumbersProperties
<1> HIDE DEF lines
<1>5. Increasing(lines)
  BY <1>1, <1>2, <1>4 DEF Increasing
<1>6. /\ b.next \in i .. Len(doc) + 2 /\ T \subseteq i .. b.next - 1 /\ T \subseteq DOMAIN doc
      /\ b.next > i + 1
  BY <1>1, <1>2, <1>3
<1>7. /\ b.next = end + 1
      /\ ~(doc[i].kind \in Textual)
      /\ end \in DOMAIN doc => ~(doc[end].kind \in Textual)
  BY <1>1, <1>2, <1>3 DEF Closes, FenceKind, Textual
<1>8. \A j \in i .. b.next - 1 : j \in DOMAIN doc /\ doc[j].kind \in Textual => j \in T
  <2> SUFFICES ASSUME NEW j \in i .. b.next - 1, j \in DOMAIN doc, doc[j].kind \in Textual
               PROVE  j \in T
    OBVIOUS
  <2>1. j # i /\ j # end
    BY <1>7
  <2> QED
    BY <1>1, <1>2, <1>7, <2>1
<1>9. Covers(doc, i, b, T)
  BY <1>3, <1>4, <1>5, <1>6, <1>8 DEF Covers
<1>10. ASSUME PlainFences(doc) PROVE Fenced(doc, i, b, T)
  <2>1. \A j \in DOMAIN doc : j \in closers <=> doc[j].kind = "tick"
    BY <1>1, <1>10 DEF PlainFences, Closes
  <2>2. \A j \in DOMAIN doc : i < j /\ j < b.next - 1 => j \in T /\ doc[j].kind # "tick"
    <3> SUFFICES ASSUME NEW j \in DOMAIN doc, i < j, j < b.next - 1
                 PROVE  j \in T /\ doc[j].kind # "tick"
      OBVIOUS
    <3>1. j \in T
      BY <1>1, <1>2, <1>7
    <3> HIDE DEF closers
    <3> QED
      BY <1>2, <2>1, <3>1
  <2>3. i \notin T /\ b.next - 1 \notin T
    BY <1>1, <1>2, <1>7
  <2>4. b.next - 1 \in DOMAIN doc => doc[b.next - 1].kind = "tick"
    <3>1. b.next - 1 = end
      BY <1>1, <1>2, <1>7
    <3> HIDE DEF closers
    <3> QED
      BY <1>1, <1>2, <2>1, <3>1
  <2> QED
    BY <1>3, <1>6, <2>2, <2>3, <2>4 DEF Fenced
<1> QED
  BY <1>9, <1>10 DEF b

\* Lines of one set of kinds, up to the first that is not.
LEMMA StretchCovers ==
  ASSUME NEW doc \in Seq(LineType), NEW i \in DOMAIN doc, NEW kinds,
         kinds \cap FenceKind = {}, NEW b, NEW tag, tag \notin {"pre", "list"},
         b = Block(tag, i, Numbers(i, Beyond(doc, i, Other(doc, kinds))),
                   Beyond(doc, i, Other(doc, kinds)))
  PROVE  \E T : Covers(doc, i, b, T) /\ Fenced(doc, i, b, T)
<1> DEFINE others == Other(doc, kinds)
           end == Beyond(doc, i, others)
           T == i .. end - 1
<1>1. DOMAIN doc = 1 .. Len(doc) /\ Len(doc) \in Nat /\ i \in 1 .. Len(doc)
  OBVIOUS
<1>2. /\ end \in i .. Len(doc) + 1
      /\ \A k \in i .. end - 1 : k \notin others
  <2>1. i \in 1 .. Len(doc) + 1 /\ others \in SUBSET (1 .. Len(doc))
    BY <1>1 DEF Other
  <2> HIDE DEF others
  <2> QED
    BY <2>1, BeyondProperties
<1>3. b.tag = tag /\ b.first = i /\ b.lines = Numbers(i, end) /\ b.next = end
  BY DEF Block
<1> HIDE DEF end
<1>4. Lists(b.lines, T) /\ Increasing(b.lines) /\ T \subseteq DOMAIN doc
  BY <1>2, <1>3, Stretch
<1>5. Covers(doc, i, b, T)
  <2>1. b.next \in i .. Len(doc) + 2 /\ T = i .. b.next - 1
    BY <1>1, <1>2, <1>3
  <2> QED
    BY <1>3, <1>4, <2>1 DEF Covers
<1>6. \A j \in DOMAIN doc : i <= j /\ j < b.next => doc[j].kind \notin FenceKind
  <2> SUFFICES ASSUME NEW j \in DOMAIN doc, i <= j, j < b.next PROVE doc[j].kind \notin FenceKind
    OBVIOUS
  <2>1. j \in i .. end - 1
    BY <1>1, <1>2, <1>3
  <2> QED
    BY <1>2, <2>1 DEF Other
<1>7. Fenced(doc, i, b, T)
  BY <1>3, <1>6 DEF Fenced
<1> QED
  BY <1>5, <1>7

\* A table: the line it begins with and the rows, without the separator.
LEMMA TableCovers ==
  ASSUME NEW doc \in Seq(LineType), NEW i \in DOMAIN doc, OpensTable(doc, i)
  PROVE  \E T : /\ Covers(doc, i, Table(doc, i), T)
                /\ PlainFences(doc) => Fenced(doc, i, Table(doc, i), T)
<1> DEFINE others == Other(doc, BarKind)
           end == Beyond(doc, i + 2, others)
           rows == Numbers(i + 2, end)
           b == Table(doc, i)
           T == {i} \cup (i + 2 .. end - 1)
<1>1. /\ DOMAIN doc = 1 .. Len(doc) /\ Len(doc) \in Nat /\ i \in 1 .. Len(doc) - 1
      /\ doc[i].kind \in BarKind /\ doc[i + 1].kind \in {"separator", "dashes", "hr"}
  BY DEF OpensTable
<1>2. /\ end \in i + 2 .. Len(doc) + 1
      /\ \A k \in i + 2 .. end - 1 : k \notin others
  <2>1. i + 2 \in 1 .. Len(doc) + 1 /\ others \in SUBSET (1 .. Len(doc))
    BY <1>1 DEF Other
  <2> HIDE DEF others
  <2> QED
    BY <2>1, BeyondProperties
<1>3. b = [tag |-> "table", first |-> i, lines |-> <<i>> \o rows, next |-> end]
  BY DEF Table, Block
<1> HIDE DEF end, b
<1>4. /\ Lists(rows, i + 2 .. end - 1) /\ Len(rows) = end - (i + 2)
      /\ \A n \in 1 .. end - (i + 2) : rows[n] = i + 2 + n - 1
  <2>1. i + 2 \in Nat /\ end \in Nat /\ i + 2 <= end
    BY <1>1, <1>2
  <2> QED
    BY <2>1, NumbersProperties
<1> HIDE DEF rows
<1>5. Lists(<<i>> \o rows, T)
  <2>1. Lists(<<i>>, {i}) /\ {i} \cap (i + 2 .. end - 1) = {}
    BY <1>1, <1>2, ListsOne
  <2> QED
    BY <1>4, <2>1, ListsConcat
<1>6. Increasing(<<i>> \o rows)
  <2>1. <<i>> \in Seq(Int) /\ rows \in Seq(Int) /\ Len(<<i>>) = 1 /\ <<i>>[1] = i
    <3>1. rows \in Seq(i + 2 .. end - 1) /\ i + 2 .. end - 1 \subseteq Int
      BY <1>4 DEF Lists
    <3>2. rows \in Seq(Int)
      BY <3>1, SeqMonotonic
    <3> QED
      BY <1>1, <3>2
  <2>2. /\ Len(<<i>> \o rows) = 1 + Len(rows)
        /\ \A n \in 1 .. 1 + Len(rows) :
             (<<i>> \o rows)[n] = IF n <= 1 THEN <<i>>[n] ELSE rows[n - 1]
    BY <2>1, ConcatProperties
  <2> DEFINE all == <<i>> \o rows
  <2> HIDE DEF all
  <2>3. ASSUME NEW m \in 1 .. Len(all), NEW n \in 1 .. Len(all), m < n PROVE all[m] < all[n]
    <3>1. Len(all) = 1 + (end - (i + 2)) /\ end - (i + 2) \in Nat
      BY <1>1, <1>2, <1>4, <2>2 DEF all
    <3>2. n - 1 \in 1 .. end - (i + 2) /\ n - 1 \in Nat
      BY <2>3, <3>1
    <3>3. all[n] = rows[n - 1]
      BY <2>2, <2>3, <3>1 DEF all
    <3>4. rows[n - 1] = i + 2 + (n - 1) - 1
      BY <1>4, <3>2
    <3>5. CASE m = 1
      <4>1. all[m] = i
        BY <2>1, <2>2, <2>3, <3>5 DEF all
      <4> QED
        BY <1>1, <3>2, <3>3, <3>4, <4>1
    <3>6. CASE m # 1
      <4>1. m - 1 \in 1 .. end - (i + 2)
        BY <2>3, <3>1, <3>6
      <4>2. all[m] = rows[m - 1]
        BY <2>2, <2>3, <3>1, <3>6 DEF all
      <4>3. rows[m - 1] = i + 2 + (m - 1) - 1
        BY <1>4, <4>1
      <4> QED
        BY <1>1, <2>3, <3>3, <3>4, <4>2, <4>3
    <3> QED
      BY <3>5, <3>6
  <2> QED
    BY <2>3 DEF Increasing, all
<1>7. b.next \in i .. Len(doc) + 2 /\ T \subseteq i .. b.next - 1 /\ T \subseteq DOMAIN doc
  BY <1>1, <1>2, <1>3
<1>8. \A j \in i .. b.next - 1 : j \in DOMAIN doc /\ doc[j].kind \in Textual => j \in T
  <2> SUFFICES ASSUME NEW j \in i .. b.next - 1, doc[j].kind \in Textual PROVE j \in T
    OBVIOUS
  <2>1. j # i + 1
    BY <1>1 DEF Textual
  <2> QED
    BY <1>1, <1>2, <1>3, <2>1
<1>9. Covers(doc, i, b, T)
  BY <1>3, <1>5, <1>6, <1>7, <1>8 DEF Covers
<1>10. \A j \in DOMAIN doc : i <= j /\ j < b.next => doc[j].kind \notin FenceKind
  <2> SUFFICES ASSUME NEW j \in DOMAIN doc, i <= j, j < b.next PROVE doc[j].kind \notin FenceKind
    OBVIOUS
  <2>1. CASE j = i \/ j = i + 1
    BY <1>1, <2>1 DEF BarKind, FenceKind
  <2>2. CASE j # i /\ j # i + 1
    <3>1. j \in i + 2 .. end - 1
      BY <1>1, <1>2, <1>3, <2>2
    <3> QED
      BY <1>2, <3>1 DEF Other, BarKind, FenceKind
  <2> QED
    BY <2>1, <2>2
<1>11. Fenced(doc, i, b, T)
  BY <1>3, <1>10 DEF Fenced
<1> QED
  BY <1>9, <1>11 DEF b

\* A list: up to a blank line, or one at the margin that is not an item.
LEMMA ListCovers ==
  ASSUME NEW doc \in Seq(LineType), NEW i \in DOMAIN doc, doc[i].kind = "item"
  PROVE  \E T : /\ Covers(doc, i, List(doc, i), T)
                /\ PlainFences(doc) => Fenced(doc, i, List(doc, i), T)
<1> DEFINE stops == {j \in DOMAIN doc : \/ doc[j].kind = "blank"
                                        \/ doc[j].kind # "item" /\ doc[j].indent = 0}
           end == Beyond(doc, i, stops)
           b == List(doc, i)
           T == i .. end - 1
<1>1. DOMAIN doc = 1 .. Len(doc) /\ Len(doc) \in Nat /\ i \in 1 .. Len(doc)
  OBVIOUS
<1>2. /\ end \in i + 1 .. Len(doc) + 1
      /\ \A k \in i .. end - 1 : k \notin stops
  <2>1. i \in 1 .. Len(doc) + 1 /\ stops \in SUBSET (1 .. Len(doc)) /\ i \notin stops
    BY <1>1
  <2> HIDE DEF stops
  <2>2. /\ end \in i .. Len(doc) + 1
        /\ end <= Len(doc) => end \in stops
        /\ \A k \in i .. end - 1 : k \notin stops
    BY <2>1, BeyondProperties
  <2> HIDE DEF end
  <2>3. end # i
    BY <1>1, <2>1, <2>2
  <2> QED
    BY <1>1, <2>2, <2>3
<1>3. b = [tag |-> "list", first |-> i, lines |-> renderList(doc, Numbers(i, end)), next |-> end]
  BY DEF List, Block
<1> HIDE DEF end, b
<1>4. Lists(Numbers(i, end), T) /\ T \subseteq DOMAIN doc
  <2>1. end \in i .. Len(doc) + 1
    BY <1>1, <1>2
  <2> QED
    BY <2>1, Stretch
<1>5. Numbers(i, end) \in Seq(DOMAIN doc) /\ Numbers(i, end) # <<>>
  <2>1. Numbers(i, end) \in Seq(DOMAIN doc)
    <3> HIDE DEF T
    <3>1. Numbers(i, end) \in Seq(T)
      BY <1>4 DEF Lists
    <3> QED
      BY <1>4, <3>1, SeqMonotonic
  <2>2. Len(Numbers(i, end)) = end - i
    <3>1. i \in Nat /\ end \in Nat /\ i <= end
      BY <1>1, <1>2
    <3> QED
      BY <3>1, NumbersProperties
  <2>3. Len(Numbers(i, end)) # 0
    BY <1>1, <1>2, <2>2
  <2> QED
    BY <2>1, <2>3, EmptySeq
<1>6. Lists(b.lines, T)
  BY <1>3, <1>4, <1>5, ListIsWhole
<1>7. Covers(doc, i, b, T)
  <2>1. b.next \in i .. Len(doc) + 2 /\ T = i .. b.next - 1 /\ b.first = i /\ b.tag = "list"
    BY <1>1, <1>2, <1>3
  <2> QED
    BY <1>4, <1>6, <2>1 DEF Covers
<1>8. ASSUME PlainFences(doc), NEW j \in DOMAIN doc, i <= j, j < b.next
      PROVE  doc[j].kind \notin FenceKind
  <2>1. j \in i .. end - 1
    BY <1>1, <1>2, <1>3, <1>8
  <2>2. ~(doc[j].kind # "item" /\ doc[j].indent = 0)
    BY <1>2, <2>1
  <2> QED
    BY <1>8, <2>2 DEF PlainFences, FenceKind
<1>9. PlainFences(doc) => Fenced(doc, i, b, T)
  BY <1>3, <1>8 DEF Fenced
<1> QED
  BY <1>7, <1>9 DEF b

\* A round that takes one line, into a block of its own or into none.
LEMMA LineCovers ==
  ASSUME NEW doc \in Seq(LineType), NEW i \in DOMAIN doc, doc[i].kind \notin FenceKind,
         NEW tag, tag \notin {"pre", "list"}, NEW lines,
         \/ lines = <<>> /\ doc[i].kind \notin Textual
         \/ lines = <<i>>
  PROVE  \E T : /\ Covers(doc, i, Block(tag, i, lines, i + 1), T)
                /\ Fenced(doc, i, Block(tag, i, lines, i + 1), T)
<1> DEFINE b == Block(tag, i, lines, i + 1)
<1>1. DOMAIN doc = 1 .. Len(doc) /\ Len(doc) \in Nat /\ i \in 1 .. Len(doc)
  OBVIOUS
<1>2. b.tag = tag /\ b.first = i /\ b.lines = lines /\ b.next = i + 1
  BY DEF Block
<1> HIDE DEF b
<1>3. Fenced(doc, i, b, {}) /\ Fenced(doc, i, b, {i})
  <2>1. ASSUME NEW j \in DOMAIN doc, i <= j, j < b.next PROVE doc[j].kind \notin FenceKind
    <3>1. j = i
      BY <1>1, <1>2, <2>1
    <3> QED
      BY <3>1
  <2> QED
    BY <1>2, <2>1 DEF Fenced
<1>4. b.next \in i .. Len(doc) + 2 /\ i .. b.next - 1 = {i}
  BY <1>1, <1>2
<1>5. CASE lines = <<>> /\ doc[i].kind \notin Textual
  <2>1. Lists(b.lines, {}) /\ Increasing(b.lines)
    BY <1>2, <1>5, ListsNone DEF Increasing
  <2>2. Covers(doc, i, b, {})
    BY <1>1, <1>2, <1>4, <1>5, <2>1 DEF Covers
  <2> QED
    BY <1>3, <2>2 DEF b
<1>6. CASE lines = <<i>>
  <2>1. Lists(b.lines, {i}) /\ Increasing(b.lines)
    BY <1>2, <1>6, ListsOne DEF Increasing
  <2>2. Covers(doc, i, b, {i})
    BY <1>1, <1>2, <1>4, <2>1 DEF Covers
  <2> QED
    BY <1>3, <2>2 DEF b
<1> QED
  BY <1>5, <1>6

\* Whatever a round is, its block covers the lines it takes.
LEMMA RoundCovers ==
  ASSUME NEW doc \in Seq(LineType), NEW i \in DOMAIN doc
  PROVE  \E T : /\ Covers(doc, i, Round(doc, i), T)
                /\ PlainFences(doc) => Fenced(doc, i, Round(doc, i), T)
<1> DEFINE kind == doc[i].kind
<1>k. kind \in LineKind
  BY DEF LineType
<1>1. CASE kind \in FenceKind
  <2>1. Round(doc, i) = Code(doc, i)
    BY <1>1 DEF Round, FenceKind, RuleKind, BarKind, OpensTable
  <2> QED
    BY <1>1, <2>1, CodeCovers
<1>2. CASE kind = "blank"
  <2>1. Round(doc, i) = Block("none", i, <<>>, i + 1)
    BY <1>2 DEF Round, FenceKind, RuleKind, BarKind, OpensTable
  <2>2. kind \notin FenceKind /\ kind \notin Textual
    BY <1>2 DEF FenceKind, Textual
  <2> QED
    BY <2>1, <2>2, LineCovers
<1>3. CASE kind \in RuleKind
  <2>1. Round(doc, i) = Block("hr", i, <<>>, i + 1)
    BY <1>3 DEF Round, FenceKind, RuleKind, BarKind, OpensTable
  <2>2. kind \notin FenceKind /\ kind \notin Textual
    BY <1>3 DEF FenceKind, RuleKind, Textual
  <2> QED
    BY <2>1, <2>2, LineCovers
<1>4. CASE kind = "heading"
  <2>1. Round(doc, i) = Block("h", i, <<i>>, i + 1)
    BY <1>4 DEF Round, FenceKind, RuleKind, BarKind, OpensTable
  <2>2. kind \notin FenceKind
    BY <1>4 DEF FenceKind
  <2> QED
    BY <2>1, <2>2, LineCovers
<1>5. CASE kind = "quote"
  <2>1. Round(doc, i) = Quote(doc, i)
    BY <1>5 DEF Round, FenceKind, RuleKind, BarKind, OpensTable
  <2>2. {"quote"} \cap FenceKind = {}
    BY DEF FenceKind
  <2> QED
    BY <2>1, <2>2, StretchCovers DEF Quote
<1>6. CASE OpensTable(doc, i)
  <2>1. Round(doc, i) = Table(doc, i)
    BY <1>6 DEF Round, FenceKind, RuleKind, BarKind, OpensTable
  <2> QED
    BY <1>6, <2>1, TableCovers
<1>7. CASE kind = "item"
  <2>1. Round(doc, i) = List(doc, i)
    BY <1>7 DEF Round, FenceKind, RuleKind, BarKind, OpensTable
  <2> QED
    BY <1>7, <2>1, ListCovers
<1>8. CASE kind \in {"text", "dashes"} \cup BarKind /\ ~OpensTable(doc, i)
  <2>1. Round(doc, i) = Paragraph(doc, i)
    BY <1>8 DEF Round, FenceKind, RuleKind, BarKind
  <2>2. {"text", "dashes"} \cap FenceKind = {}
    BY DEF FenceKind
  <2> QED
    BY <2>1, <2>2, StretchCovers DEF Paragraph
<1> QED
  BY <1>k, <1>1, <1>2, <1>3, <1>4, <1>5, <1>6, <1>7, <1>8 DEF LineKind

\* A round of mdToHtml goes on, except at a line that starts with a bar where no table
\* begins: for every document the finding about the loop has this one cause.
THEOREM OnlyBarsStopIt ==
  ASSUME NEW doc \in Seq(LineType), NEW i \in DOMAIN doc
  PROVE  Round(doc, i).next > i <=> ~(doc[i].kind \in BarKind /\ ~OpensTable(doc, i))
<1> DEFINE kind == doc[i].kind
           others == Other(doc, {"text", "dashes"})
<1>1. DOMAIN doc = 1 .. Len(doc) /\ Len(doc) \in Nat /\ i \in 1 .. Len(doc) /\ kind \in LineKind
  BY DEF LineType
<1>2. ASSUME NEW stops \in SUBSET DOMAIN doc
      PROVE  /\ Beyond(doc, i, stops) \in i .. Len(doc) + 1
             /\ Beyond(doc, i, stops) = i <=> i \in stops
  <2>1. i \in 1 .. Len(doc) + 1 /\ stops \in SUBSET (1 .. Len(doc))
    BY <1>1, <1>2
  <2>2. /\ Beyond(doc, i, stops) \in i .. Len(doc) + 1
        /\ Beyond(doc, i, stops) <= Len(doc) => Beyond(doc, i, stops) \in stops
        /\ \A k \in i .. Beyond(doc, i, stops) - 1 : k \notin stops
    BY <2>1, BeyondProperties
  <2> QED
    BY <1>1, <2>2
<1>3. ASSUME NEW n \in {1, 2}, i + n <= Len(doc) + 1, NEW stops \in SUBSET DOMAIN doc
      PROVE  Beyond(doc, i + n, stops) \in i + n .. Len(doc) + 1
  <2>1. i + n \in 1 .. Len(doc) + 1 /\ stops \in SUBSET (1 .. Len(doc))
    BY <1>1, <1>3
  <2> QED
    BY <2>1, BeyondProperties
<1>4. CASE kind \in BarKind /\ ~OpensTable(doc, i)
  <2>1. Round(doc, i).next = Beyond(doc, i, others)
    BY <1>4 DEF Round, Paragraph, Block, FenceKind, RuleKind, BarKind
  <2>2. i \in others /\ others \in SUBSET DOMAIN doc
    BY <1>4 DEF Other, BarKind
  <2> HIDE DEF others
  <2> QED
    BY <1>1, <1>2, <1>4, <2>1, <2>2
<1>5. CASE OpensTable(doc, i)
  <2>1. Round(doc, i).next = Beyond(doc, i + 2, Other(doc, BarKind))
    BY <1>5 DEF Round, Table, Block, FenceKind, RuleKind, BarKind, OpensTable
  <2>2. i + 2 <= Len(doc) + 1 /\ Other(doc, BarKind) \in SUBSET DOMAIN doc
    BY <1>1, <1>5 DEF OpensTable, Other
  <2>3. Round(doc, i).next \in i + 2 .. Len(doc) + 1
    BY <1>3, <2>1, <2>2
  <2> QED
    BY <1>1, <1>5, <2>3
<1>6. CASE kind \in FenceKind
  <2> DEFINE closers == {j \in DOMAIN doc : Closes(doc[j], doc[i])}
  <2>0. Round(doc, i) = Code(doc, i)
    BY <1>6 DEF Round, FenceKind, RuleKind, BarKind, OpensTable
  <2>1. Round(doc, i).next = Beyond(doc, i + 1, closers) + 1
    BY <2>0 DEF Code, Block
  <2>2. i + 1 <= Len(doc) + 1 /\ closers \in SUBSET DOMAIN doc
    BY <1>1
  <2> HIDE DEF closers
  <2>3. Beyond(doc, i + 1, closers) \in i + 1 .. Len(doc) + 1
    BY <1>3, <2>2
  <2> QED
    BY <1>1, <1>6, <2>1, <2>3 DEF FenceKind, BarKind
<1>7. CASE kind = "item"
  <2> DEFINE stops == {j \in DOMAIN doc : \/ doc[j].kind = "blank"
                                          \/ doc[j].kind # "item" /\ doc[j].indent = 0}
  <2>1. Round(doc, i).next = Beyond(doc, i, stops)
    BY <1>7 DEF Round, List, Block, FenceKind, RuleKind, BarKind, OpensTable
  <2>2. i \notin stops /\ stops \in SUBSET DOMAIN doc
    BY <1>7
  <2> HIDE DEF stops
  <2>3. Beyond(doc, i, stops) \in i .. Len(doc) + 1 /\ Beyond(doc, i, stops) # i
    BY <1>2, <2>2
  <2> QED
    BY <1>1, <1>7, <2>1, <2>3 DEF BarKind
<1>8. CASE kind \in {"text", "dashes"}
  <2>1. Round(doc, i).next = Beyond(doc, i, others)
    BY <1>8 DEF Round, Paragraph, Block, FenceKind, RuleKind, BarKind, OpensTable
  <2>2. i \notin others /\ others \in SUBSET DOMAIN doc
    BY <1>8 DEF Other
  <2> HIDE DEF others
  <2>3. Beyond(doc, i, others) \in i .. Len(doc) + 1 /\ Beyond(doc, i, others) # i
    BY <1>2, <2>2
  <2> QED
    BY <1>1, <1>8, <2>1, <2>3 DEF BarKind
<1>9. CASE kind = "quote"
  <2> DEFINE stops == Other(doc, {"quote"})
  <2>1. Round(doc, i).next = Beyond(doc, i, stops)
    BY <1>9 DEF Round, Quote, Block, FenceKind, RuleKind, BarKind, OpensTable
  <2>2. i \notin stops /\ stops \in SUBSET DOMAIN doc
    BY <1>9 DEF Other
  <2> HIDE DEF stops
  <2>3. Beyond(doc, i, stops) \in i .. Len(doc) + 1 /\ Beyond(doc, i, stops) # i
    BY <1>2, <2>2
  <2> QED
    BY <1>1, <1>9, <2>1, <2>3 DEF BarKind
<1>10. CASE kind \in {"blank", "heading"} \cup RuleKind
  <2>1. Round(doc, i).next = i + 1
    BY <1>10 DEF Round, Block, FenceKind, RuleKind, BarKind, OpensTable
  <2> QED
    BY <1>1, <1>10, <2>1 DEF BarKind, RuleKind
<1> QED
  BY <1>1, <1>4, <1>5, <1>6, <1>7, <1>8, <1>9, <1>10 DEF LineKind

-----------------------------------------------------------------------------
\* The rounds of mdToHtml, one after another.
RenderStep(doc, s) ==
  IF s.i > Len(doc) THEN s
  ELSE [i |-> Round(doc, s.i).next, out |-> Append(s.out, Round(doc, s.i))]

LEMMA RenderRounds ==
  ASSUME NEW doc, Len(doc) \in Nat
  PROVE  \E g : /\ g[0] = [i |-> 1, out |-> <<>>]
                /\ \A k \in 1 .. Len(doc) : g[k] = RenderStep(doc, g[k - 1])
                /\ mdToHtml(doc) = g[Len(doc)].out
<1> DEFINE n == Len(doc)
           start == [i |-> 1, out |-> <<>>]
           Solves(g, m) == g = [k \in 0 .. m |-> IF k = 0 THEN start
                                                 ELSE RenderStep(doc, g[k - 1])]
           T == {m \in Nat : \E g : Solves(g, m)}
<1>1. T = Nat
  <2>1. ASSUME NEW m \in Nat, \A j \in 0 .. m - 1 : j \in T PROVE m \in T
    <3> HIDE DEF start
    <3>1. CASE m = 0
      <4>1. Solves([k \in 0 .. 0 |-> start], 0)
        OBVIOUS
      <4> QED
        BY <4>1, <3>1
    <3>2. CASE m # 0
      <4>0. m - 1 \in T
        <5> HIDE DEF T
        <5>1. m - 1 \in 0 .. m - 1
          BY <3>2
        <5> QED
          BY <2>1, <5>1
      <4>1. PICK g : Solves(g, m - 1)
        <5> HIDE DEF Solves
        <5> QED
          BY <4>0
      <4>2. Solves([k \in 0 .. m |-> IF k < m THEN g[k] ELSE RenderStep(doc, g[k - 1])], m)
        BY <4>1, <3>2
      <4> QED
        BY <4>2
    <3> QED
      BY <3>1, <3>2
  <2> QED
    BY <2>1, StrongInduction
<1> DEFINE loop == CHOOSE g : Solves(g, n)
<1>2. Solves(loop, n)
  BY <1>1
<1>3. mdToHtml(doc) = loop[n].out
  BY DEF mdToHtml, RenderStep
<1> HIDE DEF loop
<1>4. loop[0] = start /\ \A k \in 1 .. n : loop[k] = RenderStep(doc, loop[k - 1])
  <2> HIDE DEF start, n
  <2>1. n \in Nat
    BY DEF n
  <2> QED
    BY <1>2, <2>1
<1> QED
  BY <1>3, <1>4

\* Blocks that stand one after another for the lines before i, all of them.
Tiled(doc, out, i) ==
  /\ i \in 1 .. Len(doc) + 2
  /\ out \in Seq({Round(doc, j) : j \in DOMAIN doc})
  /\ \A m \in 1 .. Len(out) : out[m].next <= i
  /\ \A m, n \in 1 .. Len(out) : m < n => out[m].next <= out[n].first
  /\ \A j \in 1 .. i - 1 :
       \E m \in 1 .. Len(out) : out[m].first <= j /\ j < out[m].next

Advance(out) == \A m \in 1 .. Len(out) : out[m].next > out[m].first

\* The next block goes on where the last one stopped.
LEMMA TiledStep ==
  ASSUME NEW doc \in Seq(LineType), NEW out, NEW i \in DOMAIN doc, Tiled(doc, out, i)
  PROVE  /\ Tiled(doc, Append(out, Round(doc, i)), Round(doc, i).next)
         /\ Advance(Append(out, Round(doc, i))) => Advance(out) /\ Round(doc, i).next > i
<1> DEFINE b == Round(doc, i)
           new == Append(out, b)
           Rounds == {Round(doc, j) : j \in DOMAIN doc}
<1>1. DOMAIN doc = 1 .. Len(doc) /\ Len(doc) \in Nat /\ i \in 1 .. Len(doc)
  OBVIOUS
<1>2. b.first = i /\ b.next \in i .. Len(doc) + 2 /\ b \in Rounds
  BY RoundCovers DEF Covers
<1>3. out \in Seq(Rounds) /\ Len(out) \in Nat
  BY DEF Tiled
<1> HIDE DEF b, Rounds
<1>4. /\ new \in Seq(Rounds) /\ Len(new) = Len(out) + 1
      /\ \A m \in 1 .. Len(out) : new[m] = out[m]
      /\ new[Len(out) + 1] = b
  BY <1>2, <1>3, AppendProperties
<1> HIDE DEF new
<1>5. \A m \in 1 .. Len(out) : out[m].next <= i /\ out[m].next \in Int /\ out[m].first \in Int
  <2> SUFFICES ASSUME NEW m \in 1 .. Len(out)
               PROVE  out[m].next <= i /\ out[m].next \in Int /\ out[m].first \in Int
    OBVIOUS
  <2>1. out[m].next <= i
    BY DEF Tiled
  <2>2. PICK j \in DOMAIN doc : out[m] = Round(doc, j)
    BY <1>3 DEF Rounds
  <2>3. out[m].first = j /\ out[m].next \in j .. Len(doc) + 2
    BY <2>2, RoundCovers DEF Covers
  <2> QED
    BY <1>1, <2>1, <2>3
<1>6. \A m \in 1 .. Len(new) : m \in 1 .. Len(out) \/ m = Len(out) + 1
  BY <1>3, <1>4
<1>7. \A m \in 1 .. Len(new) : new[m].next <= b.next
  BY <1>1, <1>2, <1>4, <1>5, <1>6
<1>8. ASSUME NEW m \in 1 .. Len(new), NEW n \in 1 .. Len(new), m < n
      PROVE  new[m].next <= new[n].first
  <2>1. m \in 1 .. Len(out)
    BY <1>3, <1>4, <1>8
  <2>2. CASE n \in 1 .. Len(out)
    BY <1>4, <1>8, <2>1, <2>2 DEF Tiled
  <2>3. CASE n = Len(out) + 1
    BY <1>2, <1>4, <1>5, <2>1, <2>3
  <2> QED
    BY <1>6, <2>2, <2>3
<1>9. ASSUME NEW j \in 1 .. b.next - 1
      PROVE  \E m \in 1 .. Len(new) : new[m].first <= j /\ j < new[m].next
  <2>1. CASE j \in 1 .. i - 1
    <3>1. PICK m \in 1 .. Len(out) : out[m].first <= j /\ j < out[m].next
      BY <2>1 DEF Tiled
    <3>2. m \in 1 .. Len(new)
      BY <1>3, <1>4
    <3> QED
      BY <1>4, <3>1, <3>2
  <2>2. CASE i <= j
    <3>1. Len(out) + 1 \in 1 .. Len(new)
      BY <1>3, <1>4
    <3>2. new[Len(out) + 1].first <= j /\ j < new[Len(out) + 1].next
      BY <1>1, <1>2, <1>4, <2>2
    <3> QED
      BY <3>1, <3>2
  <2> QED
    BY <1>1, <1>2, <2>1, <2>2
<1>10. Tiled(doc, new, b.next)
  <2>1. b.next \in 1 .. Len(doc) + 2
    BY <1>1, <1>2
  <2> QED
    BY <1>4, <1>7, <1>8, <1>9, <2>1 DEF Tiled, Rounds
<1>11. Advance(new) => Advance(out) /\ b.next > i
  <2>1. Len(out) + 1 \in 1 .. Len(new) /\ \A m \in 1 .. Len(out) : m \in 1 .. Len(new)
    BY <1>3, <1>4
  <2> QED
    BY <1>2, <1>4, <2>1 DEF Advance
<1> QED
  BY <1>10, <1>11 DEF new, b

\* When every round advances, the blocks stand for all the lines.
LEMMA DocumentTiled ==
  ASSUME NEW doc \in Seq(LineType)
  PROVE  \E i : /\ Tiled(doc, mdToHtml(doc), i)
                /\ Advance(mdToHtml(doc)) => i > Len(doc)
<1>1. Len(doc) \in Nat
  OBVIOUS
<1>2. PICK g : /\ g[0] = [i |-> 1, out |-> <<>>]
               /\ \A k \in 1 .. Len(doc) : g[k] = RenderStep(doc, g[k - 1])
               /\ mdToHtml(doc) = g[Len(doc)].out
  BY <1>1, RenderRounds
<1> DEFINE Good(k) == /\ Tiled(doc, g[k].out, g[k].i)
                      /\ Advance(g[k].out) => g[k].i > Len(doc) \/ g[k].i > k
           U == {k \in Nat : k <= Len(doc) => Good(k)}
<1>3. ASSUME NEW k \in Nat, \A j \in 0 .. k - 1 : j \in U PROVE k \in U
  <2>1. CASE k = 0
    <3>1. g[0].i = 1 /\ g[0].out = <<>>
      BY <1>2
    <3>2. Tiled(doc, <<>>, 1)
      BY <1>1 DEF Tiled
    <3>3. Good(0)
      BY <3>1, <3>2
    <3> HIDE DEF Good
    <3> QED
      BY <2>1, <3>3
  <2>2. CASE k # 0 /\ k <= Len(doc)
    <3>1. k - 1 \in 0 .. k - 1 /\ k - 1 <= Len(doc) /\ k \in 1 .. Len(doc)
      BY <1>1, <2>2
    <3>2. k - 1 \in U
      <4> HIDE DEF U
      <4> QED
        BY <1>3, <3>1
    <3>3. Good(k - 1)
      <4> HIDE DEF Good
      <4> QED
        BY <3>1, <3>2
    <3> DEFINE s == g[k - 1]
    <3>4. g[k] = RenderStep(doc, s) /\ s.i \in 1 .. Len(doc) + 2
      BY <1>2, <3>1, <3>3 DEF Tiled
    <3> HIDE DEF s
    <3>5. CASE s.i > Len(doc)
      <4>1. g[k] = s
        BY <3>4, <3>5 DEF RenderStep
      <4>2. Good(k)
        BY <3>3, <3>5, <4>1 DEF s
      <4> HIDE DEF Good
      <4> QED
        BY <4>2
    <3>6. CASE ~(s.i > Len(doc))
      <4>1. s.i \in DOMAIN doc
        BY <1>1, <3>4, <3>6
      <4> DEFINE b == Round(doc, s.i)
      <4>2. g[k].i = b.next /\ g[k].out = Append(s.out, b)
        BY <3>4, <3>6 DEF RenderStep
      <4>3. /\ Tiled(doc, Append(s.out, b), b.next)
            /\ Advance(Append(s.out, b)) => Advance(s.out) /\ b.next > s.i
        BY <3>3, <4>1, TiledStep DEF s
      <4>4. Advance(s.out) => s.i > k - 1
        BY <3>3, <3>6 DEF s
      <4>5. b.next \in Int /\ s.i \in Int
        BY <3>4, <4>3 DEF Tiled
      <4> HIDE DEF b
      <4>6. Advance(Append(s.out, b)) => b.next > k
        BY <2>2, <4>3, <4>4, <4>5
      <4>7. Good(k)
        BY <4>2, <4>3, <4>6
      <4> HIDE DEF Good
      <4> QED
        BY <4>7
    <3> QED
      BY <3>5, <3>6
  <2> HIDE DEF Good
  <2> QED
    BY <2>1, <2>2
<1>4. U = Nat
  <2>1. U \subseteq Nat
    OBVIOUS
  <2> HIDE DEF U
  <2> QED
    BY <1>3, <2>1, StrongInduction
<1>5. Good(Len(doc))
  <2> HIDE DEF Good
  <2>1. Len(doc) \in U /\ Len(doc) <= Len(doc)
    BY <1>1, <1>4
  <2> QED
    BY <2>1
<1> QED
  BY <1>2, <1>5

\* A list of the members of a set has them all, in different places.
LEMMA ListsToSet ==
  ASSUME NEW s, NEW T, Lists(s, T)
  PROVE  T = ToSet(s) /\ IsInjective(s) /\ Len(s) \in Nat /\ DOMAIN s = 1 .. Len(s)
<1>1. s \in Seq(T) /\ DOMAIN s = 1 .. Len(s) /\ Len(s) \in Nat
  BY DEF Lists
<1>2. T = ToSet(s)
  BY <1>1 DEF Lists, ToSet
<1>3. IsInjective(s)
  BY <1>1 DEF Lists, IsInjective
<1> QED
  BY <1>1, <1>2, <1>3

\* What a block of a document is.
LEMMA TiledBlock ==
  ASSUME NEW doc \in Seq(LineType), NEW out, NEW i, Tiled(doc, out, i),
         NEW m \in 1 .. Len(out)
  PROVE  /\ out[m].first \in DOMAIN doc
         /\ Covers(doc, out[m].first, out[m], ToSet(out[m].lines))
         /\ IsInjective(out[m].lines)
         /\ DOMAIN out[m].lines = 1 .. Len(out[m].lines)
         /\ PlainFences(doc) => Fenced(doc, out[m].first, out[m], ToSet(out[m].lines))
<1>1. out \in Seq({Round(doc, j) : j \in DOMAIN doc})
  BY DEF Tiled
<1>2. PICK j \in DOMAIN doc : out[m] = Round(doc, j)
  BY <1>1
<1>3. PICK T : /\ Covers(doc, j, Round(doc, j), T)
               /\ PlainFences(doc) => Fenced(doc, j, Round(doc, j), T)
  BY RoundCovers
<1>4. out[m].first = j /\ Lists(out[m].lines, T)
  BY <1>2, <1>3 DEF Covers
<1>5. T = ToSet(out[m].lines) /\ IsInjective(out[m].lines)
      /\ DOMAIN out[m].lines = 1 .. Len(out[m].lines)
  BY <1>4, ListsToSet
<1> QED
  BY <1>2, <1>3, <1>4, <1>5

\* No two blocks of a document have a line in common.
LEMMA TiledBlocks ==
  ASSUME NEW doc \in Seq(LineType), NEW out, NEW i, Tiled(doc, out, i)
  PROVE  /\ Len(out) \in Nat /\ DOMAIN out = 1 .. Len(out)
         /\ \A m, n \in 1 .. Len(out) : \A j \in DOMAIN doc :
              /\ out[m].first <= j /\ j < out[m].next
              /\ out[n].first <= j /\ j < out[n].next
              => m = n
<1>1. Len(out) \in Nat /\ DOMAIN out = 1 .. Len(out)
  BY DEF Tiled
<1>2. ASSUME NEW m \in 1 .. Len(out) PROVE out[m].first \in Int /\ out[m].next \in Int
  <2>1. out[m].first \in DOMAIN doc /\ Covers(doc, out[m].first, out[m], ToSet(out[m].lines))
    BY TiledBlock
  <2>2. DOMAIN doc \subseteq Int /\ Len(doc) \in Nat
    OBVIOUS
  <2> QED
    BY <2>1, <2>2 DEF Covers
<1>3. ASSUME NEW m \in 1 .. Len(out), NEW n \in 1 .. Len(out), NEW j \in DOMAIN doc,
             out[m].first <= j, j < out[m].next, out[n].first <= j, j < out[n].next
      PROVE  m = n
  <2>1. /\ out[m].first \in Int /\ out[m].next \in Int
        /\ out[n].first \in Int /\ out[n].next \in Int /\ j \in Int
    BY <1>2
  <2>2. m < n => out[m].next <= out[n].first
    BY DEF Tiled
  <2>3. n < m => out[n].next <= out[m].first
    BY DEF Tiled
  <2> QED
    BY <1>1, <1>3, <2>1, <2>2, <2>3
<1> QED
  BY <1>1, <1>3

\* How many fence lines there are up to a line: one more at each.
FenceCount(doc, j) == Cardinality({n \in 1 .. j : doc[n].kind \in FenceKind})

LEMMA FenceCounts ==
  ASSUME NEW doc, NEW j \in Nat
  PROVE  /\ FenceCount(doc, j) \in Nat /\ FenceCount(doc, 0) = 0
         /\ j > 0 => FenceCount(doc, j) = IF doc[j].kind \in FenceKind
                                          THEN FenceCount(doc, j - 1) + 1
                                          ELSE FenceCount(doc, j - 1)
<1> DEFINE Fences(k) == {n \in 1 .. k : doc[n].kind \in FenceKind}
<1>1. ASSUME NEW k \in Nat PROVE IsFiniteSet(Fences(k)) /\ Cardinality(Fences(k)) \in Nat
  <2>1. IsFiniteSet(1 .. k) /\ Fences(k) \in SUBSET (1 .. k)
    BY FS_Interval
  <2> HIDE DEF Fences
  <2> QED
    BY <2>1, FS_Subset, FS_CardinalityType
<1>2. Fences(0) = {} /\ Cardinality({}) = 0
  BY FS_EmptySet
<1>3. ASSUME j > 0
      PROVE  Cardinality(Fences(j)) = IF doc[j].kind \in FenceKind
                                      THEN Cardinality(Fences(j - 1)) + 1
                                      ELSE Cardinality(Fences(j - 1))
  <2>1. 1 .. j = (1 .. j - 1) \cup {j} /\ j \notin 1 .. j - 1 /\ j - 1 \in Nat
    BY <1>3
  <2>2. CASE doc[j].kind \in FenceKind
    <3>1. Fences(j) = Fences(j - 1) \cup {j} /\ j \notin Fences(j - 1)
      BY <2>1, <2>2
    <3>2. IsFiniteSet(Fences(j - 1))
      BY <1>1, <2>1
    <3> HIDE DEF Fences
    <3> QED
      BY <2>2, <3>1, <3>2, FS_AddElement
  <2>3. CASE doc[j].kind \notin FenceKind
    <3>1. Fences(j) = Fences(j - 1)
      BY <2>1, <2>3
    <3> HIDE DEF Fences
    <3> QED
      BY <2>3, <3>1
  <2> QED
    BY <2>2, <2>3
<1> HIDE DEF Fences
<1>4. FenceCount(doc, j) = Cardinality(Fences(j)) /\ FenceCount(doc, 0) = Cardinality(Fences(0))
      /\ FenceCount(doc, j - 1) = Cardinality(Fences(j - 1))
  BY DEF FenceCount, Fences
<1> QED
  BY <1>1, <1>2, <1>3, <1>4

\* Code is open after line j: its block has begun and its closing fence is to come.
Open(out, j) ==
  \E m \in 1 .. Len(out) : out[m].tag = "pre" /\ out[m].first <= j /\ j < out[m].next - 1

\* With plain fences the rewriting is off exactly where code is open.
LEMMA OffInCode ==
  ASSUME NEW doc \in Seq(LineType), NEW out, NEW i, Tiled(doc, out, i), i > Len(doc),
         PlainFences(doc)
  PROVE  \A j \in 0 .. Len(doc) : FenceCount(doc, j) % 2 = (IF Open(out, j) THEN 1 ELSE 0)
<1> DEFINE Good(j) == FenceCount(doc, j) % 2 = (IF Open(out, j) THEN 1 ELSE 0)
           U == {j \in Nat : j <= Len(doc) => Good(j)}
<1>d. DOMAIN doc = 1 .. Len(doc) /\ Len(doc) \in Nat /\ i \in Nat
  BY DEF Tiled
<1>b. /\ Len(out) \in Nat
      /\ \A m \in 1 .. Len(out) :
           /\ out[m].first \in 1 .. Len(doc) /\ out[m].next \in Nat
           /\ Fenced(doc, out[m].first, out[m], ToSet(out[m].lines))
      /\ \A m, n \in 1 .. Len(out) : \A j \in 1 .. Len(doc) :
           /\ out[m].first <= j /\ j < out[m].next
           /\ out[n].first <= j /\ j < out[n].next
           => m = n
  <2>1. ASSUME NEW m \in 1 .. Len(out) PROVE out[m].next \in Nat
    <3>1. Covers(doc, out[m].first, out[m], ToSet(out[m].lines)) /\ out[m].first \in DOMAIN doc
      BY TiledBlock
    <3> QED
      BY <1>d, <3>1 DEF Covers
  <2>2. ASSUME NEW m \in 1 .. Len(out)
        PROVE  /\ out[m].first \in DOMAIN doc
               /\ Fenced(doc, out[m].first, out[m], ToSet(out[m].lines))
    BY TiledBlock
  <2> QED
    BY <1>d, <2>1, <2>2, TiledBlocks
<1>1. ASSUME NEW j \in Nat, \A k \in 0 .. j - 1 : k \in U PROVE j \in U
  <2>1. CASE j = 0
    <3>1. ~Open(out, 0)
      BY <1>b DEF Open
    <3>2. FenceCount(doc, 0) = 0
      BY FenceCounts
    <3>3. Good(0)
      BY <3>1, <3>2
    <3> HIDE DEF Good
    <3> QED
      BY <2>1, <3>3
  <2>2. CASE j # 0 /\ j <= Len(doc)
    <3>1. j - 1 \in 0 .. j - 1 /\ j - 1 <= Len(doc) /\ j \in 1 .. Len(doc) /\ j - 1 \in Nat
      BY <1>d, <2>2
    <3>2. j - 1 \in U
      <4> HIDE DEF U
      <4> QED
        BY <1>1, <3>1
    <3>3. FenceCount(doc, j - 1) % 2 = (IF Open(out, j - 1) THEN 1 ELSE 0)
      BY <3>1, <3>2
    <3>4. /\ FenceCount(doc, j - 1) \in Nat
          /\ FenceCount(doc, j) = IF doc[j].kind \in FenceKind THEN FenceCount(doc, j - 1) + 1
                                  ELSE FenceCount(doc, j - 1)
      BY <2>2, <3>1, FenceCounts
    <3>5. PICK m \in 1 .. Len(out) : out[m].first <= j /\ j < out[m].next
      <4>1. j \in 1 .. i - 1
        BY <1>d, <3>1
      <4> QED
        BY <4>1 DEF Tiled
    <3>6. ASSUME Open(out, j) \/ Open(out, j - 1)
          PROVE  /\ out[m].tag = "pre"
                 /\ Open(out, j) => j < out[m].next - 1
                 /\ Open(out, j - 1) => out[m].first <= j - 1
      <4>1. ASSUME NEW n \in 1 .. Len(out), out[n].tag = "pre", out[n].first <= j,
                   j < out[n].next - 1
            PROVE  n = m
        <5>1. j < out[n].next
          BY <1>b, <3>1, <4>1
        <5> QED
          BY <1>b, <3>1, <3>5, <4>1, <5>1
      <4>2. ASSUME NEW n \in 1 .. Len(out), out[n].tag = "pre", out[n].first <= j - 1,
                   j - 1 < out[n].next - 1
            PROVE  n = m
        <5>1. out[n].first <= j /\ j < out[n].next
          BY <1>b, <3>1, <4>2
        <5> QED
          BY <1>b, <3>1, <3>5, <5>1
      <4> QED
        BY <3>6, <4>1, <4>2 DEF Open
    <3> DEFINE b == out[m]
    <3>7. /\ b.first \in 1 .. Len(doc) /\ b.next \in Nat
          /\ Fenced(doc, b.first, b, ToSet(b.lines))
      BY <1>b
    <3>8. CASE b.tag # "pre"
      <4>1. doc[j].kind \notin FenceKind
        BY <1>d, <3>1, <3>5, <3>7, <3>8 DEF Fenced
      <4>2. ~Open(out, j) /\ ~Open(out, j - 1)
        BY <3>6, <3>8
      <4> QED
        BY <3>3, <3>4, <4>1, <4>2
    <3>9. CASE b.tag = "pre"
      <4>0. /\ doc[b.first].kind \in FenceKind /\ b.next > b.first + 1
            /\ \A k \in 1 .. Len(doc) :
                 b.first < k /\ k < b.next - 1 => doc[k].kind # "tick"
            /\ b.next - 1 \in 1 .. Len(doc) => doc[b.next - 1].kind = "tick"
        BY <1>d, <3>7, <3>9 DEF Fenced
      <4>1. b.first <= j /\ j < b.next
        BY <3>5
      <4>2. CASE j = b.first
        <5>1. doc[j].kind \in FenceKind
          BY <4>0, <4>2
        <5>2. Open(out, j)
          BY <3>1, <3>7, <3>9, <4>0, <4>2 DEF Open
        <5>3. ~Open(out, j - 1)
          BY <3>1, <3>6, <3>7, <4>2
        <5> QED
          BY <3>3, <3>4, <5>1, <5>2, <5>3
      <4>3. CASE b.first < j /\ j < b.next - 1
        <5>1. doc[j].kind \notin FenceKind
          <6>1. doc[j].kind # "tick"
            BY <3>1, <4>0, <4>3
          <6> QED
            BY <1>d, <3>1, <6>1 DEF PlainFences
        <5>2. Open(out, j) /\ Open(out, j - 1)
          BY <3>1, <3>7, <3>9, <4>3 DEF Open
        <5> QED
          BY <3>3, <3>4, <5>1, <5>2
      <4>4. CASE j = b.next - 1
        <5>1. doc[j].kind \in FenceKind
          BY <3>1, <4>0, <4>4 DEF FenceKind
        <5>2. ~Open(out, j)
          BY <3>1, <3>6, <4>4
        <5>3. Open(out, j - 1)
          BY <3>1, <3>7, <3>9, <4>0, <4>4 DEF Open
        <5> QED
          BY <3>3, <3>4, <5>1, <5>2, <5>3
      <4> QED
        BY <3>1, <3>7, <4>1, <4>2, <4>3, <4>4
    <3> QED
      BY <3>8, <3>9
  <2> HIDE DEF Good
  <2> QED
    BY <2>1, <2>2
<1>2. U = Nat
  <2>1. U \subseteq Nat
    OBVIOUS
  <2> HIDE DEF U
  <2> QED
    BY <1>1, <2>1, StrongInduction
<1> HIDE DEF Good
<1>3. \A j \in 0 .. Len(doc) : Good(j)
  BY <1>d, <1>2
<1> QED
  BY <1>3 DEF Good

\* With plain fences rewriteLinks leaves alone the fences and what the renderer takes
\* for code.
LEMMA RewritingSkipsCode ==
  ASSUME NEW doc \in Seq(LineType), NEW out, NEW i, Tiled(doc, out, i), i > Len(doc),
         PlainFences(doc)
  PROVE  rewriteLinks(doc) =
           {j \in DOMAIN doc : doc[j].kind # "tick"}
             \ UNION {ToSet(out[b].lines) : b \in {c \in DOMAIN out : out[c].tag = "pre"}}
<1> DEFINE code == UNION {ToSet(out[b].lines) : b \in {c \in DOMAIN out : out[c].tag = "pre"}}
<1>1. /\ DOMAIN doc = 1 .. Len(doc) /\ Len(doc) \in Nat
      /\ DOMAIN out = 1 .. Len(out) /\ Len(out) \in Nat
  BY TiledBlocks
<1>2. ASSUME NEW j \in DOMAIN doc
      PROVE  j \in rewriteLinks(doc) <=> doc[j].kind # "tick" /\ ~Open(out, j)
  <2>1. j \in rewriteLinks(doc) <=> doc[j].kind \notin FenceKind /\ FenceCount(doc, j) % 2 = 0
    BY DEF rewriteLinks, FenceCount
  <2>2. FenceCount(doc, j) % 2 = (IF Open(out, j) THEN 1 ELSE 0)
    <3>1. j \in 0 .. Len(doc)
      BY <1>1
    <3> QED
      BY <3>1, OffInCode
  <2>3. doc[j].kind \in FenceKind <=> doc[j].kind = "tick"
    BY DEF PlainFences, FenceKind
  <2> QED
    BY <2>1, <2>2, <2>3
<1>3. ASSUME NEW m \in DOMAIN out, out[m].tag = "pre", NEW j \in DOMAIN doc, doc[j].kind # "tick"
      PROVE  j \in ToSet(out[m].lines) <=> out[m].first <= j /\ j < out[m].next - 1
  <2> DEFINE b == out[m]
             T == ToSet(b.lines)
  <2>1. b.first \in DOMAIN doc /\ Covers(doc, b.first, b, T) /\ Fenced(doc, b.first, b, T)
    BY <1>1, TiledBlock
  <2>2. T \subseteq b.first .. b.next - 1 /\ b.next \in Int
    BY <1>1, <2>1 DEF Covers
  <2>3. /\ doc[b.first].kind \in FenceKind /\ b.first \notin T /\ b.next - 1 \notin T
        /\ b.first < j /\ j < b.next - 1 => j \in T
    BY <1>3, <2>1 DEF Fenced
  <2>4. doc[b.first].kind = "tick"
    BY <2>1, <2>3 DEF PlainFences
  <2>5. j # b.first
    BY <1>3, <2>4
  <2> HIDE DEF b, T
  <2>6. j \in T => b.first <= j /\ j < b.next - 1
    BY <1>1, <2>1, <2>2, <2>3
  <2>7. b.first <= j /\ j < b.next - 1 => j \in T
    BY <1>1, <2>1, <2>3, <2>5
  <2> QED
    BY <2>6, <2>7 DEF b, T
<1>4. ASSUME NEW j \in DOMAIN doc, doc[j].kind # "tick" PROVE j \in code <=> Open(out, j)
  <2>1. j \in code <=> \E m \in DOMAIN out : out[m].tag = "pre" /\ j \in ToSet(out[m].lines)
    OBVIOUS
  <2> HIDE DEF code
  <2> QED
    BY <1>1, <1>3, <1>4, <2>1 DEF Open
<1> HIDE DEF code
<1>5. rewriteLinks(doc) \subseteq DOMAIN doc
  BY DEF rewriteLinks
<1>6. rewriteLinks(doc) = {j \in DOMAIN doc : doc[j].kind # "tick"} \ code
  BY <1>2, <1>4, <1>5
<1> QED
  BY <1>6 DEF code

\* The earlier headings of the same text, and how many.
Repeats(doc, i) == {n \in headings(doc) : n < i /\ doc[n].id = doc[i].id}

\* An id of one part, with and without a number behind it.
LEMMA NumberedIds ==
  ASSUME NEW E, NEW s \in Seq(E), NEW t \in Seq(E), Len(s) = 1, Len(t) = 1,
         NEW p \in E, NEW q \in E
  PROVE  /\ Append(s, p) # t /\ Append(t, q) # s
         /\ Append(s, p) = Append(t, q) => s = t /\ p = q
<1>1. Len(Append(s, p)) = Len(s) + 1 /\ Len(Append(t, q)) = Len(t) + 1
  BY AppendProperties
<1>2. Append(s, p) = Append(t, q) <=> s = t /\ p = q
  BY AppendInjective
<1> QED
  BY <1>1, <1>2

\* Of two headings of one text the later has more before it; of two texts that do not
\* end in a number none becomes the other with a number behind it.
LEMMA IdsDiffer ==
  ASSUME NEW doc \in Seq(LineType), headings(doc) \subseteq DOMAIN doc,
         \A n \in headings(doc) : Len(doc[n].id) = 1,
         NEW i \in headings(doc), NEW j \in headings(doc), i < j
  PROVE  headingId(doc, i) # headingId(doc, j)
<1> DEFINE E == STRING \cup Nat
           ci == Cardinality(Repeats(doc, i))
           cj == Cardinality(Repeats(doc, j))
<1>1. doc[i].id \in Seq(E) /\ doc[j].id \in Seq(E) /\ Len(doc[i].id) = 1 /\ Len(doc[j].id) = 1
  BY DEF LineType
<1>2. DOMAIN doc = 1 .. Len(doc) /\ Len(doc) \in Nat /\ i \in Nat /\ j \in Nat
  OBVIOUS
<1>3. \A n \in headings(doc) : IsFiniteSet(Repeats(doc, n)) /\ Cardinality(Repeats(doc, n)) \in Nat
  <2> SUFFICES ASSUME NEW n \in headings(doc)
               PROVE  IsFiniteSet(Repeats(doc, n)) /\ Cardinality(Repeats(doc, n)) \in Nat
    OBVIOUS
  <2>1. Repeats(doc, n) \in SUBSET (1 .. Len(doc)) /\ IsFiniteSet(1 .. Len(doc))
    BY <1>2, FS_Interval DEF Repeats
  <2> QED
    BY <2>1, FS_Subset, FS_CardinalityType
<1>4. ci \in Nat /\ cj \in Nat
  BY <1>3
<1>5. /\ headingId(doc, i) = IF ci = 0 THEN doc[i].id ELSE Append(doc[i].id, ci)
      /\ headingId(doc, j) = IF cj = 0 THEN doc[j].id ELSE Append(doc[j].id, cj)
  BY DEF headingId, Repeats
<1>6. /\ Append(doc[i].id, ci) # doc[j].id /\ Append(doc[j].id, cj) # doc[i].id
      /\ Append(doc[i].id, ci) = Append(doc[j].id, cj) => doc[i].id = doc[j].id /\ ci = cj
  <2>1. ci \in E /\ cj \in E
    BY <1>4
  <2> HIDE DEF E, ci, cj
  <2> QED
    BY <1>1, <2>1, NumberedIds
<1>7. doc[i].id = doc[j].id => ci # cj /\ cj # 0
  <2> SUFFICES ASSUME doc[i].id = doc[j].id PROVE ci # cj /\ cj # 0
    OBVIOUS
  <2>1. Repeats(doc, i) \in SUBSET Repeats(doc, j) /\ i \in Repeats(doc, j) /\ i \notin Repeats(doc, i)
    BY <1>2 DEF Repeats
  <2>2. ci <= cj /\ ci # cj
    BY <1>3, <2>1, FS_Subset
  <2> QED
    BY <1>4, <2>2
<1> HIDE DEF ci, cj
<1> QED
  BY <1>5, <1>6, <1>7

-----------------------------------------------------------------------------
\* mdToHtml drops no line and takes none twice, the blocks are in the order of the
\* document and their lines too, except in a list; what rewriteLinks leaves alone is
\* the code and its fences; and heading ids are unique: for every document.
THEOREM DocumentsKept == InputOK => DocumentsAreKept
<1> SUFFICES ASSUME InputOK, subject = "document", EveryRoundAdvances
             PROVE  DocumentsAreKept
  BY DEF DocumentsAreKept
<1> DEFINE blocks == mdToHtml(input)
           Lines(b) == ToSet(blocks[b].lines)
           code == UNION {Lines(b) : b \in {c \in DOMAIN blocks : blocks[c].tag = "pre"}}
<1>1. input \in Seq(LineType)
  BY DEF InputOK
<1>2. PICK end : Tiled(input, blocks, end) /\ (Advance(blocks) => end > Len(input))
  BY <1>1, DocumentTiled
<1> HIDE DEF blocks
<1>3. /\ Len(blocks) \in Nat /\ DOMAIN blocks = 1 .. Len(blocks)
      /\ \A m \in 1 .. Len(blocks) :
           /\ blocks[m].first \in DOMAIN input
           /\ Covers(input, blocks[m].first, blocks[m], Lines(m))
           /\ IsInjective(blocks[m].lines)
           /\ DOMAIN blocks[m].lines = 1 .. Len(blocks[m].lines)
  <2>1. Len(blocks) \in Nat /\ DOMAIN blocks = 1 .. Len(blocks)
    BY <1>1, <1>2, TiledBlocks
  <2>2. ASSUME NEW m \in 1 .. Len(blocks)
        PROVE  /\ blocks[m].first \in DOMAIN input
               /\ Covers(input, blocks[m].first, blocks[m], ToSet(blocks[m].lines))
               /\ IsInjective(blocks[m].lines)
               /\ DOMAIN blocks[m].lines = 1 .. Len(blocks[m].lines)
    BY <1>1, <1>2, TiledBlock
  <2> QED
    BY <2>1, <2>2
<1>4. end > Len(input)
  <2>1. Advance(blocks)
    BY <1>3 DEF EveryRoundAdvances, Advance, ToSet, blocks
  <2> QED
    BY <1>2, <2>1
<1>5. DOMAIN input = 1 .. Len(input) /\ Len(input) \in Nat /\ end \in Nat
  BY <1>1, <1>2 DEF Tiled
<1>6. ASSUME NEW i \in DOMAIN input,
             input[i].kind \in {"text", "heading", "quote", "item", "row"}
      PROVE  \E b \in DOMAIN blocks : i \in Lines(b)
  <2>1. i \in 1 .. end - 1
    BY <1>4, <1>5
  <2>2. PICK m \in 1 .. Len(blocks) : blocks[m].first <= i /\ i < blocks[m].next
    BY <1>2, <2>1 DEF Tiled
  <2>3. Covers(input, blocks[m].first, blocks[m], Lines(m))
    BY <1>3
  <2>4. blocks[m].first \in Int /\ blocks[m].next \in Int
    BY <1>3, <1>5, <2>3 DEF Covers
  <2>5. i \in blocks[m].first .. blocks[m].next - 1
    BY <1>5, <2>2, <2>4
  <2>6. i \in Lines(m)
    BY <1>6, <2>3, <2>5 DEF Covers, Textual
  <2> QED
    BY <1>3, <2>6
<1>7. ASSUME NEW b \in DOMAIN blocks, NEW c \in DOMAIN blocks, b < c,
             NEW m \in Lines(b), NEW n \in Lines(c)
      PROVE  m < n
  <2>1. /\ Covers(input, blocks[b].first, blocks[b], Lines(b))
        /\ Covers(input, blocks[c].first, blocks[c], Lines(c))
    BY <1>3
  <2> HIDE DEF Lines
  <2>2. blocks[b].first \in Int /\ blocks[c].first \in Int
    BY <1>3, <1>5
  <2>a. m \in blocks[b].first .. blocks[b].next - 1 /\ blocks[b].next \in Int
    BY <1>5, <2>1, <2>2 DEF Covers
  <2>b. n \in blocks[c].first .. blocks[c].next - 1
    BY <2>1 DEF Covers
  <2>3. blocks[b].next <= blocks[c].first
    BY <1>2, <1>3, <1>7 DEF Tiled
  <2> QED
    BY <2>2, <2>a, <2>b, <2>3
<1>8. ASSUME NEW b \in DOMAIN blocks, blocks[b].tag # "list",
             NEW p \in DOMAIN blocks[b].lines, NEW q \in DOMAIN blocks[b].lines, p < q
      PROVE  blocks[b].lines[p] < blocks[b].lines[q]
  <2>1. Increasing(blocks[b].lines)
    BY <1>3, <1>8 DEF Covers
  <2> QED
    BY <1>3, <1>8, <2>1 DEF Increasing
<1>9. ASSUME PlainFences(input)
      PROVE  rewriteLinks(input) = {i \in DOMAIN input : input[i].kind # "tick"} \ code
  BY <1>1, <1>2, <1>4, <1>9, RewritingSkipsCode
<1>10. ASSUME \A i \in headings(input) : Len(input[i].id) = 1,
              NEW i \in headings(input), NEW j \in headings(input),
              headingId(input, i) = headingId(input, j)
       PROVE  i = j
  <2>1. headings(input) \subseteq DOMAIN input
    <3> SUFFICES ASSUME NEW h \in headings(input) PROVE h \in DOMAIN input
      OBVIOUS
    <3>1. PICK m \in DOMAIN blocks : h = blocks[m].first
      BY DEF headings, ToSet, blocks
    <3> QED
      BY <1>3, <3>1
  <2>2. i < j => headingId(input, i) # headingId(input, j)
    BY <1>1, <1>10, <2>1, IdsDiffer
  <2>3. j < i => headingId(input, j) # headingId(input, i)
    BY <1>1, <1>10, <2>1, IdsDiffer
  <2>4. i \in Int /\ j \in Int
    BY <1>5, <2>1
  <2> QED
    BY <1>10, <2>2, <2>3, <2>4
<1>11. \A b \in DOMAIN blocks : IsInjective(blocks[b].lines)
  BY <1>3
<1> QED
  BY <1>6, <1>7, <1>8, <1>9, <1>10, <1>11 DEF DocumentsAreKept, blocks
=============================================================================
