-------------------------- MODULE TransparencyLog --------------------------
(***************************************************************************)
(* A transparency log and the verifier of lib/vrp-tlog.mjs.  The log is a  *)
(* service outside the repository (spec/transparency-log-v0.1.md): it      *)
(* takes artifact hashes, signs and archives tree heads, rotates its keys, *)
(* and may come back from an older backup.  The verifier is stateless: it  *)
(* judges whatever parts of the log's history an answer puts together.     *)
(***************************************************************************)
EXTENDS HostName, MerkleTree

CONSTANTS
  Artifact,     \* artifact hashes
  SigningKey,   \* the operator's keys, each under a kid of its own
  Issuer,       \* domains that issue artifacts
  LogId,        \* the log's identity: [didWeb, host], one that decodes
  None,         \* an absent part of an answer
  MaxSize,      \* bound: entries of the log
  MaxHeads      \* bound: archived tree heads

ASSUME LogAssumption ==
  /\ MaxSize \in Nat /\ MaxHeads \in Nat
  /\ MaxSize < TwoTo[Width - 1]
  /\ LogId.host.name \in Seq(STRING)
  /\ LogId.host.dot \in BOOLEAN /\ LogId.host.port \in BOOLEAN
  /\ LogId.host = LogHost(LogId.host.name, LogId.host.dot, LogId.host.port)
  /\ Issuer \subseteq Seq(STRING)

VARIABLES
  log,         \* the entries the operator holds now
  archive,     \* the tree heads it published, each with the entries below it
  published,   \* the keys in its DID document
  signing      \* the key it signs with

vars == <<log, archive, published, signing>>

\* A tree head as it is signed; `tree` is what the operator held, and no part of it.
TreeHead(tree) ==
  [log_id |-> LogId, tree_size |-> Len(tree), root_hash |-> merkleTreeHash(tree)]
Archived(tree, key) == [tree |-> tree, key |-> key]

\* Its signature: the kid of the key, and whether the bytes still verify.
Jws(h) == [kid |-> h.key, intact |-> TRUE, payload |-> TreeHead(h.tree)]

\* What the log serves for the entry of a tree at an index.
Inclusion(tree, m) ==
  [leaf_index |-> m, tree_size |-> Len(tree), audit_path |-> inclusionProof(m, tree)]

\* An absent part is none of the parts that a log of this size serves.
ASSUME NoneAssumption ==
  \A t \in UNION {[1 .. n -> Artifact] : n \in 1 .. MaxSize} :
    /\ TreeHead(t) # None
    /\ \A key \in SigningKey : Jws(Archived(t, key)) # None
    /\ \A m \in 0 .. Len(t) - 1 : Inclusion(t, m) # None

-----------------------------------------------------------------------------
\* verifyCompactJws and jwksFromDidDocument: the kid selects the key, which must
\* be in the operator's DID document.  In this log a kid names one key for ever.
JwsOutcome(jws, didKeys) ==
  IF jws.kid \notin didKeys THEN "sth_key_not_published"
  ELSE IF ~jws.intact THEN "sth_signature_invalid" ELSE "sth_valid"

verifySignedTreeHeadLoose(sth, jws, didKeys) ==   \* mutant: the payload is not compared
  IF sth = None \/ jws = None THEN "sth_unsigned" ELSE JwsOutcome(jws, didKeys)

verifySignedTreeHead(sth, jws, didKeys) ==
  IF sth = None \/ jws = None THEN "sth_unsigned"
  ELSE LET check == JwsOutcome(jws, didKeys)
       IN  IF check = "sth_valid" /\ jws.payload # sth THEN "sth_payload_mismatch" ELSE check

\* The reason verifyAnchoring gives, "anchored" when it accepts.
verifyAnchoring(hash, answer, didKeys, issuer) ==
  LET sth       == answer.signed_tree_head
      inclusion == answer.inclusion
      check     == verifySignedTreeHead(sth, answer.jws, didKeys)
      included  == verifyInclusion(hashLeaf(hash), inclusion.leaf_index, inclusion.tree_size,
                                   inclusion.audit_path, sth.root_hash)
  IN  IF inclusion = None \/ sth = None THEN "no_inclusion_proof"
      ELSE IF answer.jws = None THEN "sth_unsigned"
      ELSE IF ~sth.log_id.didWeb THEN "log_id_not_did_web"
      ELSE IF sameOperator(sth.log_id.host, issuer) THEN "log_operated_by_issuer"
      ELSE IF check # "sth_valid" THEN check
      ELSE IF ~included THEN "inclusion_proof_invalid" ELSE "anchored"

\* The reason verifyConsistencyVector gives for two signed heads and a proof.
verifyConsistencyVector(first, second, c, didKeys) ==
  LET one == verifySignedTreeHead(first.signed_tree_head, first.jws, didKeys)
      two == verifySignedTreeHead(second.signed_tree_head, second.jws, didKeys)
      f   == first.jws.payload
      s   == second.jws.payload
  IN  IF one # "sth_valid" THEN <<"first", one>>
      ELSE IF two # "sth_valid" THEN <<"second", two>>
      ELSE IF f.log_id # s.log_id THEN <<"log_id_mismatch">>
      ELSE IF c.first_size # f.tree_size \/ c.second_size # s.tree_size
      THEN <<"consistency_sizes_mismatch">>
      ELSE IF verifyConsistency(c.first_size, c.second_size, f.root_hash, s.root_hash, c.proof)
      THEN <<"consistent">> ELSE <<"consistency_proof_invalid">>

-----------------------------------------------------------------------------
\* The log service.  It takes an artifact hash once.
Init ==
  /\ log = <<>>
  /\ archive = {}
  /\ signing \in SigningKey
  /\ published = {signing}

Submit(a) ==
  /\ Len(log) < MaxSize
  /\ a \notin ToSet(log)
  /\ log' = Append(log, a)
  /\ UNCHANGED <<archive, published, signing>>

\* It signs a tree head over what it holds, and archives it.
SignHead ==
  /\ log # <<>>
  /\ Cardinality(archive) < MaxHeads
  /\ archive' = archive \cup {Archived(log, signing)}
  /\ UNCHANGED <<log, published, signing>>

\* It comes back from a backup that lacks the latest entries.
Restore ==
  /\ \E k \in 0 .. Len(log) - 1 : log' = SubSeq(log, 1, k)
  /\ UNCHANGED <<archive, published, signing>>

\* It rotates its key, with an overlap, and later withdraws the old one.
RotateKey ==
  /\ \E key \in SigningKey \ published :
       signing' = key /\ published' = published \cup {key}
  /\ UNCHANGED <<log, archive>>

RetireKeys ==
  /\ published # {signing}
  /\ published' = {signing}
  /\ UNCHANGED <<log, archive, signing>>

Next == (\E a \in Artifact : Submit(a)) \/ SignHead \/ Restore \/ RotateKey \/ RetireKeys

Spec == Init /\ [][Next]_vars

-----------------------------------------------------------------------------
\* What an answer may be put together from: heads, signatures and audit paths of
\* different moments, sizes and indexes stated from yet another, a signature
\* damaged on the way, and parts left out.
Moments    == {h.tree : h \in archive} \cup {log}
HeadSignatures == {Jws(h) : h \in archive}

Inclusions ==
  UNION {[leaf_index : 0 .. Len(t) - 1, tree_size : {Len(u) : u \in Moments},
          audit_path : {inclusionProof(m, t) : m \in 0 .. Len(t) - 1}] : t \in Moments}

Answers ==
  [signed_tree_head : {TreeHead(t) : t \in Moments} \cup {None},
   jws : HeadSignatures \cup {[j EXCEPT !.intact = FALSE] : j \in HeadSignatures} \cup {None},
   inclusion : Inclusions \cup {None}]

\* The answer of a log that serves one moment whole.
Answer(h, m) ==
  [signed_tree_head |-> TreeHead(h.tree), jws |-> Jws(h), inclusion |-> Inclusion(h.tree, m)]

\* verifyAnchoring accepts an artifact only when the operator signed, with a key
\* it still publishes, a head over a tree that holds that artifact: no mixture of the
\* log's moments makes one up.  And the operator's host, written as a bare name, is not
\* on the issuer's own domain (with a final dot or a port it may be: sameOperator).
AnchoredIsRecorded ==
  \A answer \in Answers, a \in Artifact, d \in Issuer :
    verifyAnchoring(a, answer, published, d) = "anchored" =>
      /\ HostOwned(d) /\ ~LogId.host.dot /\ ~LogId.host.port =>
           registrableDomain(LogId.host.name) # d
      /\ \E h \in archive : /\ TreeHead(h.tree) = answer.signed_tree_head
                            /\ h.key \in published
                            /\ a \in ToSet(h.tree)

\* And it accepts every entry of every archived head whose key is still published,
\* when the answer is of one moment, from a log that has a did:web identity.
RecordedIsAnchored ==
  \A h \in archive : \A m \in DOMAIN h.tree, d \in Issuer :
    h.key \in published /\ LogId.didWeb /\ ~sameOperator(LogId.host, d) =>
      verifyAnchoring(h.tree[m], Answer(h, m - 1), published, d) = "anchored"

\* The vector of two archived heads with a proof produced over the tree t.
Audit(first, second, t) ==
  verifyConsistencyVector(
    [signed_tree_head |-> TreeHead(first.tree), jws |-> Jws(first)],
    [signed_tree_head |-> TreeHead(second.tree), jws |-> Jws(second)],
    [first_size |-> Len(first.tree), second_size |-> Len(second.tree),
     proof |-> consistencyProof(Len(first.tree), t)],
    published)

\* "A rewrite of history is cryptographically detectable against any earlier
\* archived STH": whichever tree the log produces the proof over, two archived
\* heads audit as consistent only if the later tree extends the earlier.
RewriteIsDetected ==
  \A first, second \in archive, t \in Moments :
    /\ Len(first.tree) < Len(t)
    /\ Audit(first, second, t) = <<"consistent">>
    => IsPrefix(first.tree, second.tree)

\* And a log that only grew is never accused, as long as it publishes the keys it
\* signed both heads with.
GrowthIsConsistent ==
  \A first, second \in archive :
    /\ Len(first.tree) < Len(second.tree)
    /\ IsPrefix(first.tree, second.tree)
    /\ {first.key, second.key} \subseteq published
    => Audit(first, second, second.tree) = <<"consistent">>

\* "Verify the Merkle inclusion proof for the artifact hash against the STH
\* root_hash and tree_size" (spec/transparency-log-v0.1.md:257-258): the size and
\* index an accepted answer states are those of the signed tree.
StatedSizeIsSigned ==
  \A answer \in Answers, a \in Artifact, d \in Issuer :
    verifyAnchoring(a, answer, published, d) = "anchored" =>
      answer.inclusion.tree_size = answer.signed_tree_head.tree_size
=============================================================================
