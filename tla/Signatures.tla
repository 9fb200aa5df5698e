----------------------------- MODULE Signatures -----------------------------
(***************************************************************************)
(* Compact JWS and the four verifiers of this repository: of offers in     *)
(* lib/vrp-jws.mjs, of the conformance vectors and of attestations in      *)
(* scripts/conformance.mjs, and of a pointed node's offer in               *)
(* scripts/verify-stayintent.mjs.                                          *)
(*                                                                         *)
(* A JWS is what its parts decode to, with the key whose signature is over *)
(* these very bytes.  A key set is the sequence of its entries.            *)
(***************************************************************************)
EXTENDS Integers, SequencesExt

CONSTANTS
  Key,      \* Ed25519 keys
  Broken,   \* what does not decode, import or verify: a payload, a key, a signature
  Scalar,   \* a payload that decodes to something else than an object
  NoKid,    \* a header, or an entry, without a kid
  Name,     \* kids
  Payload,  \* what payloads decode to, when it is an object
  NoJws     \* an answer without a JWS

\* A kid as it is written: with white space around it, or without.
Kid == [name : Name, padded : BOOLEAN] \cup {NoKid}

Trimmed(kid) == IF kid = NoKid THEN NoKid ELSE [kid EXCEPT !.padded = FALSE]

\* A compact JWS: the number of its parts, the header's kid, typ and alg, or one
\* that does not decode; the payload, which may decode to no object or not decode.
JwsOf(payloads) ==
  [parts : {2, 3, 4}, header : {"object", "broken"}, typ : {"JWT", "vc+jwt"}, eddsa : BOOLEAN,
   kid : Kid, payload : payloads \cup {Scalar, Broken}, signer : Key \cup {Broken}]

JwsType == JwsOf(Payload)

EntryType == [kid : Kid, okp : BOOLEAN, key : Key \cup {Broken}]

ASSUME JwsAssumption ==
  /\ NoKid \notin [name : Name, padded : BOOLEAN]
  /\ NoJws \notin JwsType
  /\ Broken \notin Key \cup Payload

\* crypto.verify, over header and payload as received.
Verifies(jws, entry) == jws.signer # Broken /\ entry.key = jws.signer

-----------------------------------------------------------------------------
\* Mutant: any Ed25519 entry may verify, whatever its kid.
verifyCompactJwsAnyKey(jws, set) ==
  LET candidates == {i \in DOMAIN set : set[i].okp}
  IN  IF jws.parts # 3 \/ jws.header = "broken" \/ jws.payload \in {Scalar, Broken}
      THEN "malformed"
      ELSE IF \E i \in candidates : Verifies(jws, set[i])
      THEN "verified" ELSE "verification_failed"

\* lib/vrp-jws.mjs: the outcome, "verified" or the reason it throws.  Every Ed25519
\* entry of the header's kid is tried, until one verifies or cannot be imported.
verifyCompactJws(jws, set) ==
  LET kid            == Trimmed(jws.kid)
      IsCandidate(e) == e.okp /\ e.kid = kid
      EndsSearch(e)  == IsCandidate(e) /\ (e.key = Broken \/ Verifies(jws, e))
      last           == SelectInSeq(set, EndsSearch)
  IN  IF jws.parts # 3 \/ jws.header = "broken" \/ jws.payload \in {Scalar, Broken}
      THEN "malformed"
      ELSE IF ~jws.eddsa THEN "unsupported_alg"
      ELSE IF kid = NoKid THEN "no_kid"
      ELSE IF ~\E i \in DOMAIN set : IsCandidate(set[i]) THEN "no_matching_key"
      ELSE IF last = 0 THEN "verification_failed"
      ELSE IF set[last].key = Broken THEN "unimportable_key" ELSE "verified"

\* scripts/conformance.mjs: the first entry whose kid is the header's as written
\* decides, and two absent kids are equal.
DecideByEntry(jws, set, missing) ==
  LET found == SelectInSeq(set, LAMBDA e : e.kid = jws.kid)
  IN  IF found = 0 THEN missing
      ELSE IF ~set[found].okp \/ set[found].key = Broken THEN "unsupported_key"
      ELSE IF ~Verifies(jws, set[found]) THEN "signature_mismatch"
      ELSE IF jws.payload = Broken THEN "malformed_payload" ELSE "valid"

verifyVectorJws(jws, set) ==
  IF jws.parts # 3 THEN "malformed_jws"
  ELSE IF jws.header = "broken" THEN "malformed_header"
  ELSE IF ~jws.eddsa THEN "unexpected_alg" ELSE DecideByEntry(jws, set, "kid_not_in_jwks")

\* The same for a credential, over the verification methods of a DID document.
verifyAttestationJws(jws, methods) ==
  IF jws.parts # 3 THEN "malformed_jws"
  ELSE IF jws.header = "broken" THEN "malformed_header"
  ELSE IF jws.typ # "vc+jwt" THEN "unexpected_typ"
  ELSE IF ~jws.eddsa THEN "unexpected_alg"
  ELSE DecideByEntry(jws, methods, "kid_not_in_did_document")

\* scripts/verify-stayintent.mjs: "true", "false", or "skipped" for an exception.
\* An entry that the header's kid does not select is replaced by the first of the
\* set; neither alg nor payload is looked at, nor a fourth part.
verifyNodeOffer(jws, set) ==
  LET named == SelectInSeq(set, LAMBDA e : e.kid = jws.kid)
      entry == set[IF named # 0 THEN named ELSE 1]
  IN  IF jws = NoJws THEN "false"
      ELSE IF jws.header = "broken" \/ jws.parts = 2 \/ set = <<>> THEN "skipped"
      ELSE IF ~entry.okp \/ entry.key = Broken THEN "skipped"
      ELSE IF Verifies(jws, entry) THEN "true" ELSE "false"

-----------------------------------------------------------------------------
\* signOffer, signTreeHead and signCredential: a key signs a payload under a kid.
Signed(payload, kid, key, typ) ==
  [parts |-> 3, header |-> "object", typ |-> typ, eddsa |-> TRUE, kid |-> kid,
   payload |-> payload, signer |-> key]

signOffer(offer, kid, key)      == Signed(offer, kid, key, "JWT")
signTreeHead(head, kid, key)    == Signed(head, kid, key, "JWT")
signCredential(claim, kid, key) == Signed(claim, kid, key, "vc+jwt")

\* Another payload under the header and signature of a JWS.
Tampered(jws, payload) == [jws EXCEPT !.payload = payload, !.signer = Broken]
=============================================================================
