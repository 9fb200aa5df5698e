----------------------------- MODULE MCVerifiers -----------------------------
(***************************************************************************)
(* Small sets of signatures, receipts, fixtures and credential bundles for *)
(* the verifiers, each wrong in one way or another, and what they promise. *)
(***************************************************************************)
EXTENDS Receipt, ThreeState, AttestationBundle

CONSTANTS
  k1, k2, n1, n2, p1,   \* two keys, two kids, a payload
  MaxKeys,              \* bound: entries of a key set
  MaxAttestations       \* bound: attestations of a receipt

N1      == [name |-> n1, padded |-> FALSE]
PaddedN1 == [name |-> n1, padded |-> TRUE]
N2      == [name |-> n2, padded |-> FALSE]

Entry(kid, key) == [kid |-> kid, okp |-> TRUE, key |-> key]

\* Every way a compact JWS can be written, and every entry of a key set.
MCJws ==
  [parts : {2, 3, 4}, header : {"object", "broken"}, typ : {"JWT", "vc+jwt"}, eddsa : BOOLEAN,
   kid : {N1, PaddedN1, NoKid}, payload : {p1, Scalar, Broken}, signer : {k1, Broken}]

MCEntry ==
  {Entry(kid, key) : kid \in {N1, PaddedN1, N2, NoKid}, key \in {k1, k2, Broken}} \cup
  {[Entry(kid, k1) EXCEPT !.okp = FALSE] : kid \in {N1, N2}}

-----------------------------------------------------------------------------
\* Attestations: a good one and what can be wrong with it.
GoodAttestation ==
  [shaped |-> TRUE, from |-> 1, until |-> 2, signature |-> signOffer(p1, N1, k1),
   jwks |-> <<Entry(N2, k2), Entry(N1, k1)>>]

MCAttestation ==
  {GoodAttestation,
   [GoodAttestation EXCEPT !.shaped = FALSE],
   [GoodAttestation EXCEPT !.from = 2],
   [GoodAttestation EXCEPT !.until = 1],
   [GoodAttestation EXCEPT !.until = Absent],
   [GoodAttestation EXCEPT !.signature = Absent],
   [GoodAttestation EXCEPT !.signature = Tampered(@, p1)],
   [GoodAttestation EXCEPT !.signature = signOffer(p1, N1, k2)],
   [GoodAttestation EXCEPT !.signature = signOffer(p1, PaddedN1, k1)],
   [GoodAttestation EXCEPT !.jwks = Absent],
   [GoodAttestation EXCEPT !.jwks = <<Entry(N2, k2)>>],
   [GoodAttestation EXCEPT !.jwks = <<Entry(N1, k2), Entry(N1, k1)>>]}

MCReceipt ==
  [object : BOOLEAN, version : {"1.0", "other"}, complete : BOOLEAN, attestations : {<<>>}]

-----------------------------------------------------------------------------
\* Fixtures: no answer, or an offer that differs from a quotable one in any member.
MCOffer ==
  [available : {"true", "false", "none"}, exact : BOOLEAN, whole : BOOLEAN, permission : BOOLEAN,
   https : BOOLEAN, generated_at : {1}, valid_until : {1, 2, 3, Malformed}, request : {NoRequest}]

MCFixture == [kind : {"discovery_timeout", "signed_offer"}, tampered : BOOLEAN, offer : MCOffer]

-----------------------------------------------------------------------------
\* The committed credentials, and other payloads that could stand for the first.
Claim(key, state) == [key |-> key, form |-> "plain", state |-> state, verified_at |-> "date"]
Dogs == Claim("pets_dogs", "affirmed")
Cats == Claim("pets_cats", "negated")

Credential(type, claims) ==
  [contexts |-> TRUE, types |-> {type}, issuer |-> IssuerDid, current |-> TRUE,
   embedded |-> FALSE, claims |-> claims]

MCExamples ==
  [i \in DOMAIN CredentialTypes |->
     Credential(CredentialTypes[i], IF i = Len(CredentialTypes) THEN <<Dogs, Cats>> ELSE <<>>)]

GoodClaims == {<<Dogs, Cats>>, <<Cats, Dogs>>, <<Dogs, Cats, Claim("hot_tub", "negated")>>}

BadClaims ==
  {<<>>, <<Dogs>>, <<Cats, Cats, Dogs>>, <<Dogs, [Cats EXCEPT !.state = "affirmed"]>>,
   <<Dogs, Cats, [Cats EXCEPT !.key = "hot_tub", !.form = "negation"]>>,
   <<Dogs, [Cats EXCEPT !.verified_at = "other"]>>}

MCGoodExamples == {[MCExamples EXCEPT ![5].claims = c] : c \in GoodClaims}

OtherPayloads(payload) ==
  {[payload EXCEPT !.contexts = FALSE], [payload EXCEPT !.types = {}],
   [payload EXCEPT !.issuer = Broken], [payload EXCEPT !.current = FALSE],
   [payload EXCEPT !.embedded = TRUE]} \cup
  {[payload EXCEPT !.claims = c] :
     c \in {d \in GoodClaims \cup BadClaims : payload.claims # <<>>}}

\* What can befall a bundle after it was signed.
OtherEntries(entry) ==
  LET jws == entry.jws IN
  {[entry EXCEPT !.joseMedia = FALSE], [entry EXCEPT !.type = "other"]} \cup
  {[entry EXCEPT !.jws = j] :
     j \in {signOffer(jws.payload, AttestationKid, AttestationKey),
            signCredential(jws.payload, N2, AttestationKey),
            signCredential(jws.payload, AttestationKid, k2),
            signCredential([jws.payload EXCEPT !.types = @ \cup {"host"}],
                           AttestationKid, AttestationKey),
            Tampered(jws, jws.payload)}}

OtherCredentials(credentials) ==
  {Tail(credentials), Front(credentials), credentials \o <<credentials[1]>>} \cup
  {[credentials EXCEPT ![i] = credentials[i + 1], ![i + 1] = credentials[i]] :
     i \in 1 .. Len(credentials) - 1} \cup
  {[credentials EXCEPT ![i] = e] : i \in DOMAIN credentials,
     e \in UNION {OtherEntries(credentials[j]) : j \in DOMAIN credentials}}

OtherDocuments(did) ==
  {<<>>, <<Entry(AttestationKid, k2)>>, <<Entry(N2, AttestationKey)>>,
   did \o <<Entry(N2, k2)>>, <<Entry(N2, k2)>> \o did, <<Entry(AttestationKid, k2)>> \o did,
   did \o <<Entry(AttestationKid, k2)>>}

GoodBundle ==
  [examples |-> MCExamples, bundle |-> signedAttestationBundle(MCExamples),
   did |-> attestationDidWebDocument, otherKey |-> k2, left |-> 2]

\* Examples rewritten and the bundle signed anew, or the old one left.
OtherBundles(b) ==
  LET other == UNION {{[b.examples EXCEPT ![i] = p] : p \in OtherPayloads(b.examples[i])} :
                        i \in {1, 5}}
  IN  {[b EXCEPT !.examples = e] : e \in other} \cup
      {[b EXCEPT !.examples = e, !.bundle = signedAttestationBundle(e)] : e \in other} \cup
      {[b EXCEPT !.bundle.issuer = Broken]} \cup
      {[b EXCEPT !.bundle.credentials = c] : c \in OtherCredentials(b.bundle.credentials)} \cup
      {[b EXCEPT !.did = d] : d \in OtherDocuments(b.did)}
=============================================================================
