-------------------------- MODULE AttestationBundle --------------------------
(***************************************************************************)
(* The attestation vectors: scripts/conformance.mjs signs the committed    *)
(* credential payloads into a bundle, and                                  *)
(* scripts/verify-attestation-vectors.mjs checks the committed bundle.     *)
(***************************************************************************)
EXTENDS Signatures

CONSTANTS
  IssuerDid,        \* ATTESTATION_ISSUER_DID
  AttestationKey,   \* the vectors' throwaway key
  AttestationName   \* ATTESTATION_KID

CredentialTypes == <<"host", "payment", "policy", "stay", "claims">>

\* One claim of the manifest: how its key is formed, its state and verified_at.
ClaimType ==
  [key : {"pets_dogs", "pets_cats", "hot_tub"}, form : {"plain", "negation", "malformed"},
   state : {"affirmed", "negated", "other"}, verified_at : {"absent", "date", "other"}]

\* A credential's payload, as far as the checks read it; current: its window holds
\* the evaluation time.
CredentialType ==
  [contexts : BOOLEAN, types : SUBSET ToSet(CredentialTypes), issuer : {IssuerDid, Broken},
   current : BOOLEAN, embedded : BOOLEAN, claims : Seq(ClaimType)]

ASSUME CredentialsAssumption ==
  /\ AttestationName \in Name /\ AttestationKey \in Key
  /\ IssuerDid # Broken /\ Broken \notin Key \cup CredentialType

\* A bundle as it is committed, and the payloads it is checked against.
ExamplesType == [DOMAIN CredentialTypes -> CredentialType]

BundleType ==
  [issuer : {IssuerDid, Broken},
   credentials : Seq([type : STRING, joseMedia : BOOLEAN, jws : JwsOf(CredentialType)])]

AttestationKid == [name |-> AttestationName, padded |-> FALSE]

\* attestationDidWebDocument: the verification methods it publishes.
attestationDidWebDocument ==
  <<[kid |-> AttestationKid, okp |-> TRUE, key |-> AttestationKey]>>

\* signedAttestationBundle over the committed payloads, one for each type.
signedAttestationBundle(payloads) ==
  [issuer |-> IssuerDid,
   credentials |-> [i \in DOMAIN CredentialTypes |->
     [type |-> CredentialTypes[i], joseMedia |-> TRUE,
      jws |-> signCredential(payloads[i], AttestationKid, AttestationKey)]]]

-----------------------------------------------------------------------------
BundleShape(bundle) ==
  /\ bundle.issuer = IssuerDid
  /\ Len(bundle.credentials) = Len(CredentialTypes)
  /\ \A i \in DOMAIN bundle.credentials : bundle.credentials[i].type = CredentialTypes[i]

PayloadChecks(payload, label, bundle) ==
  /\ payload.contexts
  /\ label \in payload.types
  /\ payload.issuer = bundle.issuer
  /\ payload.current
  /\ ~payload.embedded

\* Mutant: the header and the payload's own members, without the committed example.
CredentialChecksAlone(entry, example, bundle, did) ==
  /\ entry.joseMedia
  /\ verifyAttestationJws(entry.jws, did) = "valid"
  /\ entry.jws.kid = AttestationKid
  /\ PayloadChecks(entry.jws.payload, entry.type, bundle)

\* The checks of one credential, against the committed payload of its place.
CredentialChecks(entry, example, bundle, did) ==
  /\ entry.joseMedia
  /\ verifyAttestationJws(entry.jws, did) = "valid"
  /\ entry.jws.kid = AttestationKid
  /\ entry.jws.payload = example
  /\ PayloadChecks(entry.jws.payload, entry.type, bundle)

\* The normative rules of the claims manifest, and the case it was made for. Of two
\* claims with one key the last would be meant.
ClaimsChecks(claims) ==
  LET KeyState(key) == {i \in DOMAIN claims : claims[i].key = key}
  IN  /\ claims # <<>>
      /\ \A i \in DOMAIN claims : /\ claims[i].form = "plain"
                                  /\ claims[i].state \in {"affirmed", "negated"}
                                  /\ claims[i].verified_at \in {"absent", "date"}
      /\ \A i, j \in DOMAIN claims : claims[i].key = claims[j].key => i = j
      /\ \E i, j \in DOMAIN claims : /\ claims[i].key = "pets_dogs" /\ claims[i].state = "affirmed"
                                     /\ claims[j].key = "pets_cats" /\ claims[j].state = "negated"

\* Every check of the script passes. The negative vectors are the first credential
\* tampered, its payload under a kid the document lacks, and its JWS against a
\* document with another key under its kid.
BundlePasses(bundle, examples, did, otherKey) ==
  LET first == bundle.credentials[1].jws
      lost  == [name |-> AttestationName, padded |-> TRUE]
  IN  /\ did # <<>> /\ did[1].key = AttestationKey
      /\ BundleShape(bundle)
      /\ \A i \in DOMAIN bundle.credentials :
           CredentialChecks(bundle.credentials[i], examples[i], bundle, did)
      /\ ClaimsChecks(bundle.credentials[Len(CredentialTypes)].jws.payload.claims)
      /\ verifyAttestationJws(Tampered(first, examples[1]), did) = "signature_mismatch"
      /\ verifyAttestationJws(signCredential(examples[1], lost, AttestationKey), did)
           = "kid_not_in_did_document"
      /\ verifyAttestationJws(first, [did EXCEPT ![1].key = otherKey]) = "signature_mismatch"
=============================================================================
