------------------------------- MODULE Library -------------------------------
(***************************************************************************)
(* The libraries and scripts whose work is a function of their input, and  *)
(* what they promise of every input of its type.  A subject is what is     *)
(* looked at; the transparency log has a life of its own and takes none.   *)
(***************************************************************************)
EXTENDS TransparencyLog, Receipt, ThreeState, AttestationBundle, PublicRoutes, Markdown

VARIABLES
  subject,   \* what is looked at
  input      \* the input so far

\* A claim about a tree, whose size is within the width of the shifts, and a proof.
ClaimOK(c, proof) ==
  \E E, S :
    /\ proof \in Seq(S)
    /\ c.tree \in Seq(E) /\ Len(c.tree) <= TwoTo[Width - 1]
    /\ c.kind = "inclusion"   => c.size \in Nat /\ c.index \in 0 .. c.size - 1
    /\ c.kind = "consistency" => c.first \in Seq(E) /\ Len(c.first) \in 1 .. Len(c.tree) - 1

\* What the functions are called with.
InputOK ==
  /\ subject = "claim"   => ClaimOK(input[1], input[2])
  /\ subject = "name"    => input \in Seq(STRING)
  /\ subject = "jws"     => input \in JwsType \X Seq(EntryType)
  /\ subject = "receipt" => input \in ReceiptType \X Int
  /\ subject = "fixture" => input \in FixtureType \X Int
  /\ subject = "bundle"  => /\ input.bundle \in BundleType
                            /\ input.examples \in ExamplesType
                            /\ input.did \in Seq(EntryType)
                            /\ input.otherKey \in Key \ {AttestationKey}
  /\ subject = "document" => input \in Seq(LineType)
  /\ subject = "site" /\ input[1] = "lists" => input[2] \in SiteType

-----------------------------------------------------------------------------
Included(c, p) ==
  verifyInclusion(hashLeaf(c.entry), c.index, c.size, p, merkleTreeHash(c.tree))

\* verifyInclusion, whatever index, size and hashes the proof states (32-bit wrap
\* included): an entry that verifies is in the tree of that root, and at the stated
\* index when the stated size is the tree's.
OnlyMembersVerify ==
  subject = "claim" =>
    LET c == input[1] IN
    c.kind = "inclusion" /\ Included(c, input[2]) =>
      /\ c.entry \in ToSet(c.tree)
      /\ c.size = Len(c.tree) => c.tree[c.index + 1] = c.entry

\* When the stated size is the tree's, verifyInclusion accepts the path that
\* inclusionProof produces for that index and no other list of hashes.
OnlyTheAuditPathVerifies ==
  subject = "claim" =>
    LET c == input[1] IN
    c.kind = "inclusion" /\ c.size = Len(c.tree) =>
      (Included(c, input[2]) <=>
         c.tree[c.index + 1] = c.entry /\ input[2] = inclusionProof(c.index, c.tree))

\* verifyConsistency accepts the proof that consistencyProof produces, for a tree
\* that extends the first, and nothing else: no rewritten entry gets through.
OnlyAppendsVerify ==
  subject = "claim" =>
    LET c == input[1] IN
    c.kind = "consistency" =>
      (verifyConsistency(Len(c.first), Len(c.tree), merkleTreeHash(c.first),
                         merkleTreeHash(c.tree), input[2])
         <=> IsPrefix(c.first, c.tree) /\ input[2] = consistencyProof(Len(c.first), c.tree))

-----------------------------------------------------------------------------
\* The list's own words (publicsuffix.org/list): a name matched by an exception is
\* registrable; otherwise the registrable domain is the longest public suffix of
\* the name and one label more.
Excepted(n) == \E r \in Rules : r.ex /\ Len(r.labels) = Len(n) /\ Matches(r, n)

IsPublicSuffix(n) ==
  Len(n) = 1 \/ \E r \in Rules : ~r.ex /\ Len(r.labels) = Len(n) /\ Matches(r, n)

Owner(n) ==
  LET exempt == {s \in Suffixes(n) \ {<<>>} : Excepted(s)}
      public == {s \in Suffixes(n) \ {<<>>} : IsPublicSuffix(s)}
      owners == {s \in Suffixes(n) \ {<<>>} :
                   /\ Tail(s) \in public
                   /\ \A p \in public : Len(p) < Len(s)}
  IN  IF exempt # {} THEN exempt ELSE owners

\* registrableDomain computes what the list's own words say: the label above the
\* longest public suffix, wildcards and exceptions included; none has no owner.
AgreesWithTheList ==
  subject = "name" /\ input # <<>> =>
    Owner(input) = (IF registrableDomain(input) = <<>> THEN {} ELSE {registrableDomain(input)})

-----------------------------------------------------------------------------
\* The four verifiers of a compact JWS choose its key in different ways.  Over a set
\* with one entry a kid, and a kid without padding: the library, the vectors'
\* verifier and the credentials' accept the same objects, and under a kid that is
\* not in the set none.  Under a kid that is, the StayIntent check calls true what
\* the library accepts, and beyond it only an alg or payload it does not read, or a
\* fourth part it drops: a named key's refusal is never overruled.  (For a kid that
\* is not in the set see UnknownKidVerifiesNothing.)
SelectorsAgree ==
  subject = "jws" =>
    LET jws    == input[1]
        set    == input[2]
        lib    == verifyCompactJws(jws, set) = "verified"
        vector == verifyVectorJws(jws, set) = "valid"
        node   == verifyNodeOffer(jws, set)
        named  == \E i \in DOMAIN set : set[i].kid = jws.kid
    IN  /\ \A i, j \in DOMAIN set : set[i].kid = set[j].kid => i = j
        /\ jws.kid # NoKid /\ jws.kid = Trimmed(jws.kid)
        => /\ jws.payload # Scalar => (lib <=> vector)
           /\ vector /\ jws.typ = "vc+jwt" <=> verifyAttestationJws(jws, set) = "valid"
           /\ ~named => ~lib /\ ~vector
           /\ lib => node = "true"
           /\ named /\ node = "true" /\ ~lib =>
                ~jws.eddsa \/ jws.parts = 4 \/ jws.payload \in {Scalar, Broken}

\* "VRP v0.1 section 3.1: the key is the one whose kid the JWS header names, and no
\* other" (lib/vrp-jws.mjs:39-40): an offer under a kid that the node does not publish
\* does not verify.  The StayIntent check falls back to the first key of the set.
UnknownKidVerifiesNothing ==
  subject = "jws" =>
    LET jws == input[1]
        set == input[2]
    IN  /\ jws = signOffer(jws.payload, jws.kid, jws.signer) /\ jws.kid # NoKid
        /\ \A i \in DOMAIN set : set[i].kid # jws.kid
        => verifyNodeOffer(jws, set) # "true"

\* The signature of an attestation holds: its JWS can be read, and of its source's
\* Ed25519 keys under its kid one made it and none before that is unimportable.
HoldsUnder(jws, jwks) ==
  /\ jws.parts = 3 /\ jws.header = "object" /\ jws.eddsa
  /\ jws.payload \notin {Scalar, Broken}
  /\ jws.kid # NoKid
  /\ \E i \in DOMAIN jwks :
       /\ jwks[i].okp /\ jwks[i].kid = Trimmed(jws.kid)
       /\ jwks[i].key = jws.signer /\ jws.signer # Broken
       /\ \A j \in 1 .. i : jwks[j].okp /\ jwks[j].kid = Trimmed(jws.kid) => jwks[j].key # Broken

\* verifyReceipt: a receipt is fully verified only when every attestation, judged by
\* itself, is inside its window, ends included, and signed by a key that its source
\* lists under the signature's kid; one bad attestation takes nothing from the
\* outcomes of the others, and a receipt of the wrong shape has none.
FullyVerifiedMeansEach ==
  subject = "receipt" =>
    LET receipt == input[1]
        now     == input[2]
        verdict == verifyReceipt(receipt, now)
        Holds(a) == /\ a.from # Absent /\ a.until # Absent /\ now \in a.from .. a.until
                    /\ a.signature # Absent /\ a.jwks # Absent
                    /\ HoldsUnder(a.signature, a.jwks)
        Alone(i) == verifyReceipt([receipt EXCEPT !.attestations = <<@[i]>>], now)
    IN  /\ verdict.fully_verified <=>
             /\ validateReceiptShape(receipt)
             /\ \A i \in DOMAIN receipt.attestations : Holds(receipt.attestations[i])
        /\ verdict.receipt_valid => \A i \in DOMAIN receipt.attestations :
             verdict.attestations[i] = Alone(i).attestations[1]
        /\ ~verdict.receipt_valid => verdict.attestations = <<>>

\* evaluateFixture: of an offer that is not signed, or not of this moment by the
\* checker's own rules, nothing but that is known, nothing may be quoted or cited,
\* and a fresh one must be fetched; quoting rests on every fact being affirmed, and
\* never goes with citing the stay as unavailable.
NothingIsInferred ==
  subject = "fixture" =>
    LET fixture == input[1]
        result  == evaluateFixture(fixture, input[2])
        current == /\ fixture.kind = "signed_offer" /\ ~fixture.tampered
                   /\ TimeReasons(fixture.offer, input[2]) \cap
                        {"malformed_valid_until", "expired"} = {}
    IN  /\ result.fetch <=> ~current
        /\ result.fetch => /\ ~result.quote /\ ~result.cite
                           /\ \A f \in DOMAIN result.facts :
                                f \notin {"signature", "offer_freshness"} =>
                                  result.facts[f] = "unknown"
        /\ ~(result.quote /\ result.cite)
        /\ result.quote => \A f \in DOMAIN result.facts : result.facts[f] = "affirmed"

\* Payloads that make a good bundle: each is for its place, from the issuer, current
\* and without an embedded proof, and the claims have one plain, decided key each,
\* dogs affirmed and cats negated among them.
GoodExamples(examples) ==
  /\ \A i \in DOMAIN CredentialTypes :
       examples[i] \in [contexts : {TRUE}, types : {t \in SUBSET ToSet(CredentialTypes) :
                                                      CredentialTypes[i] \in t},
                        issuer : {IssuerDid}, current : {TRUE}, embedded : {FALSE},
                        claims : Seq(ClaimType)]
  /\ LET claims  == examples[Len(CredentialTypes)].claims
         stated  == {<<claims[i].key, claims[i].state>> : i \in DOMAIN claims}
     IN  /\ claims \in Seq([key : {"pets_dogs", "pets_cats", "hot_tub"}, form : {"plain"},
                            state : {"affirmed", "negated"}, verified_at : {"absent", "date"}])
         /\ \A i, j \in DOMAIN claims : claims[i].key = claims[j].key => i = j
         /\ {<<"pets_dogs", "affirmed">>, <<"pets_cats", "negated">>} \subseteq stated

\* verify-attestation-vectors.mjs passes on the bundle that conformance.mjs builds
\* from the committed credentials, if these are good, under a DID document that has
\* the vectors' key first, and on no bundle with anything else in it: another key,
\* another order, a payload or a header that differs, a lost credential.
BundleChecksBite ==
  subject = "bundle" =>
    (BundlePasses(input.bundle, input.examples, input.did, input.otherKey) <=>
       /\ GoodExamples(input.examples)
       /\ input.bundle = signedAttestationBundle(input.examples)
       /\ input.did # <<>> /\ input.did[1] = attestationDidWebDocument[1]
       /\ \A i \in DOMAIN input.did : input.did[i].kid # [AttestationKid EXCEPT !.padded = TRUE])

-----------------------------------------------------------------------------
\* mdToHtml goes on at every round ("Anything unrecognized falls through to an
\* escaped paragraph, so no text is ever dropped", scripts/lib/markdown.mjs:8-10).
EveryRoundAdvances ==
  subject = "document" => \A b \in ToSet(mdToHtml(input)) : b.next > b.first

\* A fence as rewriteLinks and mdToHtml both see it, at the margin and without text.
PlainFences(doc) ==
  \A i \in DOMAIN doc : doc[i].kind \in FenceKind => doc[i].kind = "tick" /\ doc[i].indent = 0

\* Where it does go on, the text of each line is in one block and once, the blocks are
\* in the order of the document and, except in a list, the lines too; with plain fences
\* rewriteLinks rewrites the lines that the renderer does not take for code; and no two
\* headings have one id, when no heading's own text ends in a number.
DocumentsAreKept ==
  subject = "document" /\ EveryRoundAdvances =>
    LET blocks    == mdToHtml(input)
        Lines(b)  == ToSet(blocks[b].lines)
        code      == UNION {Lines(b) : b \in {c \in DOMAIN blocks : blocks[c].tag = "pre"}}
    IN  /\ \A i \in DOMAIN input :
             input[i].kind \in {"text", "heading", "quote", "item", "row"} =>
               \E b \in DOMAIN blocks : i \in Lines(b)
        /\ \A b \in DOMAIN blocks : IsInjective(blocks[b].lines)
        /\ \A b, c \in DOMAIN blocks : b < c => \A m \in Lines(b), n \in Lines(c) : m < n
        /\ \A b \in DOMAIN blocks : blocks[b].tag # "list" =>
             \A p, q \in DOMAIN blocks[b].lines :
               p < q => blocks[b].lines[p] < blocks[b].lines[q]
        /\ PlainFences(input) =>
             rewriteLinks(input) = {i \in DOMAIN input : input[i].kind # "tick"} \ code
        /\ (\A i \in headings(input) : Len(input[i].id) = 1) =>
             \A i, j \in headings(input) : headingId(input, i) = headingId(input, j) => i = j

-----------------------------------------------------------------------------
\* What the checks mean for a visitor: when checkPublicRoutes passes, a listed route
\* that names no .html file and no directory is answered by Vercel with the file the
\* check resolved, under the type it expects, which is the file's own if the address
\* tells it; and checkLiveRoutes passes too if the documents that link a canonical
\* are such routes, with no other type set.
StaticImpliesLive ==
  subject = "site" /\ input[1] = "lists" =>
    LET site    == input[2]
        routes  == site.sitemap \cup site.llms \cup site.hrefs
        answers == [r \in routes \cup linkHeaderRoutes(site) |-> Response(site, r)]
        Expected(r) == expectedContentType(r, resolveRoute(site, r))
        Canonical(r) ==
          /\ r.ext # "html"
          /\ resolveRoute(site, r) \notin site.dirs
          /\ rewriteDestination(site, r) # NoPath => rewriteDestination(site, r).ext # "html"
        TellsType(r, file) ==
          /\ r.ext = "jsonld" => file.ext = "jsonld"
          /\ r.dir \in Documents => file.ext # ""  /\ (file.ext = "jsonld" => r.ext = "jsonld")
    IN  checkPublicRoutes(site) /\ (\A r \in routes : Canonical(r)) =>
          /\ \A r \in routes :
               /\ answers[r].status = 200 /\ answers[r].file = resolveRoute(site, r)
               /\ Expected(r) # NoPath =>
                    /\ answers[r].type = Expected(r)
                    /\ TellsType(r, answers[r].file) =>
                         answers[r].type = TypeOf(answers[r].file)
          /\ (\A r \in linkHeaderRoutes(site) :
                Canonical(r) /\ TellsType(r, r) /\ contentTypes(site, r) \subseteq {TypeOf(r)}) =>
               checkLiveRoutes(site, answers)
=============================================================================
