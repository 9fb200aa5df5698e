----------------------------- MODULE ThreeState -----------------------------
(***************************************************************************)
(* scripts/verify-three-state-fixtures.mjs: what may be said of an offer,  *)
(* each fact affirmed, negated or unknown.  A fixture is no answer at all, *)
(* or an offer signed with the published test key at the time of writing,  *)
(* whose payload may be replaced under its signature.                      *)
(***************************************************************************)
EXTENDS Signatures, OfferRules

CONSTANTS
  TestKey,   \* the throwaway key of the vectors
  TestName   \* its kid

\* What the evaluation reads of an offer, besides what OfferRules does: availability
\* true, false or neither; the price; the permission; the booking URL.
FactsType ==
  [available : {"true", "false", "none"}, exact : BOOLEAN, whole : BOOLEAN,
   permission : BOOLEAN, https : BOOLEAN, generated_at : Instant, valid_until : Instant,
   request : Request \cup {NoRequest}]

ASSUME VectorsAssumption ==
  TestName \in Name /\ TestKey \in Key /\ Broken \notin Key \cup FactsType

TestKid == [name |-> TestName, padded |-> FALSE]

\* What evaluateFixture is given: no answer, or an offer and whether it was tampered
\* with.
FixtureType ==
  [kind : {"discovery_timeout", "signed_offer"}, tampered : BOOLEAN, offer : FactsType]

\* jwks(): the one published key.
TestJwks == <<[kid |-> TestKid, okp |-> TRUE, key |-> TestKey]>>

\* compactJwsForFixture: the offer signed, and perhaps its price replaced after that.
compactJwsForFixture(input) ==
  LET jws == signOffer(input.offer, TestKid, TestKey)
  IN  IF input.tampered THEN Tampered(jws, [input.offer EXCEPT !.whole = ~@]) ELSE jws

\* A verdict about which nothing is known but these facts: nothing may be quoted or
\* cited, and a fresh offer must be fetched.
Unknown(facts, known) ==
  [facts |-> [f \in facts \cup DOMAIN known |->
                IF f \in DOMAIN known THEN known[f] ELSE "unknown"],
   quote |-> FALSE, cite |-> FALSE, fetch |-> TRUE]

unknownResultForNoResponse ==
  Unknown({"canonical_domain", "verified_stay_offer_endpoint", "availability", "price",
           "direct_booking_url"}, <<>>)

Quotable == {"availability", "price", "direct_booking_url"}

FreshUntil(until, at) == until # Malformed /\ until >= at   \* mutant: to the instant itself

\* new Date(valid_until) > new Date(evaluation_time): a date that does not parse is
\* after nothing.
Fresh(until, at) == until # Malformed /\ until > at

Judged(offer) ==
  LET available  == offer.available = "true"
      exactPrice == available /\ offer.exact /\ offer.whole
      safe       == available /\ exactPrice /\ offer.permission /\ offer.https
      State(p, otherwise) == IF p THEN "affirmed" ELSE otherwise
  IN  [facts |-> [signature |-> "affirmed", offer_freshness |-> "affirmed",
                  available |-> State(available, "negated"),
                  price |-> State(exactPrice, "unknown"),
                  direct_booking_url |-> State(safe, "unknown"),
                  agent_permission |-> State(offer.permission, "negated")],
       quote |-> safe, cite |-> offer.available = "false", fetch |-> FALSE]

evaluateFixture(input, at) ==
  LET jws == compactJwsForFixture(input)
  IN  IF input.kind = "discovery_timeout" THEN unknownResultForNoResponse
      ELSE IF verifyVectorJws(jws, TestJwks) # "valid"
      THEN Unknown(Quotable \cup {"agent_permission"}, [signature |-> "negated"])
      ELSE IF ~Fresh(jws.payload.valid_until, at)
      THEN Unknown(Quotable, [signature |-> "affirmed", offer_freshness |-> "negated"])
      ELSE Judged(jws.payload)
=============================================================================
