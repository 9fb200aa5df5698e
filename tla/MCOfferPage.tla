----------------------------- MODULE MCOfferPage -----------------------------
(***************************************************************************)
(* A small instance of OfferPage: one host-owned node, one name on a       *)
(* platform's domain, one malformed name, and offers that each differ from *)
(* a good one in one way.  A millisecond is two ticks; 60 seconds are two, *)
(* 900 seconds four and a day sixteen.                                     *)
(***************************************************************************)
EXTENDS OfferPage

CONSTANTS k1, k2

villa    == <<"villa", "com">>
wwwVilla == <<"www", "villa", "com">>
platform == <<"villa", "platform", "com">>
odd      == <<"Villa", "com">>

MCALabel    == {"villa", "www", "platform", "com"}
MCRules     == {[ex |-> FALSE, labels |-> <<"com">>]}
MCBrandTlds == {}
MCDomain    == {villa, wwwVilla, platform, odd}

\* The keys are on the www host, where a rotation withdraws k1.  The name under the
\* platform's domain has the same key, and a document and an offer of its own.
MCServed ==
  [d \in MCDomain |-> CASE d = wwwVilla -> {{k1}, {k2}}
                        [] d = platform -> {{k1}}
                        [] OTHER        -> {}]

Plain(d) == [host |-> d, plain |-> TRUE]

Node == [vrp |-> TRUE, domain |-> villa, jwks |-> Plain(wwwVilla), offers |-> Plain(villa)]

MCDocument ==
  {Node, [Node EXCEPT !.vrp = FALSE],
   [Node EXCEPT !.offers = Plain(platform)],
   [Node EXCEPT !.domain = platform, !.jwks = Plain(platform), !.offers = Plain(platform)]}

\* Seen from instant 34 the good offer has just been made and lives as long as it
\* may: at 32 it is as far ahead as it may be, at 38 it has just expired.
MCClock == {32, 34, 38}

Stay == [check_in |-> 32, check_out |-> 48, guests |-> 2]
MCAsked == {Stay}

Good == [cd |-> villa, complete |-> TRUE, book |-> Plain(wwwVilla), flags |-> TRUE,
         generated_at |-> 34, valid_until |-> 38,
         request |-> [check_in |-> 32, check_out |-> 48, guests |-> 2, tagOk |-> TRUE]]

Fractional == [Good EXCEPT !.valid_until = 39]

MCPayload ==
  {Good, Fractional,
   [Good EXCEPT !.cd = platform, !.book = Plain(platform)],
   [Good EXCEPT !.complete = FALSE],
   [Good EXCEPT !.book = NoUrl],
   [Good EXCEPT !.book = Plain(platform)],
   [Good EXCEPT !.flags = FALSE],
   [Good EXCEPT !.generated_at = 36, !.valid_until = 40],
   [Good EXCEPT !.generated_at = 32],
   [Good EXCEPT !.generated_at = 38],
   [Good EXCEPT !.valid_until = Malformed],
   [Good EXCEPT !.request = NoRequest],
   [Good EXCEPT !.request.check_in = 0],
   [Good EXCEPT !.request.tagOk = FALSE],
   [Good EXCEPT !.request.guests = 3],
   [Good EXCEPT !.cd = odd]}

Signed(p) == [jws |-> [kid |-> k1, sound |-> TRUE, payload |-> p], copy |-> p]

MCPasted ==
  {Signed(Good), Signed([Good EXCEPT !.cd = odd]),
   Signed([Good EXCEPT !.cd = platform, !.book = Plain(platform)])}

\* What an endpoint answers: every payload, and a good one in every wrong envelope.
MCEnvelope ==
  {Signed(p) : p \in MCPayload} \cup
  {[Signed(Good) EXCEPT !.jws.sound = FALSE],
   [Signed(Good) EXCEPT !.jws.kid = NoKey],
   [Signed(Good) EXCEPT !.copy = [Good EXCEPT !.flags = FALSE]],
   [Signed(Good) EXCEPT !.copy = NoCopy],
   [Signed(Good) EXCEPT !.copy = Null],
   [Signed(Good) EXCEPT !.jws = NoJws]}
=============================================================================
