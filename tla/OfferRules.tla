----------------------------- MODULE OfferRules -----------------------------
(***************************************************************************)
(* The rules on the stay, the lifetime and the clock of an offer           *)
(* (spec/v0.1.md sections 5, 6 and 7), as the checker                      *)
(* scripts/verify-offer-rules.mjs draws them and as verify.html draws      *)
(* them.  A date-time is a number of ticks, a date the tick at UTC         *)
(* midnight; Malformed is any value that does not parse as one.            *)
(***************************************************************************)
EXTENDS Integers

CONSTANTS
  Millisecond,  \* ticks in a millisecond: a date-time may state a finer fraction
  MaxLifetime,  \* 900 seconds, in ticks
  ClockSkew,    \* 60 seconds, in ticks
  Day,          \* 24 hours, in ticks
  Malformed,    \* a date or a date-time that does not parse
  NoRequest,    \* a payload without a request
  NoStay        \* the stay asked for, when the verifier does not know it

ASSUME UnitsAssumption ==
  /\ Millisecond \in Nat \ {0} /\ Day \in Nat \ {0}
  /\ MaxLifetime \in Nat /\ ClockSkew \in Nat
  /\ Malformed \notin Int

\* What the rules read of a signed payload: generated_at, valid_until and request,
\* a stay and whether its language (when present) is a language tag.
Instant == Int \cup {Malformed}
Request == [check_in : Instant, check_out : Instant, guests : Nat, tagOk : BOOLEAN]

AskedFor(request, asked) ==
  /\ request.check_in = asked.check_in
  /\ request.check_out = asked.check_out
  /\ request.guests = asked.guests

\* The first tick of the day before the verifier's UTC date.
dayBefore(now) == (now \div Day) * Day - Day

-----------------------------------------------------------------------------
\* checkOfferRules, first half: the reasons the two date-times give.
TimeReasons(p, now) ==
  LET from  == p.generated_at
      until == p.valid_until
  IN  {r \in {"malformed_generated_at", "malformed_valid_until",
              "lifetime_not_positive", "lifetime_too_long",
              "generated_at_in_future", "expired"} :
         \/ r = "malformed_generated_at" /\ from = Malformed
         \/ r = "malformed_valid_until" /\ until = Malformed
         \/ /\ from # Malformed /\ until # Malformed
            /\ \/ r = "lifetime_not_positive" /\ until <= from
               \/ r = "lifetime_too_long" /\ until - from > MaxLifetime
         \/ r = "generated_at_in_future" /\ from # Malformed /\ from > now + ClockSkew
         \/ r = "expired" /\ until # Malformed /\ until <= now}

\* Second half: the reasons the request gives.
StayReasons(request, now, asked) ==
  IF request = NoRequest THEN {"request_missing"} ELSE
  LET ci == request.check_in
      co == request.check_out
  IN  {r \in {"invalid_check_in", "invalid_check_out", "check_out_not_after_check_in",
              "check_in_in_past", "invalid_language", "asked_stay_unknown",
              "request_mismatch"} :
         \/ r = "invalid_check_in" /\ ci = Malformed
         \/ r = "invalid_check_out" /\ co = Malformed
         \/ /\ r = "check_out_not_after_check_in"
            /\ ci # Malformed /\ co # Malformed /\ co <= ci
         \/ r = "check_in_in_past" /\ ci # Malformed /\ ci < dayBefore(now)
         \/ r = "invalid_language" /\ ~request.tagOk
         \/ r = "asked_stay_unknown" /\ asked = NoStay
         \/ r = "request_mismatch" /\ asked # NoStay /\ ~AskedFor(request, asked)}

checkOfferRules(p, now, asked) ==
  TimeReasons(p, now) \cup StayReasons(p.request, now, asked)

-----------------------------------------------------------------------------
\* verify.html reads a date-time with Date.parse, which keeps whole milliseconds.
parseDateTime(t) == IF t = Malformed THEN Malformed ELSE t - (t % Millisecond)

\* Mutant: generated_at is not held against the clock.
TimeOKUnclocked(p, now) ==
  LET ga == parseDateTime(p.generated_at)
      vu == parseDateTime(p.valid_until)
  IN  /\ vu # Malformed /\ vu > now
      /\ ga # Malformed
      /\ vu > ga /\ vu - ga <= MaxLifetime

\* Mutant: an offer that lives exactly as long as it may is refused.
TimeOKShort(p, now) ==
  LET ga == parseDateTime(p.generated_at)
      vu == parseDateTime(p.valid_until)
  IN  /\ vu # Malformed /\ vu > now
      /\ ga # Malformed
      /\ vu > ga /\ vu - ga < MaxLifetime
      /\ ga <= now + ClockSkew

\* The page's rows for freshness, lifetime and clock add nothing to `notQuotable`.
TimeOK(p, now) ==
  LET ga == parseDateTime(p.generated_at)
      vu == parseDateTime(p.valid_until)
  IN  /\ vu # Malformed /\ vu > now
      /\ ga # Malformed
      /\ vu > ga /\ vu - ga <= MaxLifetime
      /\ ga <= now + ClockSkew

\* Nor do its rows for the dates, the language tag and the stay asked for.
StayOK(request, now, asked) ==
  /\ request # NoRequest
  /\ request.check_in # Malformed /\ request.check_out # Malformed
  /\ request.check_out > request.check_in
  /\ request.check_in >= dayBefore(now)
  /\ request.tagOk
  /\ asked # NoStay /\ AskedFor(request, asked)

-----------------------------------------------------------------------------
\* A payload whose date-times state no fraction finer than a millisecond.
WholeMilliseconds(p) ==
  \A t \in {p.generated_at, p.valid_until} : t # Malformed => t % Millisecond = 0

\* The page and the checker draw the same boundaries for such a payload.
PageAgreesWithChecker(p, now, asked) ==
  TimeOK(p, now) /\ StayOK(p.request, now, asked) <=>
    checkOfferRules(p, now, asked) = {}

\* The two allowances add up and no further: what passes at an instant has expired
\* a lifetime and a clock allowance later, whatever clock the host signed it by.
ExpiresSoon(p, now) ==
  TimeOK(p, now) => parseDateTime(p.valid_until) <= now + MaxLifetime + ClockSkew
=============================================================================
