-------------------------- MODULE OfferPage_proofs --------------------------
(***************************************************************************)
(* The offer page for every set of domains, offers, documents, key sets    *)
(* and instants, and for every length of the allowances: the page and the  *)
(* checker draw the same boundaries, "safe to quote" is said when all of   *)
(* section 7 holds and only then, and no call is ever set back.            *)
(***************************************************************************)
EXTENDS OfferPage, TLAPS

\* Date.parse loses nothing of a date-time in whole milliseconds.
LEMMA WholeParses ==
  ASSUME NEW t \in Instant, t # Malformed => t % Millisecond = 0
  PROVE  parseDateTime(t) = t
BY UnitsAssumption DEF parseDateTime, Instant

\* The rows of verify.html and the reasons of checkOfferRules draw the same boundaries,
\* at every instant and for every stay, when no date-time is finer than a millisecond.
THEOREM RulesAgree ==
  ASSUME NEW p, NEW t \in Int, NEW asked,
         p.generated_at \in Instant, p.valid_until \in Instant,
         p.request \in Request \cup {NoRequest},
         WholeMilliseconds(p)
  PROVE  PageAgreesWithChecker(p, t, asked)
<1> DEFINE from == p.generated_at
           until == p.valid_until
           r == p.request
<1>1. parseDateTime(from) = from /\ parseDateTime(until) = until
  BY WholeParses DEF WholeMilliseconds
<1>2. TimeOK(p, t) <=> TimeReasons(p, t) = {}
  <2>1. TimeOK(p, t) <=>
          /\ until # Malformed /\ until > t /\ from # Malformed
          /\ until > from /\ until - from <= MaxLifetime /\ from <= t + ClockSkew
    BY <1>1 DEF TimeOK
  <2> QED
    BY <2>1, UnitsAssumption DEF TimeReasons, Instant
<1>3. StayOK(r, t, asked) <=> StayReasons(r, t, asked) = {}
  <2>1. CASE r = NoRequest
    BY <2>1 DEF StayOK, StayReasons
  <2>2. CASE r # NoRequest
    <3> DEFINE first == dayBefore(t)
    <3>1. r \in Request /\ first \in Int
      BY <2>2, UnitsAssumption DEF dayBefore
    <3> HIDE DEF first
    <3>2. StayOK(r, t, asked) <=>
            /\ r.check_in # Malformed /\ r.check_out # Malformed
            /\ r.check_out > r.check_in /\ r.check_in >= first
            /\ r.tagOk /\ asked # NoStay /\ AskedFor(r, asked)
      BY <2>2 DEF StayOK, first
    <3>3. StayReasons(r, t, asked) = {} <=>
            /\ r.check_in # Malformed /\ r.check_out # Malformed
            /\ ~(/\ r.check_in # Malformed /\ r.check_out # Malformed
                 /\ r.check_out <= r.check_in)
            /\ ~(r.check_in # Malformed /\ r.check_in < first)
            /\ r.tagOk /\ asked # NoStay
            /\ ~(asked # NoStay /\ ~AskedFor(r, asked))
      BY <2>2 DEF StayReasons, first
    <3>4. r.check_in \in Instant /\ r.check_out \in Instant
      BY <3>1 DEF Request
    <3> QED
      BY <3>1, <3>2, <3>3, <3>4 DEF Instant
  <2> QED
    BY <2>1, <2>2
<1> QED
  BY <1>2, <1>3 DEF PageAgreesWithChecker, checkOfferRules

\* The page's two allowances add up and no further: what passes now has expired a
\* lifetime and a clock allowance later, in whatever fraction its date-times are given.
THEOREM Horizon ==
  ASSUME NEW p, NEW t \in Int, p.generated_at \in Instant, p.valid_until \in Instant
  PROVE  ExpiresSoon(p, t)
BY UnitsAssumption DEF ExpiresSoon, TimeOK, parseDateTime, Instant

-----------------------------------------------------------------------------
\* The end of a call, and a call that goes on, keep the types.
LEMMA EndTyped ==
  ASSUME TypeOK, NEW b \in Button, NEW kind \in Kinds, End(b, kind),
         now' \in Clock, lists' \in {"null", "pending", "fulfilled"}
  PROVE  TypeOK'
<1>1. NoLocal \in LocalType
  BY DEF NoLocal, LocalType
<1> QED
  BY <1>1 DEF TypeOK, End, Steps

LEMMA AwaitTyped ==
  ASSUME TypeOK, NEW b \in Button, NEW step \in Steps, NEW l \in LocalType,
         Await(b, step, l),
         now' \in Clock, lists' \in {"null", "pending", "fulfilled"}
  PROVE  TypeOK'
BY DEF TypeOK, Await

LEMMA AskListsTyped ==
  ASSUME TypeOK, NEW b \in Button, NEW l \in LocalType, AskLists(b, l), now' = now
  PROVE  TypeOK'
<1>1. \A own \in {"pass", "fail"} : [l EXCEPT !.own = own] \in LocalType
  BY DEF LocalType
<1>2. OwnState(l.domain) \in {"pass", "fail"}
  BY DEF OwnState
<1>3. now' \in Clock /\ lists \in {"null", "pending", "fulfilled"}
  BY DEF TypeOK
<1>4. CASE lists' = lists /\ Await(b, "judged", [l EXCEPT !.own = "fail"])
  BY <1>1, <1>3, <1>4, AwaitTyped DEF Steps
<1>5. CASE lists' = lists /\ Await(b, "judged", [l EXCEPT !.own = OwnState(l.domain)])
  BY <1>1, <1>2, <1>3, <1>5, AwaitTyped DEF Steps
<1>6. CASE lists' = "pending" /\ Await(b, "lists", l)
  BY <1>3, <1>6, AwaitTyped DEF Steps
<1> QED
  BY <1>4, <1>5, <1>6 DEF AskLists

LEMMA SettleTyped ==
  ASSUME TypeOK, NEW outcome \in {"null", "fulfilled"}, NEW ownOf,
         \A b \in Button : pc[b] = "lists" => ownOf[b] \in {"pass", "fail", "unknown"},
         ListsSettle(outcome, ownOf)
  PROVE  TypeOK'
<1>1. \A b \in Button : local[b] \in LocalType
  BY DEF TypeOK
<1>2. \A b \in Button : pc[b] = "lists" => [local[b] EXCEPT !.own = ownOf[b]] \in LocalType
  BY <1>1 DEF LocalType
<1>3. local' \in [Button -> LocalType]
  BY <1>1, <1>2 DEF ListsSettle
<1>4. pc' \in [Button -> Steps]
  BY DEF ListsSettle, TypeOK, Steps
<1> QED
  BY <1>3, <1>4 DEF ListsSettle, TypeOK

\* Every step keeps the types; the key set that arrives is one that the host of the
\* document's jwks_url published.
LEMMA TypeStep == TypeOK /\ LiveKnows /\ [Next]_vars => TypeOK'
<1> SUFFICES ASSUME TypeOK, LiveKnows, [Next]_vars PROVE TypeOK'
  OBVIOUS
<1>0. /\ now \in Clock /\ lists \in {"null", "pending", "fulfilled"}
      /\ \A b \in Button : local[b] \in LocalType
      /\ NoLocal \in LocalType
      /\ {"error", "unknown", "fail", "warn", "quote"} \subseteq Kinds
      /\ "live" \in Button /\ "paste" \in Button
  BY DEF TypeOK, Button, NoLocal, LocalType, Kinds
<1>a. ASSUME NEW b \in Button, FetchFails(b), now' = now, lists' = lists
      PROVE  TypeOK'
  BY <1>0, <1>a, EndTyped DEF FetchFails
<1>b. ASSUME NEW b \in Button, NEW l, NEW host, NEW asked, render(b, l, host, asked),
             now' = now, lists' = lists
      PROVE  TypeOK'
  <2>1. Verdict(l, host, asked) \in Kinds
    BY DEF Verdict, Kinds
  <2> QED
    BY <1>0, <1>b, <2>1, EndTyped DEF render
<1>1. ASSUME NEW d \in Domain \cup {NoName}, PressLive(d) PROVE TypeOK'
  <2>1. [NoLocal EXCEPT !.domain = d] \in LocalType
    BY <1>0 DEF LocalType
  <2>2. CASE End("live", "error")
    BY <1>0, <1>1, <2>2, EndTyped DEF PressLive
  <2>3. CASE Await("live", "discovery", [NoLocal EXCEPT !.domain = d])
    BY <1>0, <1>1, <2>1, <2>3, AwaitTyped DEF PressLive, Steps
  <2> QED
    BY <1>1, <2>2, <2>3 DEF PressLive
<1>2. ASSUME NEW e \in Pasted, PressPaste(e) PROVE TypeOK'
  <2>1. CASE End("paste", "error") /\ lists' = lists
    BY <1>0, <1>2, <2>1, EndTyped DEF PressPaste
  <2>2. CASE /\ e.jws # NoJws /\ e.jws.payload.cd # NoName
             /\ AskLists("paste", [NoLocal EXCEPT !.env = e, !.domain = e.jws.payload.cd])
    <3>1. e.jws.payload.cd \in Domain
      BY <2>2, DataAssumption DEF EnvelopeType, PayloadType
    <3>2. [NoLocal EXCEPT !.env = e, !.domain = e.jws.payload.cd] \in LocalType
      BY <1>0, <3>1 DEF LocalType
    <3> QED
      BY <1>0, <1>2, <2>2, <3>2, AskListsTyped DEF PressPaste
  <2> QED
    BY <1>2, <2>1, <2>2 DEF PressPaste
<1>3. ASSUME ListsLoad PROVE TypeOK'
  <2> DEFINE ownOf == [b \in Button |-> IF pc[b] = "lists"
                                        THEN OwnState(local[b].domain) ELSE "none"]
  <2>1. \A b \in Button : pc[b] = "lists" => ownOf[b] \in {"pass", "fail", "unknown"}
    BY DEF OwnState
  <2>2. ListsSettle("fulfilled", ownOf)
    BY <1>3 DEF ListsLoad
  <2> HIDE DEF ownOf
  <2> QED
    BY <2>1, <2>2, SettleTyped
<1>4. ASSUME ListsFail PROVE TypeOK'
  <2> DEFINE ownOf == [b \in Button |-> "unknown"]
  <2>1. \A b \in Button : pc[b] = "lists" => ownOf[b] \in {"pass", "fail", "unknown"}
    OBVIOUS
  <2>2. ListsSettle("null", ownOf)
    BY <1>4 DEF ListsFail
  <2> HIDE DEF ownOf
  <2> QED
    BY <2>1, <2>2, SettleTyped
<1>5. ASSUME LiveDiscovery PROVE TypeOK'
  <2>1. now' = now /\ lists' = lists
    BY <1>5 DEF LiveDiscovery
  <2>2. CASE FetchFails("live")
    BY <1>0, <1>a, <2>1, <2>2
  <2>3. ASSUME NEW doc \in Document, NEW asked \in Asked, End("live", "fail")
        PROVE  TypeOK'
    BY <1>0, <2>1, <2>3, EndTyped
  <2>4. ASSUME NEW doc \in Document, NEW asked \in Asked,
               Await("live", "answers", [local["live"] EXCEPT !.doc = doc, !.asked = asked])
        PROVE  TypeOK'
    <3>1. [local["live"] EXCEPT !.doc = doc, !.asked = asked] \in LocalType
      BY <1>0 DEF LocalType
    <3> QED
      BY <1>0, <2>1, <2>4, <3>1, AwaitTyped DEF Steps
  <2> QED
    BY <1>5, <2>2, <2>3, <2>4 DEF LiveDiscovery
<1>6. ASSUME LiveAnswer PROVE TypeOK'
  <2>1. now' = now /\ lists' = lists
    BY <1>6 DEF LiveAnswer
  <2>2. CASE FetchFails("live")
    BY <1>0, <1>a, <2>1, <2>2
  <2>3. ASSUME NEW m \in LocalType,
               Await("live", IF m.env # None /\ m.keys # None THEN "verify" ELSE "answers", m)
        PROVE  TypeOK'
    <3>1. (IF m.env # None /\ m.keys # None THEN "verify" ELSE "answers") \in Steps
      BY DEF Steps
    <3> QED
      BY <1>0, <2>1, <2>3, <3>1, AwaitTyped
  <2>4. \A e \in Envelope : [local["live"] EXCEPT !.env = e] \in LocalType
    BY <1>0 DEF LocalType
  <2>5. \A set \in Served[local["live"].doc.jwks.host] :
          [local["live"] EXCEPT !.keys = set] \in LocalType
    <3>1. local["live"].doc.jwks.host \in Domain
      BY <1>6, DataAssumption DEF LiveAnswer, LiveKnows, DocumentType, Url
    <3>2. Served[local["live"].doc.jwks.host] \subseteq SUBSET Key
      BY <3>1, DataAssumption
    <3> QED
      BY <1>0, <3>2 DEF LocalType
  <2> QED
    BY <1>6, <2>2, <2>3, <2>4, <2>5 DEF LiveAnswer
<1>7. ASSUME LiveVerify PROVE TypeOK'
  <2>1. now' = now
    BY <1>7 DEF LiveVerify
  <2> QED
    BY <1>0, <1>7, <2>1, EndTyped, AskListsTyped DEF LiveVerify
<1>8. ASSUME LiveRender PROVE TypeOK'
  BY <1>0, <1>b, <1>8 DEF LiveRender
<1>9. ASSUME PasteJudged PROVE TypeOK'
  BY <1>0, <1>9, EndTyped, AwaitTyped DEF PasteJudged, Steps
<1>10. ASSUME PasteDiscovery PROVE TypeOK'
  <2>1. now' = now /\ lists' = lists
    BY <1>10 DEF PasteDiscovery
  <2>2. CASE FetchFails("paste")
    BY <1>0, <1>a, <2>1, <2>2
  <2>3. CASE End("paste", "fail")
    BY <1>0, <2>1, <2>3, EndTyped
  <2>4. ASSUME NEW doc \in Document,
               Await("paste", "keys", [local["paste"] EXCEPT !.doc = doc])
        PROVE  TypeOK'
    <3>1. [local["paste"] EXCEPT !.doc = doc] \in LocalType
      BY <1>0 DEF LocalType
    <3> QED
      BY <1>0, <2>1, <2>4, <3>1, AwaitTyped DEF Steps
  <2> QED
    BY <1>10, <2>2, <2>3, <2>4 DEF PasteDiscovery
<1>11. ASSUME PasteKeys PROVE TypeOK'
  <2>1. now' = now /\ lists' = lists
    BY <1>11 DEF PasteKeys
  <2>2. CASE FetchFails("paste")
    BY <1>0, <1>a, <2>1, <2>2
  <2>3. CASE End("paste", "error")
    BY <1>0, <2>1, <2>3, EndTyped
  <2>4. CASE render("paste", local["paste"], NoName, NoStay)
    BY <1>0, <1>b, <2>1, <2>4
  <2> QED
    BY <1>11, <2>2, <2>3, <2>4 DEF PasteKeys
<1>12. ASSUME Tick \/ UNCHANGED vars PROVE TypeOK'
  BY <1>12 DEF Tick, vars, TypeOK
<1> QED
  BY <1>1, <1>2, <1>3, <1>4, <1>5, <1>6, <1>7, <1>8, <1>9, <1>10, <1>11, <1>12
  DEF Next, Live, Paste
-----------------------------------------------------------------------------
\* A verdict on a pasted offer is never "safe to quote": render is not told where the
\* offer came from.
LEMMA PastedVerdict ==
  ASSUME NEW l, NEW asked
  PROVE  Verdict(l, NoName, asked) # "quote"
BY DEF Verdict, Caution

\* A call that ends keeps the invariant: it leaves nothing behind but its verdict.
LEMMA EndKeeps ==
  ASSUME TypeOK, IInv, NEW b \in Button, NEW kind, End(b, kind),
         b = "paste" => kind # "quote"
  PROVE  IInv'
<1>1. /\ pc' = [pc EXCEPT ![b] = "idle"] /\ local' = [local EXCEPT ![b] = NoLocal]
      /\ pc \in [Button -> Steps] /\ DOMAIN local = Button
  BY DEF End, TypeOK
<1>2. LiveKnows'
  <2>1. CASE b = "live"
    BY <1>1, <2>1 DEF LiveKnows
  <2>2. CASE b = "paste"
    <3>1. pc'["live"] = pc["live"] /\ local'["live"] = local["live"]
      BY <1>1, <2>2 DEF Button
    <3> QED
      BY <3>1 DEF LiveKnows, IInv
  <2> QED
    BY <2>1, <2>2 DEF Button
<1>3. JudgementsAreLawful'
  BY <1>1 DEF JudgementsAreLawful, IInv, NoLocal
<1>4. LawBeforePaste'
  BY <1>1 DEF LawBeforePaste, IInv, Button
<1>5. PastedIsNeverQuoted'
  BY DEF PastedIsNeverQuoted, IInv, End
<1>6. PasteKnows'
  BY <1>1 DEF PasteKnows, IInv, Button
<1> QED
  BY <1>2, <1>3, <1>4, <1>5, <1>6 DEF IInv

\* A call that goes on to the await `step` with the locals l.
LEMMA AwaitKeeps ==
  ASSUME TypeOK, IInv, NEW b \in Button, NEW step \in Steps, NEW l, Await(b, step, l),
         step = "judged" => l.own # "none",
         l.own = "pass" => HostOwned(l.domain),
         l.own = "fail" => ~HostOwned(l.domain),
         b = "live" =>
           /\ l.domain \in Domain
           /\ step = "discovery" => l.env = None /\ l.keys = None
           /\ step \in {"answers", "verify", "lists", "judged"} =>
                /\ l.doc \in Document /\ urlsOk(l.doc, l.domain)
                /\ l.asked \in Asked
                /\ l.env # None => l.env \in Envelope
                /\ l.keys # None => l.keys \in Served[l.doc.jwks.host]
           /\ step \in {"verify", "lists", "judged"} => l.env # None /\ l.keys # None
           /\ step \in {"lists", "judged"} => Selects(l.env.jws, l.keys),
         b = "paste" =>
           /\ step \in {"discovery", "keys"} => l.own = "unknown" \/ HostOwned(l.domain)
           /\ step = "keys" => l.doc # None
  PROVE  IInv'
<1>1. /\ pc' = [pc EXCEPT ![b] = step] /\ local' = [local EXCEPT ![b] = l]
      /\ pc \in [Button -> Steps] /\ DOMAIN local = Button /\ panel' = panel
  BY DEF Await, TypeOK
<1>2. LiveKnows'
  <2>1. CASE b = "live"
    <3>1. pc'["live"] = step /\ local'["live"] = l
      BY <1>1, <2>1
    <3> QED
      BY <2>1, <3>1 DEF LiveKnows
  <2>2. CASE b = "paste"
    <3>1. pc'["live"] = pc["live"] /\ local'["live"] = local["live"]
      BY <1>1, <2>2 DEF Button
    <3> QED
      BY <3>1 DEF LiveKnows, IInv
  <2> QED
    BY <2>1, <2>2 DEF Button
<1>3. JudgementsAreLawful'
  BY <1>1 DEF JudgementsAreLawful, IInv
<1>4. LawBeforePaste'
  <2>1. CASE b = "paste"
    <3>1. pc'["paste"] = step /\ local'["paste"] = l
      BY <1>1, <2>1
    <3> QED
      BY <2>1, <3>1 DEF LawBeforePaste
  <2>2. CASE b = "live"
    <3>1. pc'["paste"] = pc["paste"] /\ local'["paste"] = local["paste"]
      BY <1>1, <2>2 DEF Button
    <3> QED
      BY <3>1 DEF LawBeforePaste, IInv
  <2> QED
    BY <2>1, <2>2 DEF Button
<1>5. PastedIsNeverQuoted'
  BY <1>1 DEF PastedIsNeverQuoted, IInv
<1>6. PasteKnows'
  <2>1. CASE b = "paste"
    <3>1. pc'["paste"] = step /\ local'["paste"] = l
      BY <1>1, <2>1
    <3> QED
      BY <2>1, <3>1 DEF PasteKnows
  <2>2. CASE b = "live"
    <3>1. pc'["paste"] = pc["paste"] /\ local'["paste"] = local["paste"]
      BY <1>1, <2>2 DEF Button
    <3> QED
      BY <3>1 DEF PasteKnows, IInv
  <2> QED
    BY <2>1, <2>2 DEF Button
<1> QED
  BY <1>2, <1>3, <1>4, <1>5, <1>6 DEF IInv

\* The lists settle with a judgement that is theirs for every call that waits.
LEMMA SettleKeeps ==
  ASSUME TypeOK, IInv, NEW outcome, NEW ownOf, ListsSettle(outcome, ownOf),
         \A b \in Button : pc[b] = "lists" =>
           /\ ownOf[b] \in {"pass", "fail", "unknown"}
           /\ ownOf[b] = "pass" => HostOwned(local[b].domain)
           /\ ownOf[b] = "fail" => ~HostOwned(local[b].domain)
  PROVE  IInv'
<1>1. \A b \in Button :
        /\ pc'[b] = IF pc[b] = "lists" THEN "judged" ELSE pc[b]
        /\ local'[b] = IF pc[b] = "lists" THEN [local[b] EXCEPT !.own = ownOf[b]]
                       ELSE local[b]
  BY DEF ListsSettle
<1>2. \A b \in Button : local[b] \in LocalType
  BY DEF TypeOK
<1>3. \A b \in Button :
        /\ local'[b].domain = local[b].domain /\ local'[b].doc = local[b].doc
        /\ local'[b].asked = local[b].asked /\ local'[b].env = local[b].env
        /\ local'[b].keys = local[b].keys
        /\ local'[b].own = IF pc[b] = "lists" THEN ownOf[b] ELSE local[b].own
  BY <1>1, <1>2 DEF LocalType
<1>4. LiveKnows'
  <2>1. /\ pc'["live"] # "idle" <=> pc["live"] # "idle"
        /\ pc'["live"] = "discovery" <=> pc["live"] = "discovery"
    BY <1>1 DEF Button
  <2>2. pc'["live"] \in {"answers", "verify", "lists", "judged"} <=>
          pc["live"] \in {"answers", "verify", "lists", "judged"}
    BY <1>1 DEF Button
  <2>3. /\ pc'["live"] \in {"verify", "lists", "judged"} <=>
             pc["live"] \in {"verify", "lists", "judged"}
        /\ pc'["live"] \in {"lists", "judged"} <=> pc["live"] \in {"lists", "judged"}
    BY <1>1 DEF Button
  <2> "live" \in Button
    BY DEF Button
  <2> QED
    BY <1>3, <2>1, <2>2, <2>3 DEF LiveKnows, IInv
<1>5. JudgementsAreLawful'
  BY <1>1, <1>3 DEF JudgementsAreLawful, IInv
<1>6. LawBeforePaste'
  BY <1>1, <1>3 DEF LawBeforePaste, IInv, Button
<1>7. PastedIsNeverQuoted'
  BY DEF PastedIsNeverQuoted, IInv, ListsSettle
<1>8. PasteKnows'
  BY <1>1, <1>3 DEF PasteKnows, IInv, Button
<1> QED
  BY <1>4, <1>5, <1>6, <1>7, <1>8 DEF IInv

\* A call that asks for the judgement of its domain, with what it knows by then.
LEMMA AskListsKeeps ==
  ASSUME TypeOK, IInv, NEW b \in Button, NEW l \in LocalType, AskLists(b, l),
         l.own = "pass" => HostOwned(l.domain),
         l.own = "fail" => ~HostOwned(l.domain),
         b = "live" =>
           /\ l.domain \in Domain
           /\ l.doc \in Document /\ urlsOk(l.doc, l.domain)
           /\ l.asked \in Asked
           /\ l.env \in Envelope /\ l.env # None
           /\ l.keys \in Served[l.doc.jwks.host] /\ l.keys # None
           /\ Selects(l.env.jws, l.keys)
  PROVE  IInv'
<1>1. ASSUME NEW own, own = OwnState(l.domain), Await(b, "judged", [l EXCEPT !.own = own])
      PROVE  IInv'
  <2> DEFINE m == [l EXCEPT !.own = own]
  <2>1. /\ m.domain = l.domain /\ m.doc = l.doc /\ m.env = l.env
        /\ m.keys = l.keys /\ m.asked = l.asked /\ m.own = own
    BY DEF LocalType
  <2>2. /\ own # "none"
        /\ own = "pass" => HostOwned(l.domain)
        /\ own = "fail" => ~HostOwned(l.domain)
    BY <1>1 DEF OwnState
  <2>3. "judged" \in Steps /\ Await(b, "judged", m)
    BY <1>1 DEF Steps
  <2> HIDE DEF m
  <2> QED
    BY <2>1, <2>2, <2>3, AwaitKeeps
<1>2. CASE Await(b, "lists", l)
  <2>1. "lists" \in Steps
    BY DEF Steps
  <2> QED
    BY <1>2, <2>1, AwaitKeeps
<1>3. ~WellFormedName(l.domain) => OwnState(l.domain) = "fail"
  BY DEF OwnState, HostOwned
<1> QED
  BY <1>1, <1>2, <1>3 DEF AskLists

\* Every step keeps the invariant.
LEMMA KnowStep == TypeOK /\ IInv /\ [Next]_vars => IInv'
<1> SUFFICES ASSUME TypeOK, IInv, [Next]_vars PROVE IInv'
  OBVIOUS
<1>0. /\ \A b \in Button : local[b] \in LocalType
      /\ "live" \in Button /\ "paste" \in Button
      /\ NoLocal \in LocalType
  BY DEF TypeOK, Button, NoLocal, LocalType
<1>a. ASSUME NEW b \in Button, FetchFails(b) PROVE IInv'
  BY <1>a, EndKeeps DEF FetchFails
<1>1. ASSUME NEW d \in Domain \cup {NoName}, PressLive(d) PROVE IInv'
  <2>1. CASE End("live", "error")
    BY <1>0, <2>1, EndKeeps
  <2>2. CASE d # NoName /\ Await("live", "discovery", [NoLocal EXCEPT !.domain = d])
    <3>1. /\ [NoLocal EXCEPT !.domain = d].own = "none"
          /\ [NoLocal EXCEPT !.domain = d].domain = d
          /\ [NoLocal EXCEPT !.domain = d].env = None
          /\ [NoLocal EXCEPT !.domain = d].keys = None
      BY DEF NoLocal
    <3>2. "discovery" \in Steps
      BY DEF Steps
    <3> QED
      BY <1>0, <2>2, <3>1, <3>2, AwaitKeeps
  <2> QED
    BY <1>1, <2>1, <2>2 DEF PressLive
<1>2. ASSUME NEW e \in Pasted, PressPaste(e) PROVE IInv'
  <2>1. CASE End("paste", "error")
    BY <1>0, <2>1, EndKeeps
  <2>2. CASE /\ e.jws # NoJws /\ e.jws.payload.cd # NoName
             /\ AskLists("paste", [NoLocal EXCEPT !.env = e, !.domain = e.jws.payload.cd])
    <3> DEFINE m == [NoLocal EXCEPT !.env = e, !.domain = e.jws.payload.cd]
    <3>1. e.jws.payload.cd \in Domain
      BY <2>2, DataAssumption DEF EnvelopeType, PayloadType
    <3>2. m \in LocalType /\ m.own = "none"
      BY <1>0, <3>1 DEF LocalType, NoLocal
    <3>3. AskLists("paste", m)
      BY <2>2
    <3> HIDE DEF m
    <3> QED
      BY <1>0, <3>2, <3>3, AskListsKeeps
  <2> QED
    BY <1>2, <2>1, <2>2 DEF PressPaste
<1>3. ASSUME ListsLoad PROVE IInv'
  <2> DEFINE ownOf == [b \in Button |-> IF pc[b] = "lists"
                                        THEN OwnState(local[b].domain) ELSE "none"]
  <2>1. \A b \in Button : pc[b] = "lists" =>
          /\ ownOf[b] \in {"pass", "fail", "unknown"}
          /\ ownOf[b] = "pass" => HostOwned(local[b].domain)
          /\ ownOf[b] = "fail" => ~HostOwned(local[b].domain)
    BY DEF OwnState
  <2>2. ListsSettle("fulfilled", ownOf)
    BY <1>3 DEF ListsLoad
  <2> HIDE DEF ownOf
  <2> QED
    BY <2>1, <2>2, SettleKeeps
<1>4. ASSUME ListsFail PROVE IInv'
  <2> DEFINE ownOf == [b \in Button |-> "unknown"]
  <2>1. \A b \in Button : pc[b] = "lists" =>
          /\ ownOf[b] \in {"pass", "fail", "unknown"}
          /\ ownOf[b] = "pass" => HostOwned(local[b].domain)
          /\ ownOf[b] = "fail" => ~HostOwned(local[b].domain)
    OBVIOUS
  <2>2. ListsSettle("null", ownOf)
    BY <1>4 DEF ListsFail
  <2> HIDE DEF ownOf
  <2> QED
    BY <2>1, <2>2, SettleKeeps
<1>5. ASSUME LiveDiscovery PROVE IInv'
  <2> DEFINE l == local["live"]
  <2>1. CASE FetchFails("live")
    BY <1>0, <1>a, <2>1
  <2>2. CASE End("live", "fail")
    BY <1>0, <2>2, EndKeeps
  <2>3. ASSUME NEW doc \in Document, NEW asked \in Asked, urlsOk(doc, l.domain),
               Await("live", "answers", [l EXCEPT !.doc = doc, !.asked = asked])
        PROVE  IInv'
    <3> DEFINE m == [l EXCEPT !.doc = doc, !.asked = asked]
    <3>1. l.domain \in Domain /\ l.env = None /\ l.keys = None
      BY <1>5 DEF LiveDiscovery, IInv, LiveKnows
    <3>2. /\ m.domain = l.domain /\ m.doc = doc /\ m.asked = asked
          /\ m.env = l.env /\ m.keys = l.keys /\ m.own = l.own
      BY <1>0 DEF LocalType
    <3>3. "answers" \in Steps /\ Await("live", "answers", m)
      BY <2>3 DEF Steps
    <3>4. (l.own = "pass" => HostOwned(l.domain)) /\ (l.own = "fail" => ~HostOwned(l.domain))
      BY <1>0 DEF IInv, JudgementsAreLawful
    <3> HIDE DEF m
    <3> QED
      BY <1>0, <2>3, <3>1, <3>2, <3>3, <3>4, AwaitKeeps
  <2> QED
    BY <1>5, <2>1, <2>2, <2>3 DEF LiveDiscovery
<1>6. ASSUME LiveAnswer PROVE IInv'
  <2> DEFINE l == local["live"]
             step(m) == IF m.env # None /\ m.keys # None THEN "verify" ELSE "answers"
  <2>1. CASE FetchFails("live")
    BY <1>0, <1>a, <2>1
  <2>2. /\ l \in LocalType /\ l.domain \in Domain
        /\ l.doc \in Document /\ urlsOk(l.doc, l.domain) /\ l.asked \in Asked
        /\ l.env # None => l.env \in Envelope
        /\ l.keys # None => l.keys \in Served[l.doc.jwks.host]
        /\ l.own = "pass" => HostOwned(l.domain)
        /\ l.own = "fail" => ~HostOwned(l.domain)
    BY <1>0, <1>6 DEF LiveAnswer, IInv, LiveKnows, JudgementsAreLawful
  <2>3. ASSUME NEW m, Await("live", step(m), m),
               m.domain = l.domain, m.doc = l.doc, m.asked = l.asked, m.own = l.own,
               m.env # None => m.env \in Envelope,
               m.keys # None => m.keys \in Served[l.doc.jwks.host]
        PROVE  IInv'
    <3>1. /\ step(m) \in {"verify", "answers"} /\ step(m) \in Steps
          /\ step(m) = "verify" => m.env # None /\ m.keys # None
      BY DEF Steps
    <3> HIDE DEF step, l
    <3> QED
      BY <1>0, <2>2, <2>3, <3>1, AwaitKeeps
  <2>4. ASSUME NEW e \in Envelope,
               Await("live", step([l EXCEPT !.env = e]), [l EXCEPT !.env = e])
        PROVE  IInv'
    <3> DEFINE m == [l EXCEPT !.env = e]
    <3>1. /\ m.domain = l.domain /\ m.doc = l.doc /\ m.asked = l.asked
          /\ m.env = e /\ m.keys = l.keys /\ m.own = l.own
      BY <2>2 DEF LocalType
    <3>2. Await("live", step(m), m)
      BY <2>4
    <3> HIDE DEF m, step, l
    <3> QED
      BY <2>2, <2>3, <3>1, <3>2
  <2>5. ASSUME NEW set \in Served[l.doc.jwks.host],
               Await("live", step([l EXCEPT !.keys = set]), [l EXCEPT !.keys = set])
        PROVE  IInv'
    <3> DEFINE m == [l EXCEPT !.keys = set]
    <3>1. /\ m.domain = l.domain /\ m.doc = l.doc /\ m.asked = l.asked
          /\ m.env = l.env /\ m.keys = set /\ m.own = l.own
      BY <2>2 DEF LocalType
    <3>2. Await("live", step(m), m)
      BY <2>5
    <3> HIDE DEF m, step, l
    <3> QED
      BY <2>2, <2>3, <2>5, <3>1, <3>2
  <2> QED
    BY <1>6, <2>1, <2>4, <2>5 DEF LiveAnswer
<1>7. ASSUME LiveVerify PROVE IInv'
  <2> DEFINE l == local["live"]
  <2>1. CASE End("live", "error")
    BY <1>0, <2>1, EndKeeps
  <2>2. CASE Selects(l.env.jws, l.keys) /\ AskLists("live", l)
    <3>1. /\ l \in LocalType /\ l.domain \in Domain
          /\ l.doc \in Document /\ urlsOk(l.doc, l.domain) /\ l.asked \in Asked
          /\ l.env \in Envelope /\ l.env # None
          /\ l.keys \in Served[l.doc.jwks.host] /\ l.keys # None
          /\ l.own = "pass" => HostOwned(l.domain)
          /\ l.own = "fail" => ~HostOwned(l.domain)
      BY <1>0, <1>7 DEF LiveVerify, IInv, LiveKnows, JudgementsAreLawful
    <3> HIDE DEF l
    <3> QED
      BY <1>0, <2>2, <3>1, AskListsKeeps
  <2> QED
    BY <1>7, <2>1, <2>2 DEF LiveVerify
<1>8. ASSUME LiveRender PROVE IInv'
  BY <1>0, <1>8, EndKeeps DEF LiveRender, render
<1>9. ASSUME PasteJudged PROVE IInv'
  <2> DEFINE l == local["paste"]
  <2>1. CASE End("paste", "fail")
    BY <1>0, <2>1, EndKeeps
  <2>2. CASE l.own # "fail" /\ Await("paste", "discovery", l)
    <3>1. /\ l.own \in {"none", "pass", "fail", "unknown"} /\ l.own # "none"
          /\ l.own = "pass" => HostOwned(l.domain)
      BY <1>0, <1>9 DEF PasteJudged, IInv, JudgementsAreLawful, LocalType
    <3>2. "discovery" \in Steps
      BY DEF Steps
    <3> HIDE DEF l
    <3> QED
      BY <1>0, <2>2, <3>1, <3>2, AwaitKeeps
  <2> QED
    BY <1>9, <2>1, <2>2 DEF PasteJudged
<1>10. ASSUME PasteDiscovery PROVE IInv'
  <2> DEFINE l == local["paste"]
  <2>1. CASE FetchFails("paste")
    BY <1>0, <1>a, <2>1
  <2>2. CASE End("paste", "fail")
    BY <1>0, <2>2, EndKeeps
  <2>3. ASSUME NEW doc \in Document, Await("paste", "keys", [l EXCEPT !.doc = doc])
        PROVE  IInv'
    <3> DEFINE m == [l EXCEPT !.doc = doc]
    <3>1. m.domain = l.domain /\ m.own = l.own /\ m.doc = doc
      BY <1>0 DEF LocalType
    <3>2. /\ l.own = "unknown" \/ HostOwned(l.domain)
          /\ l.own = "pass" => HostOwned(l.domain)
          /\ l.own = "fail" => ~HostOwned(l.domain)
      BY <1>0, <1>10 DEF PasteDiscovery, IInv, JudgementsAreLawful, LawBeforePaste
    <3>3. "keys" \in Steps /\ Await("paste", "keys", m) /\ doc # None
      BY <2>3, DistinctAssumption DEF Steps
    <3> HIDE DEF m, l
    <3> QED
      BY <1>0, <3>1, <3>2, <3>3, AwaitKeeps
  <2> QED
    BY <1>10, <2>1, <2>2, <2>3 DEF PasteDiscovery
<1>11. ASSUME PasteKeys PROVE IInv'
  <2>1. CASE FetchFails("paste")
    BY <1>0, <1>a, <2>1
  <2>2. CASE End("paste", "error")
    BY <1>0, <2>2, EndKeeps
  <2>3. CASE render("paste", local["paste"], NoName, NoStay)
    BY <1>0, <2>3, PastedVerdict, EndKeeps DEF render
  <2> QED
    BY <1>11, <2>1, <2>2, <2>3 DEF PasteKeys
<1>12. ASSUME Tick \/ UNCHANGED vars PROVE IInv'
  <2>1. UNCHANGED <<lists, panel, pc, local>>
    BY <1>12 DEF Tick, vars
  <2> QED
    BY <2>1 DEF IInv, LiveKnows, PasteKnows, JudgementsAreLawful, LawBeforePaste, PastedIsNeverQuoted
<1> QED
  BY <1>1, <1>2, <1>3, <1>4, <1>5, <1>6, <1>7, <1>8, <1>9, <1>10, <1>11, <1>12
  DEF Next, Live, Paste

-----------------------------------------------------------------------------
\* For every set of offers, documents and key sets: the page stays in its types, the
\* live call knows at each await what the answers so far established, and a call
\* that was judged has the judgement of the lists or none.
THEOREM Invariant == Spec => [](TypeOK /\ IInv)
<1>1. Init => TypeOK /\ IInv
  BY DEF Init, TypeOK, IInv, LiveKnows, PasteKnows, JudgementsAreLawful, LawBeforePaste,
         PastedIsNeverQuoted, NoLocal, LocalType, Kinds, Steps, Button
<1>2. TypeOK /\ IInv /\ [Next]_vars => TypeOK' /\ IInv'
  BY TypeStep, KnowStep DEF IInv
<1> QED
  BY <1>1, <1>2, PTL DEF Spec

\* Type correctness of the offer page.
THEOREM Typing == Spec => []TypeOK
BY Invariant, PTL

\* A pasted offer leads the page to no host that the loaded lists do not accept
\* (PasteJudged; verify.html:962 "The domain law first").
THEOREM LawfulPaste == Spec => []LawBeforePaste
<1>1. IInv => LawBeforePaste
  BY DEF IInv
<1> QED
  BY <1>1, Invariant, PTL

\* No pasted offer is ever shown as safe to quote, whoever pastes what and when.
THEOREM NeverQuoted == Spec => []PastedIsNeverQuoted
<1>1. IInv => PastedIsNeverQuoted
  BY DEF IInv
<1> QED
  BY <1>1, Invariant, PTL

-----------------------------------------------------------------------------
\* The end of one call is not the end of the other.
LEMMA EndsOwn ==
  ASSUME TypeOK, NEW b \in Button, NEW c \in Button, NEW kind, End(c, kind),
         Ends(b, "quote")
  PROVE  b = c /\ kind = "quote"
BY DEF TypeOK, End, Ends

\* An await and the settling of the lists end no call.
LEMMA AwaitEndsNone ==
  ASSUME TypeOK, NEW b \in Button, NEW c \in Button, NEW step, NEW l, Await(c, step, l),
         step # "idle"
  PROVE  ~Ends(b, "quote")
BY DEF TypeOK, Await, Ends

LEMMA AskListsEndsNone ==
  ASSUME TypeOK, NEW b \in Button, NEW c \in Button, NEW l, AskLists(c, l)
  PROVE  ~Ends(b, "quote")
BY AwaitEndsNone DEF AskLists

\* "Safe to quote" is only ever said by the live call's render.
LEMMA QuotedByRender ==
  ASSUME TypeOK, [Next]_vars, NEW b \in Button, Ends(b, "quote")
  PROVE  /\ b = "live" /\ pc["live"] = "judged"
         /\ Verdict(local["live"], local["live"].domain, local["live"].asked) = "quote"
<1>0. "live" \in Button /\ "paste" \in Button
  BY DEF Button
<1>a. ASSUME NEW c \in Button PROVE ~FetchFails(c)
  BY EndsOwn DEF FetchFails
<1>1. ASSUME NEW d \in Domain \cup {NoName} PROVE ~PressLive(d)
  BY <1>0, EndsOwn, AwaitEndsNone DEF PressLive
<1>2. ASSUME NEW e \in Pasted PROVE ~PressPaste(e)
  BY <1>0, EndsOwn, AskListsEndsNone DEF PressPaste
<1>3. ASSUME NEW outcome, NEW ownOf PROVE ~ListsSettle(outcome, ownOf)
  BY DEF ListsSettle, Ends
<1>4. ~LiveDiscovery
  <2>1. \A l : ~Await("live", "answers", l)
    BY <1>0, AwaitEndsNone
  <2>2. ~End("live", "fail")
    BY <1>0, EndsOwn
  <2> QED
    BY <1>0, <1>a, <2>1, <2>2 DEF LiveDiscovery
<1>5. ~LiveAnswer
  <2>1. ASSUME NEW m PROVE ~Await("live", IF m.env # None /\ m.keys # None
                                          THEN "verify" ELSE "answers", m)
    <3>1. (IF m.env # None /\ m.keys # None THEN "verify" ELSE "answers") # "idle"
      OBVIOUS
    <3> QED
      BY <1>0, <3>1, AwaitEndsNone
  <2> QED
    BY <1>0, <1>a, <2>1 DEF LiveAnswer
<1>6. ~LiveVerify
  BY <1>0, EndsOwn, AskListsEndsNone DEF LiveVerify
<1>7. ~PasteJudged
  BY <1>0, EndsOwn, AwaitEndsNone DEF PasteJudged
<1>8. ~PasteDiscovery
  <2>1. \A l : ~Await("paste", "keys", l)
    BY <1>0, AwaitEndsNone
  <2>2. ~End("paste", "fail")
    BY <1>0, EndsOwn
  <2> QED
    BY <1>0, <1>a, <2>1, <2>2 DEF PasteDiscovery
<1>9. ~PasteKeys
  BY <1>0, <1>a, EndsOwn, PastedVerdict DEF PasteKeys, render
<1>10. ~(Tick \/ UNCHANGED vars)
  BY DEF Tick, vars, Ends
<1>11. LiveRender
  BY <1>1, <1>2, <1>3, <1>4, <1>5, <1>6, <1>7, <1>8, <1>9, <1>10
  DEF Next, Live, Paste, ListsLoad, ListsFail
<1> QED
  BY <1>0, <1>11, EndsOwn DEF LiveRender, render

\* What the verdict "safe to quote" says of an offer fetched from its domain.
LEMMA QuotedIsLawful ==
  ASSUME TypeOK, IInv, pc["live"] = "judged",
         Verdict(local["live"], local["live"].domain, local["live"].asked) = "quote",
         WholeMilliseconds(local["live"].env.jws.payload)
  PROVE  MayQuote(local["live"], now)
<1> DEFINE l == local["live"]
           jws == l.env.jws
           p == jws.payload
           d == l.domain
<1>0. /\ l \in LocalType /\ now \in Int
      /\ d \in Domain /\ d # NoName
      /\ l.doc \in Document /\ urlsOk(l.doc, d)
      /\ l.env \in Envelope /\ l.keys \in Served[l.doc.jwks.host]
      /\ Selects(jws, l.keys)
      /\ l.own # "none" /\ (l.own = "pass" => HostOwned(d))
  BY DataAssumption, DistinctAssumption
  DEF TypeOK, IInv, LiveKnows, JudgementsAreLawful, Button
<1>1. ~Problem(l, d) /\ ~Caution(l, d, l.asked) /\ jws.sound
  BY DEF Verdict
<1>2. HostOwned(d)
  BY <1>0, <1>1 DEF LocalType, Problem, Caution
<1>3. /\ DeclaresNode(l.doc, d) /\ p.cd = d
      /\ l.env.copy \in {NoCopy, Null, p} /\ l.env.copy # NoCopy
      /\ p.book # NoUrl /\ isNodeUrl(p.book, p.cd)
  BY <1>0, <1>1 DEF Problem, Caution
<1>4. /\ p.complete /\ p.flags
      /\ TimeOK(p, now) /\ StayOK(p.request, now, l.asked)
  BY <1>1 DEF Caution
<1>5. Publishes(d, jws.kid)
  <2>1. l.doc.jwks.host \in Domain
    BY <1>0, DataAssumption DEF DocumentType, Url
  <2>2. l.doc.jwks.host \in {d, <<"www">> \o d}
    BY <1>0 DEF urlsOk, isNodeUrl
  <2>3. jws.kid \in l.keys
    BY <1>0 DEF Selects
  <2> QED
    BY <1>0, <2>1, <2>2, <2>3 DEF Publishes
<1>6. checkOfferRules(p, now, l.asked) = {}
  <2>1. p \in PayloadType
    BY <1>0, DataAssumption DEF EnvelopeType, Selects
  <2>2. /\ p.generated_at \in Instant /\ p.valid_until \in Instant
        /\ p.request \in Request \cup {NoRequest}
    BY <2>1 DEF PayloadType
  <2>3. PageAgreesWithChecker(p, now, l.asked)
    BY <1>0, <2>2, RulesAgree
  <2> QED
    BY <1>4, <2>3 DEF PageAgreesWithChecker
<1> QED
  BY <1>1, <1>2, <1>3, <1>4, <1>5, <1>6 DEF MayQuote

\* Whatever hosts answer, however the two calls interleave and wherever the clock is
\* moved while they wait: "safe to quote" is said of a live offer only when all of
\* section 7 holds at that instant.
THEOREM QuotesAreSafe == Spec => QuoteIsSafe
<1>1. TypeOK /\ IInv /\ [Next]_vars =>
        [\A b \in Button :
           Ends(b, "quote") /\ WholeMilliseconds(local[b].env.jws.payload) =>
             MayQuote(local[b], now)]_vars
  BY QuotedByRender, QuotedIsLawful
<1> QED
  BY <1>1, Invariant, PTL DEF Spec, QuoteIsSafe

\* What is called safe to quote has expired a lifetime and a clock allowance later,
\* fractions of a millisecond included.
THEOREM QuotesExpire == Spec => QuoteExpiresSoon
<1>1. ASSUME TypeOK, IInv, [Next]_vars, NEW b \in Button, Ends(b, "quote")
      PROVE  parseDateTime(local[b].env.jws.payload.valid_until)
               <= now + MaxLifetime + ClockSkew
  <2> DEFINE l == local["live"]
             p == l.env.jws.payload
  <2>1. b = "live" /\ pc["live"] = "judged" /\ Verdict(l, l.domain, l.asked) = "quote"
    BY <1>1, QuotedByRender
  <2>2. TimeOK(p, now)
    BY <2>1 DEF Verdict, Caution
  <2>3. now \in Int /\ l.env \in Envelope /\ Selects(l.env.jws, l.keys)
    BY <1>1, <2>1, DataAssumption DEF TypeOK, IInv, LiveKnows
  <2>4. p.generated_at \in Instant /\ p.valid_until \in Instant
    BY <2>3, DataAssumption DEF EnvelopeType, Selects, PayloadType
  <2> HIDE DEF p
  <2>5. ExpiresSoon(p, now)
    BY <2>3, <2>4, Horizon
  <2> QED
    BY <2>1, <2>2, <2>5 DEF ExpiresSoon, p
<1>2. TypeOK /\ IInv /\ [Next]_vars =>
        [\A b \in Button : Ends(b, "quote") =>
           parseDateTime(local[b].env.jws.payload.valid_until)
             <= now + MaxLifetime + ClockSkew]_vars
  BY <1>1
<1> QED
  BY <1>2, Invariant, PTL DEF Spec, QuoteExpiresSoon

-----------------------------------------------------------------------------
\* A step that ends one call touches nothing of the other.
LEMMA OthersStand ==
  ASSUME TypeOK, NEW b \in Button, NEW c \in Button, c # b, NEW kind, NEW step, NEW l,
         End(c, kind) \/ Await(c, step, l)
  PROVE  pc'[b] = pc[b]
BY DEF TypeOK, End, Await

\* While the live call is judged, only its render can end it: every other task but
\* the paste call's own continuation waits for it.
LEMMA JudgedEndsInRender ==
  ASSUME TypeOK, [Next]_vars, pc["live"] = "judged", pc'["live"] = "idle"
  PROVE  LiveRender
<1>1. "live" \in Button /\ "paste" \in Button /\ ~Checkpoint
  BY DEF Button, Checkpoint
<1>2. ~PasteJudged
  BY <1>1, OthersStand DEF PasteJudged
<1>3. ~(Tick \/ UNCHANGED vars)
  BY DEF Tick, vars
<1> QED
  BY <1>1, <1>2, <1>3
  DEF Next, Live, Paste, PressLive, PressPaste, ListsLoad, ListsFail, ListsSettle,
      LiveDiscovery, LiveAnswer, LiveVerify, PasteDiscovery, PasteKeys

\* When section 7 holds and the lists were there, no row of the page says otherwise.
LEMMA LawfulIsQuoted ==
  ASSUME TypeOK, IInv, pc["live"] = "judged", local["live"].own = "pass",
         WholeMilliseconds(local["live"].env.jws.payload), MayQuote(local["live"], now)
  PROVE  Verdict(local["live"], local["live"].domain, local["live"].asked) = "quote"
<1> DEFINE l == local["live"]
           jws == l.env.jws
           p == jws.payload
           d == l.domain
<1>1. /\ now \in Int /\ d # NoName
      /\ l.env \in Envelope /\ Selects(jws, l.keys)
  BY DataAssumption, DistinctAssumption DEF TypeOK, IInv, LiveKnows
<1>2. p \in PayloadType /\ p \in Payload
  BY <1>1, DataAssumption DEF EnvelopeType, Selects
<1>3. /\ DeclaresNode(l.doc, d) /\ jws.sound /\ p.cd = d
      /\ p.complete /\ p.flags /\ isNodeUrl(p.book, p.cd)
      /\ l.env.copy \in {p, Null}
  BY DEF MayQuote
<1>4. l.env.copy # NoCopy
  BY <1>2, <1>3, DistinctAssumption
<1>5. TimeOK(p, now) /\ StayOK(p.request, now, l.asked)
  <2>1. /\ p.generated_at \in Instant /\ p.valid_until \in Instant
        /\ p.request \in Request \cup {NoRequest}
    BY <1>2 DEF PayloadType
  <2>2. PageAgreesWithChecker(p, now, l.asked)
    BY <1>1, <2>1, RulesAgree
  <2> QED
    BY <2>2 DEF PageAgreesWithChecker, MayQuote
<1>6. ~Problem(l, d)
  BY <1>3 DEF Problem
<1>7. ~Caution(l, d, l.asked)
  BY <1>1, <1>3, <1>4, <1>5 DEF Caution, isNodeUrl
<1> QED
  BY <1>3, <1>6, <1>7 DEF Verdict

\* Nor is the verdict withheld: a live call whose offer, document and key set meet all
\* of section 7 ends in "safe to quote", whatever the other call did meanwhile.
THEOREM QuotesAreGiven == Spec => SafeIsQuoted
<1>1. TypeOK /\ IInv /\ [Next]_vars =>
        [pc["live"] = "judged" /\ pc'["live"] = "idle" /\ local["live"].own = "pass"
           /\ WholeMilliseconds(local["live"].env.jws.payload)
           /\ MayQuote(local["live"], now) => panel'.kind = "quote"]_vars
  BY JudgedEndsInRender, LawfulIsQuoted DEF LiveRender, render, End
<1> QED
  BY <1>1, Invariant, PTL DEF Spec, SafeIsQuoted

-----------------------------------------------------------------------------
\* The three ways a call that was judged, or has its keys, ends in a refusal.
LEMMA RefusedBy ==
  ASSUME TypeOK, [Next]_vars, NEW b \in Button, pc[b] \in {"judged", "keys"}, Ends(b, "fail")
  PROVE  LET l == local[b] IN
         \/ b = "live" /\ pc[b] = "judged" /\ Verdict(l, l.domain, l.asked) = "fail"
         \/ b = "paste" /\ pc[b] = "judged" /\ l.own = "fail"
         \/ b = "paste" /\ pc[b] = "keys" /\ Verdict(l, NoName, NoStay) = "fail"
<1>0. "live" \in Button /\ "paste" \in Button /\ "live" # "paste"
  BY DEF Button
<1>a. ASSUME NEW c \in Button, c # b, NEW kind, NEW step, NEW l,
             End(c, kind) \/ Await(c, step, l)
      PROVE  FALSE
  BY <1>a, OthersStand DEF Ends
<1>b. ASSUME NEW kind, End(b, kind) PROVE kind = "fail"
  BY <1>b DEF End, Ends
<1>c. ASSUME NEW step, NEW l, Await(b, step, l), step # "idle" PROVE FALSE
  BY <1>c DEF Await, Ends, TypeOK
<1>d. ASSUME NEW c \in Button, NEW l, AskLists(c, l) PROVE FALSE
  <2>1. \E step, m : Await(c, step, m) /\ step # "idle"
    BY <1>d DEF AskLists
  <2> QED
    BY <1>a, <1>c, <2>1
<1>1. ASSUME NEW d, PressLive(d) PROVE FALSE
  BY <1>0, <1>1, <1>a DEF PressLive
<1>2. ASSUME NEW e, PressPaste(e) PROVE FALSE
  BY <1>0, <1>2, <1>a, <1>d DEF PressPaste
<1>3. ASSUME NEW outcome, NEW ownOf, ListsSettle(outcome, ownOf) PROVE FALSE
  BY <1>3 DEF ListsSettle, Ends
<1>4. ~LiveDiscovery /\ ~LiveAnswer /\ ~LiveVerify
  <2>1. ASSUME LiveDiscovery PROVE FALSE
    BY <1>0, <2>1, <1>a DEF LiveDiscovery, FetchFails
  <2>2. ASSUME LiveAnswer PROVE FALSE
    BY <1>0, <2>2, <1>a DEF LiveAnswer, FetchFails
  <2>3. ASSUME LiveVerify PROVE FALSE
    BY <1>0, <2>3, <1>a, <1>d DEF LiveVerify
  <2> QED
    BY <2>1, <2>2, <2>3
<1>5. ~PasteDiscovery
  BY <1>0, <1>a DEF PasteDiscovery, FetchFails
<1>6. ~(Tick \/ UNCHANGED vars)
  BY DEF Tick, vars, Ends
<1>7. CASE LiveRender
  BY <1>0, <1>7, <1>a, <1>b DEF LiveRender, render, Button
<1>8. CASE PasteJudged
  BY <1>0, <1>8, <1>a, <1>b, <1>c DEF PasteJudged, Button
<1>9. CASE PasteKeys
  BY <1>0, <1>9, <1>a, <1>b DEF PasteKeys, FetchFails, render, Button
<1> QED
  BY <1>1, <1>2, <1>3, <1>4, <1>5, <1>6, <1>7, <1>8, <1>9
  DEF Next, Live, Paste, ListsLoad, ListsFail

\* A refusal by render names something found false, never something unknown.
LEMMA RefusalIsGrounded ==
  ASSUME NEW l, NEW host, NEW asked, Verdict(l, host, asked) = "fail",
         host \in {NoName, l.domain}, l.doc # None, l.own = "fail" => ~HostOwned(l.domain)
  PROVE  Negated(l)
<1>1. ~l.env.jws.sound \/ Problem(l, host)
  BY DEF Verdict
<1> QED
  BY <1>1 DEF Problem, Negated

\* "Unreachable is not the same as negated" (section 9), for every set of offers and
\* documents: a call that has its answers refuses an offer only for something that is
\* false, and a load of the lists that failed refuses nothing.
THEOREM RefusalsAreGrounded == Spec => UnknownIsNotNegated
<1>1. ASSUME TypeOK, IInv, [Next]_vars,
             NEW b \in Button, pc[b] \in {"judged", "keys"}, Ends(b, "fail")
      PROVE  Negated(local[b])
  <2> DEFINE l == local[b]
  <2>1. l.own = "fail" => ~HostOwned(l.domain)
    BY <1>1 DEF IInv, JudgementsAreLawful
  <2>2. CASE b = "live" /\ pc[b] = "judged" /\ Verdict(l, l.domain, l.asked) = "fail"
    <3>1. l.doc # None
      BY <1>1, <2>2, DistinctAssumption DEF IInv, LiveKnows
    <3> QED
      BY <2>1, <2>2, <3>1, RefusalIsGrounded
  <2>3. CASE l.own = "fail"
    BY <2>1, <2>3 DEF Negated
  <2>4. CASE b = "paste" /\ pc[b] = "keys" /\ Verdict(l, NoName, NoStay) = "fail"
    <3>1. l.doc # None
      BY <1>1, <2>4 DEF IInv, PasteKnows
    <3> QED
      BY <2>1, <2>4, <3>1, RefusalIsGrounded
  <2> QED
    BY <1>1, <2>2, <2>3, <2>4, RefusedBy
<1>2. TypeOK /\ IInv /\ [Next]_vars =>
        [\A b \in Button :
           pc[b] \in {"judged", "keys"} /\ Ends(b, "fail") => Negated(local[b])]_vars
  BY <1>1
<1> QED
  BY <1>2, Invariant, PTL DEF Spec, UnknownIsNotNegated

-----------------------------------------------------------------------------
\* A call that waits for the lists waits for a load in progress.
ListsAreAwaited == \A b \in Button : pc[b] = "lists" => lists = "pending"

\* How many things the call of a button has still to wait for at most, when it is at
\* this step with these variables.  The live call counts each of its two answers.
Left(b, step, l) ==
  IF b = "live"
  THEN CASE step = "discovery" -> 6
         [] step = "answers"   -> 3 + (IF l.env = None THEN 1 ELSE 0)
                                    + (IF l.keys = None THEN 1 ELSE 0)
         [] step = "verify"    -> 3
         [] step = "lists"     -> 2
         [] step = "judged"    -> 1
         [] OTHER              -> 0
  ELSE CASE step = "lists"     -> 4
         [] step = "judged"    -> 3
         [] step = "discovery" -> 2
         [] step = "keys"      -> 1
         [] OTHER              -> 0

Remaining(b) == Left(b, pc[b], local[b])

Closer(b) == Remaining(b)' < Remaining(b)

\* What settles in a call brings it closer to its end, whatever the answer is, and so
\* does a settled load of the lists for the calls that wait for it; nothing that happens
\* on the page sets a call back.
CallsAdvance ==
  [][/\ Live => Closer("live")
     /\ Paste => Closer("paste")
     /\ ListsLoad \/ ListsFail => \A b \in Button : pc[b] = "lists" => Closer(b)
     /\ \A b \in Button : pc[b] # "idle" => Remaining(b)' <= Remaining(b)]_vars

\* Whichever load it is, a call starts one or finds one under way before it waits.
THEOREM Awaited == Spec => []ListsAreAwaited
<1>1. Init => ListsAreAwaited
  BY DEF Init, ListsAreAwaited
<1>2. TypeOK /\ ListsAreAwaited /\ [Next]_vars => ListsAreAwaited'
  <2> SUFFICES ASSUME TypeOK, ListsAreAwaited, [Next]_vars PROVE ListsAreAwaited'
    OBVIOUS
  <2>0. "live" \in Button /\ "paste" \in Button
    BY DEF Button
  <2>1. ASSUME NEW b \in Button, NEW kind, End(b, kind), UNCHANGED lists
        PROVE  ListsAreAwaited'
    BY <2>1 DEF End, TypeOK, ListsAreAwaited
  <2>2. ASSUME NEW b \in Button, NEW step, NEW l, Await(b, step, l), UNCHANGED lists,
               step # "lists"
        PROVE  ListsAreAwaited'
    BY <2>2 DEF Await, TypeOK, ListsAreAwaited
  <2>3. ASSUME NEW b \in Button, NEW l, AskLists(b, l) PROVE ListsAreAwaited'
    BY <2>2, <2>3 DEF AskLists, ListsAreAwaited
  <2>4. ASSUME NEW outcome, NEW ownOf, ListsSettle(outcome, ownOf) PROVE ListsAreAwaited'
    BY <2>4 DEF ListsSettle, ListsAreAwaited
  <2>5. ASSUME NEW b \in Button, FetchFails(b), UNCHANGED lists PROVE ListsAreAwaited'
    BY <2>1, <2>5 DEF FetchFails
  <2>6. ASSUME NEW d \in Domain \cup {NoName}, PressLive(d) PROVE ListsAreAwaited'
    BY <2>0, <2>1, <2>2, <2>6 DEF PressLive
  <2>7. ASSUME NEW e \in Pasted, PressPaste(e) PROVE ListsAreAwaited'
    BY <2>0, <2>1, <2>3, <2>7 DEF PressPaste
  <2>8. CASE LiveDiscovery \/ LiveAnswer
    BY <2>0, <2>1, <2>2, <2>5, <2>8 DEF LiveDiscovery, LiveAnswer
  <2>9. CASE LiveVerify \/ LiveRender
    BY <2>0, <2>1, <2>3, <2>9 DEF LiveVerify, LiveRender, render
  <2>10. CASE PasteJudged \/ PasteDiscovery \/ PasteKeys
    BY <2>0, <2>1, <2>2, <2>5, <2>10 DEF PasteJudged, PasteDiscovery, PasteKeys, render
  <2>11. CASE Tick \/ UNCHANGED vars
    BY <2>11 DEF Tick, vars, ListsAreAwaited
  <2> QED
    BY <2>4, <2>6, <2>7, <2>8, <2>9, <2>10, <2>11 DEF Next, Live, Paste, ListsLoad, ListsFail
<1> QED
  BY <1>1, <1>2, Typing, PTL DEF Spec

\* Where a call stands after its step, and that the other call stands where it did.
LEMMA EndLeaves ==
  ASSUME TypeOK, NEW b \in Button, NEW kind, End(b, kind)
  PROVE  /\ Remaining(b)' = 0
         /\ \A c \in Button \ {b} : Remaining(c)' = Remaining(c)
BY DEF TypeOK, End, Remaining, Left

LEMMA AwaitLeaves ==
  ASSUME TypeOK, NEW b \in Button, NEW step, NEW l, Await(b, step, l)
  PROVE  /\ Remaining(b)' = Left(b, step, l)
         /\ \A c \in Button \ {b} : Remaining(c)' = Remaining(c)
BY DEF TypeOK, Await, Remaining

\* The lists are asked between verify and judged by one call, before it by the other.
LEMMA AskListsLeaves ==
  ASSUME TypeOK, NEW b \in Button, NEW l, AskLists(b, l)
  PROVE  /\ b = "live" => Remaining(b)' \in {1, 2}
         /\ \A c \in Button \ {b} : Remaining(c)' = Remaining(c)
BY AwaitLeaves DEF AskLists, Left

\* The live call, step by step: an answer that arrives is no longer missing.
LEMMA LiveIsCloser ==
  ASSUME TypeOK, IInv, Live
  PROVE  Closer("live") /\ Remaining("paste")' = Remaining("paste")
<1> DEFINE l == local["live"]
<1>0. /\ "live" \in Button /\ "paste" \in Button \ {"live"}
      /\ l \in LocalType
  BY DEF Button, TypeOK
<1>1. ASSUME NEW kind, End("live", kind), pc["live"] \in {"discovery", "answers", "verify", "judged"}
      PROVE  Closer("live") /\ Remaining("paste")' = Remaining("paste")
  <2>1. Remaining("live") > 0
    BY <1>1 DEF Remaining, Left
  <2> QED
    BY <1>0, <1>1, <2>1, EndLeaves DEF Closer
<1>2. CASE LiveDiscovery
  <2>1. Remaining("live") = 6
    BY <1>2 DEF LiveDiscovery, Remaining, Left
  <2>2. \A m : Left("live", "answers", m) \in 3 .. 5
    BY DEF Left
  <2>3. ASSUME NEW m, Await("live", "answers", m)
        PROVE  Closer("live") /\ Remaining("paste")' = Remaining("paste")
    BY <1>0, <2>1, <2>2, <2>3, AwaitLeaves DEF Closer
  <2> QED
    BY <1>1, <1>2, <2>3 DEF LiveDiscovery, FetchFails
<1>3. CASE LiveAnswer
  <2> DEFINE step(m) == IF m.env # None /\ m.keys # None THEN "verify" ELSE "answers"
             missing(m) == (IF m.env = None THEN 1 ELSE 0) + (IF m.keys = None THEN 1 ELSE 0)
  <2>1. Remaining("live") = 3 + missing(l)
    BY <1>3 DEF LiveAnswer, Remaining, Left
  <2>2. \A m : Left("live", step(m), m) = 3 + missing(m)
    BY DEF Left
  <2>3. ASSUME NEW m, Await("live", step(m), m), missing(m) < missing(l)
        PROVE  Closer("live") /\ Remaining("paste")' = Remaining("paste")
    <3>1. missing(m) \in 0 .. 2 /\ missing(l) \in 0 .. 2
      OBVIOUS
    <3> HIDE DEF step, missing, l
    <3> QED
      BY <1>0, <2>1, <2>2, <2>3, <3>1, AwaitLeaves DEF Closer
  <2>4. ASSUME NEW e \in Envelope, l.env = None,
               Await("live", step([l EXCEPT !.env = e]), [l EXCEPT !.env = e])
        PROVE  Closer("live") /\ Remaining("paste")' = Remaining("paste")
    <3> DEFINE m == [l EXCEPT !.env = e]
    <3>1. m.env = e /\ m.keys = l.keys /\ e # None
      BY <1>0, DistinctAssumption DEF LocalType
    <3>2. missing(m) < missing(l)
      BY <2>4, <3>1
    <3>3. Await("live", step(m), m)
      BY <2>4
    <3> HIDE DEF m, step, missing, l
    <3> QED
      BY <2>3, <3>2, <3>3
  <2>5. ASSUME NEW set \in Served[l.doc.jwks.host], l.keys = None,
               Await("live", step([l EXCEPT !.keys = set]), [l EXCEPT !.keys = set])
        PROVE  Closer("live") /\ Remaining("paste")' = Remaining("paste")
    <3> DEFINE m == [l EXCEPT !.keys = set]
    <3>1. l.doc \in Document
      BY <1>3 DEF LiveAnswer, IInv, LiveKnows
    <3>2. l.doc.jwks.host \in Domain
      BY <3>1, DataAssumption DEF DocumentType, Url
    <3>3. set \in SUBSET Key
      BY <2>5, <3>2, DataAssumption
    <3>4. m.env = l.env /\ m.keys = set /\ set # None
      BY <1>0, <3>3, DistinctAssumption DEF LocalType
    <3>5. missing(m) < missing(l)
      BY <2>5, <3>4
    <3>6. Await("live", step(m), m)
      BY <2>5
    <3> HIDE DEF m, step, missing, l
    <3> QED
      BY <2>3, <3>5, <3>6
  <2> QED
    BY <1>1, <1>3, <2>4, <2>5 DEF LiveAnswer, FetchFails
<1>4. CASE LiveVerify
  <2>1. Remaining("live") = 3
    BY <1>4 DEF LiveVerify, Remaining, Left
  <2>2. CASE AskLists("live", l)
    BY <1>0, <2>1, <2>2, AskListsLeaves DEF Closer
  <2> QED
    BY <1>1, <1>4, <2>2 DEF LiveVerify
<1>5. CASE LiveRender
  BY <1>1, <1>5 DEF LiveRender, render
<1> QED
  BY <1>2, <1>3, <1>4, <1>5 DEF Live

\* The paste call: each of its steps leads to the next await or to the end.
LEMMA PasteIsCloser ==
  ASSUME TypeOK, Paste
  PROVE  Closer("paste") /\ Remaining("live")' = Remaining("live")
<1>0. "paste" \in Button /\ "live" \in Button \ {"paste"}
  BY DEF Button
<1>1. ASSUME NEW kind, End("paste", kind), pc["paste"] \in {"judged", "discovery", "keys"}
      PROVE  Closer("paste") /\ Remaining("live")' = Remaining("live")
  <2>1. Remaining("paste") > 0
    BY <1>1 DEF Remaining, Left
  <2> QED
    BY <1>0, <1>1, <2>1, EndLeaves DEF Closer
<1>2. CASE PasteJudged
  <2>1. /\ Remaining("paste") = 3
        /\ Left("paste", "discovery", local["paste"]) = 2
    BY <1>2 DEF PasteJudged, Remaining, Left
  <2> QED
    BY <1>0, <1>1, <1>2, <2>1, AwaitLeaves DEF PasteJudged, Closer
<1>3. CASE PasteDiscovery
  <2>1. /\ Remaining("paste") = 2
        /\ \A m : Left("paste", "keys", m) = 1
    BY <1>3 DEF PasteDiscovery, Remaining, Left
  <2>2. ASSUME NEW m, Await("paste", "keys", m)
        PROVE  Closer("paste") /\ Remaining("live")' = Remaining("live")
    BY <1>0, <2>1, <2>2, AwaitLeaves DEF Closer
  <2> QED
    BY <1>1, <1>3, <2>2 DEF PasteDiscovery, FetchFails
<1>4. CASE PasteKeys
  BY <1>1, <1>4 DEF PasteKeys, FetchFails, render
<1> QED
  BY <1>2, <1>3, <1>4 DEF Paste

\* The safety half of "each button comes back": with Awaited, what fairness adds is only
\* that each thing awaited settles, and a press waits for six of them at most.
THEOREM NeverSetBack == Spec => CallsAdvance
<1> DEFINE Advance ==
      /\ Live => Closer("live")
      /\ Paste => Closer("paste")
      /\ ListsLoad \/ ListsFail => \A b \in Button : pc[b] = "lists" => Closer(b)
      /\ \A b \in Button : pc[b] # "idle" => Remaining(b)' <= Remaining(b)
<1>1. TypeOK /\ IInv /\ [Next]_vars => [Advance]_vars
  <2> SUFFICES ASSUME TypeOK, IInv, Next PROVE Advance
    OBVIOUS
  <2>0. /\ "live" \in Button /\ "paste" \in Button
        /\ \A b \in Button : b = "live" \/ b = "paste"
        /\ \A b \in Button : Remaining(b) \in 0 .. 6
    BY DEF Button, Remaining, Left
  <2>1. ASSUME ListsLoad \/ ListsFail, NEW b \in Button
        PROVE  (pc[b] = "lists" => Closer(b)) /\ Remaining(b)' <= Remaining(b)
    <3>1. /\ pc[b] = "lists" => pc'[b] = "judged"
          /\ pc[b] # "lists" => pc'[b] = pc[b] /\ local'[b] = local[b]
      BY <2>1 DEF ListsLoad, ListsFail, ListsSettle
    <3>2. CASE pc[b] = "lists"
      BY <3>1, <3>2 DEF Closer, Remaining, Left
    <3>3. CASE pc[b] # "lists"
      BY <2>0, <3>1, <3>3 DEF Remaining
    <3> QED
      BY <3>2, <3>3
  <2>2. ASSUME NEW d \in Domain \cup {NoName}, PressLive(d), NEW b \in Button, pc[b] # "idle"
        PROVE  Remaining(b)' <= Remaining(b)
    <3>1. b \in Button \ {"live"}
      BY <2>2 DEF PressLive
    <3> QED
      BY <2>0, <2>2, <3>1, EndLeaves, AwaitLeaves DEF PressLive
  <2>3. ASSUME NEW e \in Pasted, PressPaste(e), NEW b \in Button, pc[b] # "idle"
        PROVE  Remaining(b)' <= Remaining(b)
    <3>1. b \in Button \ {"paste"}
      BY <2>3 DEF PressPaste
    <3> QED
      BY <2>0, <2>3, <3>1, EndLeaves, AskListsLeaves DEF PressPaste
  <2>4. ASSUME Tick, NEW b \in Button PROVE Remaining(b)' <= Remaining(b)
    BY <2>0, <2>4 DEF Tick, Remaining
  <2>5. ASSUME Live \/ Paste, NEW b \in Button PROVE Remaining(b)' <= Remaining(b)
    <3>1. \A c, step, l : Left(c, step, l) \in 0 .. 6
      BY DEF Left
    <3>2. /\ Left("live", pc'["live"], local'["live"]) <= Left("live", pc["live"], local["live"])
          /\ Left("paste", pc'["paste"], local'["paste"])
               <= Left("paste", pc["paste"], local["paste"])
      BY <2>5, <3>1, LiveIsCloser, PasteIsCloser DEF Closer, Remaining
    <3> QED
      BY <2>0, <3>2 DEF Remaining
  <2>6. (Live => Closer("live")) /\ (Paste => Closer("paste"))
    BY LiveIsCloser, PasteIsCloser
  <2> QED
    BY <2>1, <2>2, <2>3, <2>4, <2>5, <2>6 DEF Next
<1> QED
  BY <1>1, Invariant, PTL DEF Spec, CallsAdvance
=============================================================================
