------------------------------ MODULE OfferPage ------------------------------
(***************************************************************************)
(* verify.html: the page that verifies an offer, fetched live from a       *)
(* domain the visitor types (runLive) or pasted (runPaste).                *)
(*                                                                         *)
(* Both are async functions and each disables its own button only, so one  *)
(* call of each may be in flight.  They share the result panel and the     *)
(* cached promise `listsPromise`.  A stretch between two awaits is one     *)
(* action.  What hosts answer is chosen by the environment, and the clock  *)
(* moves while the page waits.                                             *)
(***************************************************************************)
EXTENDS HostName, OfferRules

CONSTANTS
  Domain,    \* host names: what is typed, what offers and documents name
  Key,       \* published keys, each with its own kid
  NoKey,     \* the kid of a header from which no key can be selected
  NoName,    \* an absent name
  NoUrl,     \* an absent booking URL
  Payload,   \* signed payloads
  NoCopy,    \* an envelope without a member `offer`
  Null,      \* `offer` is null, or there is no envelope around a pasted JWS
  NoJws,     \* a response without signature.jws
  Envelope,  \* what offer endpoints answer
  Pasted,    \* what visitors paste
  Document,  \* discovery documents
  Served,    \* Served[d]: the key sets the host d publishes, over time
  Asked,     \* the stays the form may hold
  Clock,     \* the instants at which the page reads the clock
  None       \* no value yet

Url == [host : Domain, plain : BOOLEAN]   \* plain: https, no userinfo, no port

DocumentType == [vrp : BOOLEAN, domain : Domain \cup {NoName}, jwks : Url, offers : Url]

\* A payload: the domain it names, whether it has the required fields, its booking
\* URL, whether it is available, exact and quotable, and what OfferRules reads.
PayloadType ==
  [cd : Domain \cup {NoName}, complete : BOOLEAN, book : Url \cup {NoUrl},
   flags : BOOLEAN, generated_at : Instant, valid_until : Instant,
   request : Request \cup {NoRequest}]

\* A JWS with the kid of its header, whether that key's signature is over the
\* payload, and the unsigned copy beside it.
EnvelopeType ==
  [jws : [kid : Key \cup {NoKey}, sound : BOOLEAN, payload : Payload] \cup {NoJws},
   copy : Payload \cup {NoCopy, Null}]

ASSUME DataAssumption ==
  /\ Domain \subseteq Seq(STRING) /\ Clock \subseteq Int
  /\ Payload \subseteq PayloadType /\ Document \subseteq DocumentType
  /\ Envelope \subseteq EnvelopeType /\ Pasted \subseteq EnvelopeType
  /\ Served \in [Domain -> SUBSET SUBSET Key]

\* The marks for an absent value are not values.
ASSUME DistinctAssumption ==
  /\ NoName \notin Domain /\ NoKey \notin Key
  /\ \A u \in Url : u # NoUrl
  /\ NoStay \notin Asked
  /\ None \notin Document \cup Envelope \cup Pasted
  /\ \A set \in SUBSET Key : set # None
  /\ NoCopy \notin Payload \cup {Null}

Button == {"live", "paste"}

VARIABLES
  now,     \* the clock
  lists,   \* listsPromise
  panel,   \* the verdict on the page and the call that wrote it
  pc,      \* pc[b]: the await the call of button b is at; idle: enabled
  local    \* local[b]: the variables of that call

vars == <<now, lists, panel, pc, local>>

\* domain: host, or the pasted canonical_domain; doc: disc; env: offer, or what was
\* pasted; keys: jwks; own: hostOwned; asked: the stay in the offer URL.
NoLocal == [domain |-> NoName, doc |-> None, env |-> None, keys |-> None,
            own |-> "none", asked |-> NoStay]

Init ==
  /\ now \in Clock
  /\ lists = "null"
  /\ panel = [kind |-> "none", by |-> "none"]
  /\ pc = [b \in Button |-> "idle"]
  /\ local = [b \in Button |-> NoLocal]

\* A continuation that is ready runs before any other task.
Checkpoint == \A b \in Button : pc[b] # "judged"

\* The end of a call: a verdict on the panel, and the button enabled again.
End(b, kind) ==
  /\ panel' = [kind |-> kind, by |-> b]
  /\ pc' = [pc EXCEPT ![b] = "idle"]
  /\ local' = [local EXCEPT ![b] = NoLocal]

Await(b, step, l) ==
  /\ pc' = [pc EXCEPT ![b] = step]
  /\ local' = [local EXCEPT ![b] = l]
  /\ UNCHANGED panel

FetchFailsRaw(b) ==   \* mutant: the state of a row is shown as a verdict
  \E kind \in {"error", "skip"} : End(b, kind)

\* showError and redirectStop: the two ways nodeFetch disappoints a call.
FetchFails(b) == \E kind \in {"error", "unknown"} : End(b, kind)

-----------------------------------------------------------------------------
isNodeUrl(u, d) ==
  /\ u # NoUrl /\ d # NoName
  /\ u.plain /\ u.host \in {d, <<"www">> \o d}

\* checkDiscovery: a document whose URLs are not the node's stops the call; one
\* that names another protocol or domain is a problem the verdict reports.
urlsOk(doc, d)     == isNodeUrl(doc.jwks, d) /\ isNodeUrl(doc.offers, d)
DeclaresNode(doc, d) == doc.vrp /\ doc.domain = d

\* verifyJws throws unless the header's kid selects a key of the set.
Selects(jws, keys) == jws # NoJws /\ jws.kid \in keys

OwnState(d) == IF HostOwned(d) THEN "pass" ELSE "fail"

\* hostOwned: a malformed name fails at once, any other waits for the lists.
AskLists(b, l) ==
  \/ /\ ~WellFormedName(l.domain)
     /\ Await(b, "judged", [l EXCEPT !.own = "fail"])
     /\ UNCHANGED lists
  \/ /\ WellFormedName(l.domain) /\ lists = "fulfilled"
     /\ Await(b, "judged", [l EXCEPT !.own = OwnState(l.domain)])
     /\ UNCHANGED lists
  \/ /\ WellFormedName(l.domain) /\ lists # "fulfilled"
     /\ lists' = "pending"
     /\ Await(b, "lists", l)

\* The lists settle: every call that waits for them is ready, with what they say
\* of its domain.
ListsSettle(outcome, ownOf) ==
  /\ lists = "pending"
  /\ Checkpoint
  /\ lists' = outcome
  /\ local' = [b \in Button |->
                 IF pc[b] = "lists" THEN [local[b] EXCEPT !.own = ownOf[b]] ELSE local[b]]
  /\ pc' = [b \in Button |-> IF pc[b] = "lists" THEN "judged" ELSE pc[b]]
  /\ UNCHANGED <<now, panel>>

ListsLoad ==
  ListsSettle("fulfilled",
    [b \in Button |-> IF pc[b] = "lists" THEN OwnState(local[b].domain) ELSE "none"])

ListsFailUncaught ==   \* mutant: hostOwned does not catch the rejection
  /\ lists = "pending"
  /\ Checkpoint
  /\ lists' = "null"
  /\ UNCHANGED <<now, panel, pc, local>>

\* A failed load empties the cache and leaves the state of the domain unknown.
ListsFail == ListsSettle("null", [b \in Button |-> "unknown"])

-----------------------------------------------------------------------------
ProblemUnlessPass(l, host) ==   \* mutant: a domain that could not be judged is refused
  LET p == l.env.jws.payload
  IN  \/ ~DeclaresNode(l.doc, l.domain)
      \/ l.own # "pass"
      \/ l.env.copy \notin {NoCopy, Null, p}
      \/ host # NoName /\ p.cd # host
      \/ p.book # NoUrl /\ ~isNodeUrl(p.book, p.cd)

\* render: what makes the offer no VRP offer of its domain, ...
Problem(l, host) ==
  LET p == l.env.jws.payload
  IN  \/ ~DeclaresNode(l.doc, l.domain)
      \/ l.own = "fail"
      \/ l.env.copy \notin {NoCopy, Null, p}
      \/ host # NoName /\ p.cd # host
      \/ p.book # NoUrl /\ ~isNodeUrl(p.book, p.cd)

\* ... and what could not be checked, or forbids quoting it.
Caution(l, host, asked) ==
  LET p == l.env.jws.payload
  IN  \/ l.own = "unknown"
      \/ ~p.complete
      \/ l.env.copy = NoCopy
      \/ host = NoName
      \/ p.book = NoUrl
      \/ ~TimeOK(p, now)
      \/ ~StayOK(p.request, now, asked)
      \/ ~p.flags

\* host is NoName and asked NoStay for a pasted offer.
Verdict(l, host, asked) ==
  IF ~l.env.jws.sound \/ Problem(l, host) THEN "fail"
  ELSE IF Caution(l, host, asked) THEN "warn" ELSE "quote"

render(b, l, host, asked) == End(b, Verdict(l, host, asked))

-----------------------------------------------------------------------------
\* The live button: toHost gives no host, or discovery is fetched from it.
PressLive(d) ==
  /\ pc["live"] = "idle"
  /\ Checkpoint
  /\ UNCHANGED <<now, lists>>
  /\ \/ d = NoName /\ End("live", "error")
     \/ d # NoName /\ Await("live", "discovery", [NoLocal EXCEPT !.domain = d])

\* Discovery answers.  The stay is read from the form now, not at the press.
LiveDiscovery ==
  /\ pc["live"] = "discovery"
  /\ Checkpoint
  /\ UNCHANGED <<now, lists>>
  /\ LET l == local["live"]
     IN  \/ FetchFails("live")
         \/ \E doc \in Document, asked \in Asked :
              \/ ~urlsOk(doc, l.domain) /\ End("live", "fail")
              \/ /\ urlsOk(doc, l.domain)
                 /\ Await("live", "answers", [l EXCEPT !.doc = doc, !.asked = asked])

\* The offer and the key set are fetched together; both must arrive, and the first
\* failure ends the call whatever the other answers.
LiveAnswer ==
  /\ pc["live"] = "answers"
  /\ Checkpoint
  /\ UNCHANGED <<now, lists>>
  /\ LET l == local["live"]
         Arrived(m) == Await("live", IF m.env # None /\ m.keys # None
                                     THEN "verify" ELSE "answers", m)
     IN  \/ FetchFails("live")
         \/ l.env = None /\ \E e \in Envelope : Arrived([l EXCEPT !.env = e])
         \/ l.keys = None /\ \E set \in Served[l.doc.jwks.host] :
                               Arrived([l EXCEPT !.keys = set])

LiveVerifyUnjudged ==   \* mutant: the domain law is not asked
  /\ pc["live"] = "verify"
  /\ Checkpoint
  /\ UNCHANGED <<now, lists>>
  /\ LET l == local["live"]
     IN  \/ ~Selects(l.env.jws, l.keys) /\ End("live", "error")
         \/ Selects(l.env.jws, l.keys) /\ Await("live", "judged", [l EXCEPT !.own = "pass"])

\* verifyJws, then the domain law.
LiveVerify ==
  /\ pc["live"] = "verify"
  /\ Checkpoint
  /\ UNCHANGED now
  /\ LET l == local["live"]
     IN  \/ ~Selects(l.env.jws, l.keys) /\ End("live", "error") /\ UNCHANGED lists
         \/ Selects(l.env.jws, l.keys) /\ AskLists("live", l)

LiveRender ==
  /\ pc["live"] = "judged"
  /\ UNCHANGED <<now, lists>>
  /\ render("live", local["live"], local["live"].domain, local["live"].asked)

-----------------------------------------------------------------------------
\* The paste button: text that does not decode to a payload that names a domain is
\* an error; else the domain law comes first.
PressPaste(e) ==
  /\ pc["paste"] = "idle"
  /\ Checkpoint
  /\ UNCHANGED now
  /\ \/ /\ e.jws = NoJws \/ e.jws.payload.cd = NoName
        /\ End("paste", "error")
        /\ UNCHANGED lists
     \/ /\ e.jws # NoJws /\ e.jws.payload.cd # NoName
        /\ AskLists("paste", [NoLocal EXCEPT !.env = e, !.domain = e.jws.payload.cd])

PasteJudgedLate ==   \* mutant: a refused domain is asked for its documents
  /\ pc["paste"] = "judged"
  /\ UNCHANGED <<now, lists>>
  /\ Await("paste", "discovery", local["paste"])

\* A domain the law refuses is asked for nothing.
PasteJudged ==
  /\ pc["paste"] = "judged"
  /\ UNCHANGED <<now, lists>>
  /\ \/ local["paste"].own = "fail" /\ End("paste", "fail")
     \/ local["paste"].own # "fail" /\ Await("paste", "discovery", local["paste"])

PasteDiscovery ==
  /\ pc["paste"] = "discovery"
  /\ Checkpoint
  /\ UNCHANGED <<now, lists>>
  /\ LET l == local["paste"]
     IN  \/ FetchFails("paste")
         \/ \E doc \in Document :
              \/ ~urlsOk(doc, l.domain) /\ End("paste", "fail")
              \/ urlsOk(doc, l.domain) /\ Await("paste", "keys", [l EXCEPT !.doc = doc])

PasteKeysLikeLive ==   \* mutant: render is told where a pasted offer came from
  /\ pc["paste"] = "keys"
  /\ Checkpoint
  /\ UNCHANGED <<now, lists>>
  /\ LET l == local["paste"]
     IN  \E set \in Served[l.doc.jwks.host], asked \in Asked :
           \/ ~Selects(l.env.jws, set) /\ End("paste", "error")
           \/ Selects(l.env.jws, set) /\ render("paste", l, l.domain, asked)

\* The key set, verifyJws and render, which knows neither where the offer was
\* fetched from nor which stay it was asked for.
PasteKeys ==
  /\ pc["paste"] = "keys"
  /\ Checkpoint
  /\ UNCHANGED <<now, lists>>
  /\ LET l == local["paste"]
     IN  \/ FetchFails("paste")
         \/ \E set \in Served[l.doc.jwks.host] :
              \/ ~Selects(l.env.jws, set) /\ End("paste", "error")
              \/ Selects(l.env.jws, set) /\ render("paste", l, NoName, NoStay)

-----------------------------------------------------------------------------
Tick ==
  /\ now' \in {t \in Clock : t > now}
  /\ UNCHANGED <<lists, panel, pc, local>>

Live  == LiveDiscovery \/ LiveAnswer \/ LiveVerify \/ LiveRender
Paste == PasteJudged \/ PasteDiscovery \/ PasteKeys

Next ==
  \/ \E d \in Domain \cup {NoName} : PressLive(d)
  \/ \E e \in Pasted : PressPaste(e)
  \/ ListsLoad \/ ListsFail
  \/ Live \/ Paste
  \/ Tick

Spec == Init /\ [][Next]_vars

\* Every fetch is answered or fails, and the event loop passes over no task for
\* ever.  Nobody has to press a button.
Fairness == SF_vars(ListsLoad \/ ListsFail) /\ SF_vars(Live) /\ SF_vars(Paste)

FairSpec == Spec /\ Fairness
-----------------------------------------------------------------------------
LocalType ==
  [domain : Domain \cup {NoName}, doc : Document \cup {None},
   env : Envelope \cup Pasted \cup {None}, keys : (SUBSET Key) \cup {None},
   own : {"none", "pass", "fail", "unknown"}, asked : Asked \cup {NoStay}]

Kinds == {"none", "error", "unknown", "fail", "warn", "quote"}
Steps == {"idle", "discovery", "answers", "verify", "keys", "lists", "judged"}

TypeOK ==
  /\ now \in Clock
  /\ lists \in {"null", "pending", "fulfilled"}
  /\ panel \in [kind : Kinds, by : Button \cup {"none"}]
  /\ pc \in [Button -> Steps]
  /\ local \in [Button -> LocalType]

\* The call of button b ends in this step with this verdict.
Ends(b, kind) == pc[b] # "idle" /\ pc'[b] = "idle" /\ panel'.kind = kind

\* Some host of the node d has published a key set with this kid.
Publishes(d, kid) ==
  \E h \in Domain \cap {d, <<"www">> \o d} : \E set \in Served[h] : kid \in set

\* Section 7 (and section 5.1 for the booking URL), all of it, for the stay asked
\* for and the domain typed; the rules on times and stays are the checker's.
MayQuote(l, t) ==
  LET jws == l.env.jws
      p   == jws.payload
  IN  /\ HostOwned(l.domain)
      /\ DeclaresNode(l.doc, l.domain)
      /\ jws.sound /\ Publishes(l.domain, jws.kid)
      /\ p.cd = l.domain
      /\ p.complete /\ p.flags
      /\ isNodeUrl(p.book, p.cd)
      /\ l.env.copy \in {p, Null}
      /\ checkOfferRules(p, t, l.asked) = {}

\* A live call that ends in "safe to quote" has seen all of section 7 hold at that
\* moment, whatever became of the clock, the lists and the other call while it
\* waited.  A returned offer of null and a fraction finer than a millisecond are left
\* out (see QuoteFollowsTheLetter).
QuoteIsSafe ==
  [][\A b \in Button :
       Ends(b, "quote") /\ WholeMilliseconds(local[b].env.jws.payload) =>
         MayQuote(local[b], now)]_vars

\* Nor does the page withhold the verdict: when all of it holds and the lists were
\* there, the live call that gets to its end says "safe to quote".
SafeIsQuoted ==
  [][pc["live"] = "judged" /\ pc'["live"] = "idle" /\ local["live"].own = "pass"
       /\ WholeMilliseconds(local["live"].env.jws.payload)
       /\ MayQuote(local["live"], now) => panel'.kind = "quote"]_vars

\* "it never shows a pasted offer as safe to quote (VRP section 7)": verify.html:313-314.
PastedIsNeverQuoted == panel.by = "paste" => panel.kind # "quote"

\* Something the page found to be false: the name is not the host's, the document
\* names another node, or the signed offer is not this domain's.
Negated(l) ==
  \/ ~HostOwned(l.domain)
  \/ /\ l.doc # None
     /\ LET p == l.env.jws.payload
        IN  \/ ~DeclaresNode(l.doc, l.domain)
            \/ ~l.env.jws.sound
            \/ p.cd # l.domain
            \/ l.env.copy \notin {NoCopy, Null, p}
            \/ p.book # NoUrl /\ ~isNodeUrl(p.book, p.cd)

\* "Unreachable is not the same as negated" (section 9): an offer is only called no
\* VRP offer for something found false, never because the lists did not load.
UnknownIsNotNegated ==
  [][\A b \in Button :
       pc[b] \in {"judged", "keys"} /\ Ends(b, "fail") => Negated(local[b])]_vars

\* What is called safe to quote has expired a lifetime and a clock allowance later.
QuoteExpiresSoon ==
  [][\A b \in Button : Ends(b, "quote") =>
       parseDateTime(local[b].env.jws.payload.valid_until)
         <= now + MaxLifetime + ClockSkew]_vars

\* "The domain law first" (verify.html:962): while the paste call waits for a host,
\* the loaded lists accept that host, or there were no lists to ask.
LawBeforePaste ==
  pc["paste"] \in {"discovery", "keys"} =>
    local["paste"].own = "unknown" \/ HostOwned(local["paste"].domain)

\* Each button comes back: no call waits for ever, also when a load of the lists
\* that both calls wait for fails.
EveryCallEnds == \A b \in Button : pc[b] # "idle" ~> pc[b] = "idle"

\* What the live call knows at each await: the document's URLs are the node's, the
\* keys are the ones that node published, and once verified one of them is the kid's.
LiveKnows ==
  LET l == local["live"]
  IN  /\ pc["live"] # "idle" => l.domain \in Domain
      /\ pc["live"] = "discovery" => l.env = None /\ l.keys = None
      /\ pc["live"] \in {"answers", "verify", "lists", "judged"} =>
           /\ l.doc \in Document /\ urlsOk(l.doc, l.domain)
           /\ l.asked \in Asked
           /\ l.env # None => l.env \in Envelope
           /\ l.keys # None => l.keys \in Served[l.doc.jwks.host]
      /\ pc["live"] \in {"verify", "lists", "judged"} => l.env # None /\ l.keys # None
      /\ pc["live"] \in {"lists", "judged"} => Selects(l.env.jws, l.keys)

\* A call that has been judged has a judgement, and a pass or a refusal is the lists'.
JudgementsAreLawful ==
  \A b \in Button :
    /\ pc[b] = "judged" => local[b].own # "none"
    /\ local[b].own = "pass" => HostOwned(local[b].domain)
    /\ local[b].own = "fail" => ~HostOwned(local[b].domain)

\* The paste call asks for the keys of the document it has read.
PasteKnows == pc["paste"] = "keys" => local["paste"].doc # None

\* The inductive invariant behind the action properties and LawBeforePaste.
IInv ==
  /\ LiveKnows /\ PasteKnows /\ JudgementsAreLawful
  /\ LawBeforePaste /\ PastedIsNeverQuoted

\* Section 7 to the letter, without the two exceptions that QuoteIsSafe makes: "The
\* signed payload matches the returned offer" (spec/v0.1.md:519), null or not, and
\* the checker's rules for every date-time, "compared as written, fractions of a
\* second included" (spec/v0.1.md:290-291).
QuoteFollowsTheLetter ==
  [][Ends("live", "quote") =>
       LET l == local["live"]
       IN  /\ l.env.copy = l.env.jws.payload
           /\ checkOfferRules(l.env.jws.payload, now, l.asked) = {}]_vars
=============================================================================
