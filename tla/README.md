# Vacation Rental Protocol: a verification project in TLA+

The repository holds the specification of the Vacation Rental Protocol (VRP)
and the code around it: three libraries that verify what it describes (`lib/`),
checkers and generators run by `npm test` and CI (`scripts/`), the scripts that
publish its documents as a site, and pages that sign and verify in a visitor's
browser (`verify.html`, `verify-receipt.html`, `implement.html`). This directory
models that code in TLA+, checks the models with TLC on small instances, and
proves the most important results with TLAPS for every value of the constants.

## The system and its parts

| part | state it keeps | operations | talks to |
|---|---|---|---|
| receipt page (`verify-receipt.html`) | rows `checks`, headline, facts panel, reference box, cached `listsPromise`; the locals of each call of `run()` | press of the button, prefill from the URL, continuations after each `await` | issuer's `jwks.json`, its log proxy, a public log, the log operator's DID document, the two lists |
| offer page (`verify.html`) | one result panel, the two buttons, cached `listsPromise`, the form | `runLive`, `runPaste`, prefill | host's discovery document, offer endpoint, `jwks.json`, the two lists |
| implementer page (`implement.html`) | `keyState`, two buttons, result panel; the locals of each call | generate, re-sign, copy | Web Crypto only |
| host-owned domain rule (`scripts/verify-host-domain.mjs`, and a copy in each page) | none | `publicSuffixLength`, `registrableDomain`, `checkHostOwned` | Public Suffix List, ICANN's gTLD list |
| transparency-log library (`lib/vrp-tlog.mjs`) | none | tree hash, audit path, consistency proof, their verification, `verifySignedTreeHead`, `verifyAnchoring`, `verifyConsistencyVector` | a log's answers, an operator's DID document |
| transparency-log service (`spec/transparency-log-v0.1.md`; not in the repository) | entries, archived tree heads, keys | submit, sign, archive, rotate | the library and the pages |
| JWS library (`lib/vrp-jws.mjs`) and the three other verifiers of a compact JWS (`scripts/conformance.mjs`, `scripts/verify-stayintent.mjs`) | none | verify under a key set or a DID document | key sets |
| receipt library (`lib/vrp-receipt.mjs`) | none | `verifyReceipt`, `verifyAttestation` | a resolver of key sets |
| offer rules, three-state verdicts, attestation vectors (`scripts/verify-*.mjs`) | none | checkers over data files | files |
| publishing scripts (`build-pages`, `build-source-pack`, `build-sitemap`, `check-updated-stamp`) | generated files in the repository | generate, `--check` | Git, the working tree, CI |
| Markdown renderer (`scripts/lib/markdown.mjs`) | none | `mdToHtml`, `rewriteLinks` | the publishing scripts |
| public route check (`scripts/check-public-routes.mjs`) | none | static check, `--live` | files, `vercel.json`, the deployed site |

What is hard in this code is not its size. The pages are asynchronous: between
two `await`s another press, another tab of the page, or an answer may run, and
the calls share module-level variables and page elements. The lists are loaded
once and shared by every call that waits for them. A receipt, a proof, a key
set and a tree head come from different hosts at different moments, and each
may be missing, stale, forged or malformed on its own. Four functions verify a
compact JWS and choose its key in four ways. The Merkle loops have index
arithmetic that only matters for trees that are not full. What the site shows is
committed beside the documents it is made from, by an author who may edit, build
and commit in any order, and dated by the commits that are only made afterwards.
Every such point is listed, with its line, under `hazards` in `PROJECT.json`.

What makes each part correct:

- receipt page: a headline never claims more than the receipt, the proof and
  the lists bear out; it is exact for a call that had the page to itself; every
  press comes to an end;
- offer page: "safe to quote" means all of section 7, at the moment it is said;
  nothing that is only unknown is called false; every call ends;
- implementer page: the documents on the panel are of one key, and that key signed;
- domain rule: it computes what the list says, and every name has at most one
  owner;
- log library: it accepts exactly the proofs the producers produce, nothing
  absent is ever anchored, and a rewrite of history shows;
- verifiers of a JWS: where their inputs mean the same, they agree;
- receipt library: a receipt is fully verified when each attestation is, and no
  attestation's outcome depends on its neighbours;
- three-state verdicts: nothing is said of an offer that is not signed or not
  current, and quoting rests on affirmed facts alone;
- attestation vectors: the checks fail on any other bundle than the one built
  from the committed payloads;
- publishing: main always shows whole renderings of its own documents, whatever
  lands meanwhile; the recipe the scripts document is enough to pass CI; a date
  stands for one text;
- renderer and route check: no text is lost or given twice, and what passes the
  static check is served as it says.

## Modules

| module | models | EXTENDS |
|---|---|---|
| `HostName` | the domain rule, `www.` stripping, `sameOperator` | |
| `MerkleTree` | `lib/vrp-tlog.mjs` 44-151 | |
| `TransparencyLog` | the log service (external) and `lib/vrp-tlog.mjs` 153-275 | `HostName`, `MerkleTree` |
| `ReceiptPage` | `verify-receipt.html` | `HostName` |
| `ReceiptPageOverlap` | the same, with a history variable: which calls shared the page | `ReceiptPage` |
| `OfferRules` | `scripts/verify-offer-rules.mjs`, and the page's own arithmetic for the same rules | |
| `OfferPage` | `verify.html` | `HostName`, `OfferRules` |
| `ImplementPage` | `implement.html` | |
| `Signatures` | the four verifiers of a compact JWS, and signing | |
| `Receipt` | `lib/vrp-receipt.mjs` | `Signatures` |
| `ThreeState` | `scripts/verify-three-state-fixtures.mjs` | `Signatures`, `OfferRules` |
| `AttestationBundle` | `scripts/conformance.mjs`, `scripts/verify-attestation-vectors.mjs` | `Signatures` |
| `Markdown` | `scripts/lib/markdown.mjs` and the link rewriting of the build scripts | |
| `PublicRoutes` | `scripts/check-public-routes.mjs`, and Vercel (external) | |
| `Publishing` | `build-pages`, `build-source-pack`, `build-sitemap`, `check-updated-stamp`, composed with an author, Git and CI | |
| `PublishedSite` | abstract: what the site promises a reader | |
| `Library` | what the functions of the libraries and scripts promise, for every input of its type | `TransparencyLog`, `Receipt`, `ThreeState`, `AttestationBundle`, `Markdown`, `PublicRoutes` |
| `*_proofs` | theorems about the module they are named after | it, `TLAPS`; `Library_proofs` also `HostName_proofs`, `MerkleTree_proofs` |
| `MC*` | instances for TLC; `MCLibrary` builds the inputs of `Library` step by step | |

**HostName.** A name is the sequence of its labels; `*` in a rule stands for
one label. The rules, the brand domains and the set of well-formed labels are
constants. The script takes the first exception that matches and the pages the
last; `ExceptionsAssumption` (no two exceptions fit one name), which the
published list satisfies, makes them the same function. The 253-character
limit of `checkHostOwned` is not modelled. `LogHost(name, dot, port)` is the host
string of a did:web identifier after decoding, where a final dot and a port stay on
the end: `didWebDocumentUrl` admits both, and `sameOperator` compares strings.

**MerkleTree.** A hash is the term it was computed from, so equal hashes mean
equal data: collision resistance is assumed, nothing else. Producers and
verifiers are separate definitions, as in the library, so that agreeing is
something to check, and to prove. `>>=` and `&` work on integers of `Width` bits, 32
in JavaScript, with the wrap of ToInt32. `InclusionLoop` and `ConsistencyLoop` are the
two `for` loops, a state after each hash; the `while` loops inside are `ShiftOut` and
`ShiftOdd`. What recurses is a recursive function, never an operator, so that the
provers can reason about it.

**TransparencyLog.** The service is outside the repository, so its actions are
marked external: submit, sign and archive a head, rotate with overlap, withdraw
old keys, and come back from a backup that lacks the latest entries. The
verifier is the library's, definition by definition, returning its reasons. It
is stateless; the invariants quantify over every answer that can be assembled
from parts of different moments. An operator's identifier decodes; on one that does
not `verifyAnchoring` throws (line 155), which leaves nothing accepted.

**ReceiptPage.** `pc[r]` names the `await` a call is waiting in. One action is
the code from there to the next `await`: `Press` (lines 509-545), `Resume`,
`FetchKeys`, `VerifySignature`, `VerifyAttestations`, `Digest`, `AskProxy`,
`AskFallback`, `CheckInclusion`, `CheckHead`; `Conclude` is the end of `run()`,
which is part of whichever action reaches it, and `Stop` is its catch block, which
a percent escape that does not decode in the issuer's or the log's did:web leads to
as well (`Malformed`).
`ListsLoad` and `ListsFail` settle the cached promise: they make every call that
waits for it ready at once. A ready continuation runs before any other task
(`Checkpoint`), as the browser's microtask queue has it. The awaits inside
`verifyJws` and `verifyInclusion` for Web Crypto touch nothing shared and are
part of the same action. A signature is represented by the key that made it;
`Served[d]` is the family of key sets that the host d publishes over time, and
a fetch returns any of them. The raw panel is written with the facts panel and
not modelled apart; a press with text in the URL fragment is a press.
`ReceiptPageOverlap` adds the history variable `overlapped`: the calls whose
time on the page met another call's.

**OfferRules.** A date-time is a number of ticks and a date the tick of its UTC
midnight; whatever does not parse is `Malformed`. The script compares date-times
as written, the page reads them with `Date.parse` and so in whole milliseconds:
`Millisecond` is the number of ticks in one, and `parseDateTime` drops the rest.
The lifetime, the clock allowance and the day are constants, so that an instance
can scale them down and the theorems hold for any. The reasons of the script are
a set; their order carries nothing.

**OfferPage.** `pc[b]` names the `await` the call of button b is at; each button
is disabled while its call runs, so there is at most one of each. `PressLive`
(lines 908-915), `LiveDiscovery`, `LiveAnswer`, `LiveVerify` and `LiveRender` are
`runLive`, `PressPaste` to `PasteKeys` are `runPaste`, and `render` is the verdict
that `render()` composes from its rows: `Problem` collects the ones that go into
`problems`, `Caution` those that make it "warn". The offer and the key set of the
live call are fetched together and arrive in either order. The stay is read from
the form when the discovery document arrives, not at the press, so it is chosen
there. `Tick` may move the clock between any two steps; `Date.now()` is read once,
in `render`. The lists, and `Checkpoint`, are as in `ReceiptPage`. A JWS is the
kid of its header, whether the key of that kid signed the payload, and the
payload; `copy` is the unsigned offer beside it. What an answer that is not JSON,
a status other than 200, a redirect and a network error lead to is `FetchFails`.

**ImplementPage.** Each call of `run()` is `Press` (to the first real await: the
button is disabled, Generate drops the kept key, `ensureKey` keeps to a key of the
same host), then `Generated` where a key is made, then `Signed` or `Fails`;
`Finish` is the `finally` block, and `Refuse` a form that does not validate. Two
keys of one host have the same kid, as in the page, so a key is a host and a
number. `overlapped` is a history variable: two calls were once in flight together.

**Signatures, Receipt, ThreeState, AttestationBundle.** A compact JWS is what its
parts decode to, with the key whose signature is over these very bytes; a key set
is the sequence of its entries. The four verifiers differ in which parts must
decode, in how an entry is chosen (the first of the kid; each of the kid; the kid
or else the first of all), in whether white space around a kid counts, and in what
an entry that does not import does; each is written out. `Receipt` gives an
attestation the outcome the library reports as its error. `ThreeState` signs a
fixture as the script does (the vectors' key, perhaps a payload replaced under the
signature) and evaluates it fact by fact. `AttestationBundle` has both sides:
`conformance.mjs` that signs the credentials and builds the DID document, and every
check of `verify-attestation-vectors.mjs`, its negative ones included.

**Markdown.** A line is its kind (text, fence, item, heading, ...), its indentation
and the id of a heading. `Round` is one round of `mdToHtml`'s loop: the block it
pushes, whose lines are in it, and the line it goes on with. `rewriteLinks` is the
pass the build scripts run over the source before, which counts fences on its own.
The loop is a function over its rounds, as many as there are lines: it is done by
then, unless a round goes nowhere. `renderList` calls itself for the list nested in
an item and for the items after it, and is a function over blocks, so that the
provers can reason about both.

**PublicRoutes.** A path is a directory, a name and an extension; a site is its
files, the rewrites and header rules of `vercel.json`, and the routes the lists
name. `checkPublicRoutes` and `checkLiveRoutes` are the two modes. `Response` is
Vercel (external), by the script's own comments: files before rewrites, clean
URLs, the last header rule.

**Publishing, PublishedSite.** The variables are the three trees an author works
with: the working tree, the head of the branch, and main, which is deployed; a
head is a tree and, for each file, the day of the last commit that touched it
(Git is external, and this is all `git log -1 --format=%cs` and `git status` tell
the scripts). `base` is the tree of main that the branch goes back to, `current`
whether the branch holds all of main, `passed` whether CI has passed on its head.
The author edits, writes any date as the stamp (`BumpStamp`), removes a page, runs
any script at any time, and commits. `OthersLand` is another author's pull request,
with any change of one file and any stamp its own guard lets through, that lands on
main meanwhile. `Update` takes main into the branch. `RunCI` runs the checks on the
merge of the branch with main as it is at that moment, as a `pull_request` workflow
does (`validate.yml:30-31`), and not again when main moves; `Land` merges by a merge
or, where `Squash` allows, a squash, and asks for `current` only if the host is
`Strict`, the setting that a branch must be up to date before it is merged. `Merged`
is Git's three-way merge (external), of documents as a whole and of the other files
line by line. `Tick` is midnight. `fresh`, `restamped`, `announced` and `forward` are
history variables, read by properties only. The source pack stands
for both of its editions, which hold the same documents. `Says` is a document without its
white space and the targets of its HTML links, which is what the guard's
normalisation drops (`check-updated-stamp.mjs:59-75`); the targets of Markdown links
are part of it. `PublishedSite` is the
abstract specification: at every moment the site shows the rendering of the
documents it was published from, all of them and nothing else; new documents and
their renderings appear together. `PublishesWhole` is the refinement: `source` is
main's documents and navigation, `shown` its pages and pack.

**Library, MCLibrary.** Modules that are functions of an input have no transitions of
their own. `Library` states what they promise: a `subject` is what is looked at (a
claim about a tree, a name, a JWS with a key set, a receipt, a fixture, a bundle, a
document, a site), `input` is its input, and `InputOK` says what the functions are
called with, without any bound on its size. A behaviour of `MCLibrary` picks a subject
and builds an input for it step by step; the invariants hold of every input on the
way, and `InputsAssumption` lets TLC check that what the inputs are built from makes
them `InputOK`. The subject `log` has a life of its own: its behaviours are
`TransparencyLog`'s.

## Runs

| run | question | instance |
|---|---|---|
| `receipt_overlap` | does a headline claim only what holds, whatever calls share the page? is it exact for a call that had it to itself? does every press come to an end? | one call over 11 receipts, 14 proofs and a rotating key set; two calls at once over 4 receipts and 2 proofs |
| `receipt_race` (violated) | is VERIFIED withheld when a check failed, whatever is pressed? | 2 calls, 4 receipts, 2 proofs |
| `receipt_own_log` (violated) | is the issuer's own log recognised however its host is written? | 1 call, 2 proofs: a final dot, a port |
| `receipt_answer` (violated) | can a log's answer refuse a receipt? | 1 call, 4 receipts, 14 proofs |
| `offer_page` | is "safe to quote" said exactly when it may be, is a negation never a failure to look, does every call end? | 2 calls (one of each button), 16 payloads, 22 envelopes, 3 pasted texts, 4 documents, rotating key set, 3 instants |
| `offer_letter` (violated) | is "safe to quote" section 7 to the letter: the returned offer always compared, the limits kept to the fraction? | as `offer_page` |
| `implement` | are the documents shown always of one key, does Re-sign keep the key, does every button come back? | 3 calls, 2 hosts, 3 keys |
| `publishing` | does main always show whole renderings? is the documented recipe enough, whose dates does the sitemap carry, does a stamp that moves forward stand for one text? | 2 documents of the specification; 3 edits, stamps and others' pull requests, any number of builds, 2 days, merges and squashes, a `Strict` host |
| `library` | do the libraries and scripts do on every small input what they promise? | below |
| `stayintent_kid` (violated) | is an offer under a kid that the node does not publish refused? | as `library` |
| `tlog_size` (violated) | is the stated tree size the signed one? | as `library` |
| `markdown` (violated) | does the renderer go on at every line? | as `library` |

*What `library` covers.* Inclusion and consistency claims over trees of up to 5
entries, stated sizes to 9, proofs of up to 4 hashes, integers of 4 bits; every
name of up to 3 labels over 8 labels, under 6 rules; a log of 3 entries with 2
archived heads and 2 keys; every way a JWS can be written, under key sets of up to
2 entries; receipts of up to 3 attestations, each good or wrong in one of eleven ways,
at four instants; every fixture at four instants; bundles up to a few alterations
away from the good one; documents of up to 4 lines; sites of up to 3 files, one
rewrite and 2 header rules. It has about 1.1 million states.

*Why the bounds are enough.* Two calls are what interference on the page needs: every
shared variable is written by the call at hand and read by it or by one other, and
`overlapped` tells only whether some other call was there. Each receipt and proof of
the instances differs from a good one in one way, so every branch of `run()` is
taken; the data beyond the few that end in different ways is given to a call that is
alone (`Bounded`), since what another call does to it does not depend on why it
stopped. Trees of five entries have a right edge with one, two and three levels
skipped, and the stated sizes 8 and 9 do not fit 4 signed bits, so the wrap happens.
Three entries and two heads give a first head, a rewrite and a growth. Three labels
hold a wildcard, the exception under it and one label more. The offer page can hold
one call of each button and no more; the three instants lie at the two limits of the
clock allowance and at the moment of expiry of the good offer, and each payload and
envelope is wrong in one way. Three calls of the implementer page are two that
overlap and one to come after. Two entries of a key set show an order, a repeated kid
and a bad entry in front of a good one; three attestations show a bad one before,
between and after. Four lines hold an opened and a closed block with something in
between and after it. The two documents are one that the pack and the sitemap hold,
and may be respaced, and one that they do not, and may be withdrawn or added: what a
stamp stands for changes with the second and with the navigation. Three edits are a
change, its stamp and a pull request of another author between them, or a change, its
reversal and a stamp; two days are the day of a commit and that of its merge, and a
stamp may name either of them from the first day on, so it may move forward, stay or
go back.

`CHECK_DEADLOCK FALSE` is set only in the configurations of `MCLibrary`, where a
behaviour builds one input and ends. Symmetry is used where no liveness is
checked: of artifacts and signing keys in `library`, `stayintent_kid`, `tlog_size` and `markdown`,
of calls in `receipt_race`.

*Fairness.* `receipt_overlap` assumes strong fairness of each call's continuation
and of the load of the lists: every fetch is answered or fails in the end, and
the event loop does not pass over a queued task for ever, though other tasks
(a click, a continuation that is ready) may come first again and again. A press
is the visitor's choice and is never forced. Weak fairness would not do: a
continuation is disabled for a moment each time another call becomes ready.
`offer_page` assumes the same of the steps of each button's call and of the load
of the lists, and nothing of the clock. `implement` assumes weak fairness of the
steps of each call: the browser settles every promise of its cryptography, one way
or the other. `publishing` and `library` assume nothing.

## What the violated runs show

1. `receipt_race`: `checks` is module-level and replaced at line 510 by the
   second press; the first call computes its headline over the second call's
   rows and its failed row is gone. `SoloVerdictIsExact` is the part that does
   hold: a call that had the page to itself is judged on its own rows.
2. `receipt_own_log`: `did:web:villa.com.` and `did:web:log.villa.com%3A8443` are
   admitted, and decode to host strings with a final dot and with a port, which
   `sameOperator` compares as strings with the issuer's domain: the issuer's own log
   then carries VERIFIED. The instance has a log of either kind. `AnchorIsForeign`
   and the theorem `Foreign` are the part that does hold: of hosts that are bare
   names the comparison misses none under the issuer's registrable domain.
3. `receipt_answer`: an audit path that does not decode, or a log identifier with a
   malformed percent escape, throws out of `run()`.
4. `tlog_size`: `inclusion.tree_size` is never compared with the signed head.
   `AnchoredIsRecorded` is the part that holds: the artifact is in the tree.
5. `offer_letter`, which has two causes. `render` tells "a bare JWS" (null) from "an
   envelope without an offer" (undefined), so an endpoint that answers
   `"offer": null` is taken for a bare JWS and neither compared nor warned about. And
   `Date.parse` keeps whole milliseconds, so a lifetime of 900 seconds and half a
   millisecond, which the checker and the specification refuse, passes. TLC reaches
   the first; without the envelope of null in `MCEnvelope` it finds the second.
   `QuoteIsSafe` is the part that holds: any other copy is the signed payload, and
   section 7 holds of payloads in whole milliseconds (`WholeMilliseconds`);
   `QuoteExpiresSoon` holds for all.
6. `stayintent_kid`: `verifyNodeOffer` takes the first key of the set when no entry
   has the header's kid, so an offer under a kid the node does not publish, or has
   withdrawn, verifies. `SelectorsAgree` is the part that holds: `lib/vrp-jws.mjs` and
   the two verifiers of `conformance.mjs` refuse it, and where the kid is listed the
   check adds to the library's answer only what it does not read (an alg, a payload,
   a fourth part).
7. `markdown`: a line that starts with a bar and is not followed by a separator
   ends a paragraph, opens no table and starts a paragraph that takes no line: the
   loop stays where it is for ever. `DocumentsAreKept` is the part that holds, of
   documents whose rounds all advance; the theorem `OnlyBarsStopIt` shows that such a
   line is the only one at which a round does not.

Smaller observations, which no run is about:

- The comment at `verify.html:962` says that nothing is fetched from a name that is
  not host-owned. When the lists cannot be loaded the page does fetch, and says
  that it could not judge the name; `LawBeforePaste` states the rule with that
  exception.
- `implement.html`: a Re-sign pressed while Generate waits for its key makes another
  key under the same kid (`SameKeyMeansSame` is stated without overlap), and what it
  takes for its button's own text may be "Signing...".
- `verify-stayintent.mjs` counts a JWS that does not decode, or a key that does not
  import, as skipped, and there and in `conformance.mjs` a header
  without a kid finds an entry without one. `SelectorsAgree` lists exactly where each
  differs from the library.
- An attestation's `validUntil` is exclusive in the vectors' check, a receipt's
  window inclusive at both ends in the library.
- The three-state fixtures call an availability or a permission "negated" when it
  is merely absent.
- Heading ids: the second of two headings "Setup" and a heading "Setup 1" get the same id.
  `DocumentsAreKept` is stated for names that carry no number; and for plain
  fences, since a fence of tildes or with an info string inside a block of backticks
  turns the link rewriting on or off while the renderer stays in the block, and an
  indented fence inside a list item does while the renderer stays in the list. Text that
  continues a list item comes out before the items nested in it.
- The route check takes a directory for a file and does not refuse routes or
  destinations in `.html`, which Vercel redirects: `StaticImpliesLive` excludes them.
- The sitemap dates a page by its document: a change of the navigation, which is in
  every page, does not show. A squash dates files later than the sitemap it lands
  with (`DatesAreMains`).
- The stamp guard asks for another stamp than the base's and for no more
  (`check-updated-stamp.mjs:108`). An author may write a date that was used before,
  and two pull requests cut from one main on one day pass with one stamp and both
  land where the host does not insist on branches that are up to date; in both cases main
  shows two texts under one date. `ForwardStampNamesOneText` is what holds: on a
  `Strict` host, while main's stamp does not go back.
- On a host that is not `Strict`, `PublishesWhole` and `DatesAreMains` fail as well: CI
  passes on a new document, a change of the navigation lands, and the first is merged
  without another run, so that main has a page without the navigation the others
  carry, which "is read from index.html so the two never drift"
  (`build-pages.mjs:50`). No file of the repository says which setting its host has.
- Whose call the panels show: on the offer page an older answer may replace a newer
  one, and a verdict stays on the panel after `valid_until`; on the implementer page
  the key kept may not be the one shown after two presses at once. All three are in
  the models; no property forbids them, since the pages promise nothing about them.
- `build-pages --check` names the script that removes an orphaned page; the script
  itself does not, which `Swept` in `RecipeIsEnough` stands for.

## Proofs

| module | theorems |
|---|---|
| `HostName_proofs` | `OwnersStable`, `OwnLogCaught` |
| `ReceiptPage_proofs` | `PageInvariant`, `Typing`, `Signed`, `Anchored`, `Foreign`, `OnePanel`, `Retried`, `NeverSetBack` |
| `ReceiptPageOverlap_proofs` | `SoloInvariant`, `SoloExact`, `SoloReference` |
| `MerkleTree_proofs` | `MembersOnly`, `MembersVerify`, `AuditPathDecides`, `AppendsOnly`, `GrowthVerifies`, `ConsistencyProofDecides` |
| `Library_proofs` | `AnchoredWasRecorded`, `RecordedIsAccepted`, `RewriteDetected`, `GrowthIsAccepted` (of the log's behaviours); `MembershipDecided`, `PathDecided`, `AppendsDecided`, `ListIsKept`, `VerifiersAgree`, `EachAttestationCounts`, `SilenceIsUnknown`, `BundleIsPinned`, `StaticIsLive`, `DocumentsKept`, `OnlyBarsStopIt` (of every input) |
| `OfferPage_proofs` | `RulesAgree`, `Horizon`, `Invariant`, `Typing`, `QuotesAreSafe`, `QuotesAreGiven`, `QuotesExpire`, `NeverQuoted`, `LawfulPaste`, `RefusalsAreGrounded`, `Awaited`, `NeverSetBack` |
| `ImplementPage_proofs` | `Invariant`, `Typing`, `OneKey`, `SameKey`, `Held`, `NeverSetBack` |
| `Publishing_proofs` | `Invariant`, `Typing`, `Refinement`, `ForwardText`, `Dates`, `Recipe` |

`ReceiptPage_proofs` proves, for any number of calls, any receipts, proofs, key
sets and suffix rules, that `TypeOK`, `VerdictsAreSigned`,
`VerifiedIsAnchored`, `AnchorIsForeign`, `VerdictAndFactsAgree` and
`ListsAreRetried` are invariants of `Spec`. The properties speak of the headline
and of the call that wrote it; they are not inductive, because when the headline
is written the reasons for it lie several awaits back. `IInv` states those
reasons: at each await, what the call has established so far (`CallOK`: the key
set it holds was served by its issuer, the wrapper's key is in it, then every
attestation's, then the proof is a proof and its log is another's), and that the
call of a final headline has ended (`VerdictOK`), so nothing it established
changes while the headline stands. The proof takes the actions one by one; other
calls are covered by `CallStands`, since a step leaves their locals alone.

`ReceiptPageOverlap_proofs` proves the part of the race that does hold. `SoloInv`
says what the page holds while a call has it to itself: that call is the only one
in flight, the bad rows on the page are exactly those of its own failed checks so
far, and from the digest on the reference is its own (`SoloCall`); and under the
final headline of such a call nothing is in flight (`SoloVerdict`), so its exactness
outlives it. `StepOfCall` is the one lemma about a step: if the call is not alone
there is nothing to show, and if it is, no other call's rows can have changed.

`HostName_proofs` proves, for every list of rules, that the registrable domain
of a name is its own registrable domain (`OwnersStable`) and that the string
comparison of `sameOperator` misses no log on the issuer's registrable domain whose
host is a bare name (`OwnLogCaught`). The first rests on two facts: a rule that matches a name's
owner matches the name, and the prevailing rule of the name still matches the
owner. `Foreign` combines the second with `VerifiedIsAnchored`.

`OfferPage_proofs` first settles the arithmetic: for every instant, stay and
payload, the page's rows and `checkOfferRules` accept the same payloads when no
date-time is finer than a millisecond (`RulesAgree`), and what passes expires
within a lifetime and a clock allowance (`Horizon`). `QuoteIsSafe` is about one
step, `LiveRender`, but its grounds were laid up to four awaits earlier and both
the other call and the lists moved since. `IInv` keeps them: the document's URLs
are the node's, the key set is one the document's host published, the kid is in
it (`LiveKnows`, `PasteKnows`), and what a call took from the lists, a pass or a
failure, is what the lists say (`JudgementsAreLawful`). It is
proved inductive action by action through three lemmas on how a call ends, goes
on, or is woken by the lists (`EndKeeps`, `AwaitKeeps`, `SettleKeeps`).
`QuotedByRender` shows that no other step of either call says "safe to quote";
`QuotedIsLawful` then reads section 7 off the invariant and the verdict. The
converses rest on the same invariant: `LawfulIsQuoted` takes the verdict apart row
by row to show that none of them objects (`QuotesAreGiven`), and
`RefusalIsGrounded` finds, for each way a call may end in a refusal, what it
received that refutes the offer (`RefusalsAreGrounded`).

`ImplementPage_proofs` rests on what each call holds (`CallsHold`: from the first
await on, a key of its own host), which makes the panel one key's whatever calls
overlap, and on `SoloKeys`: without overlap the kept key is the panel's, and the key
of a Generate under way is newer.

`Publishing_proofs` rests on what a `Strict` host guarantees: a branch that lands
holds all of main, so that its base is main and the three-way merge is the branch
itself (`CurrentMerge`), and what CI saw when it passed (`OwnGreen`) is what main
becomes, however long ago it passed (`CurrentIsChecked`). Others' pull requests are
whole because the recipe is (`RegeneratedIsBuilt`). From one landing to the next the
invariant keeps that commits are not dated ahead, that a stage that is fresh has
nothing left to write (`NothingToWrite`), and, while stamps only move forward, that
main's stamp is the latest that was announced (`LatestIsShown`). `Refinement`
(`Spec => PublishesWhole`: the initial trees map to an initial state, what moves main
to a `Publish`, every other step to a stutter), `Dates` and `ForwardText` assume
`Strict`; `Typing` and `Recipe` do not.

`MerkleTree_proofs` is about `lib/vrp-tlog.mjs` for trees of every size and integers of
every width. A recursive function has, for the prover, no equation until it is shown
to have a value: for each of them its approximations below n are built up by induction
(`StrongInduction`, from the well-foundedness of `<`), and one lemma gives the equation
(`SubtreeHashDef`, `InclusionProofDef`, `ConsistencyProofDef`, `InclusionRounds`,
`ConsistencyRounds`, `ShiftOutIs`, `ShiftOddIs`). Then there are three arguments.

1. *What verifies is so* (`MembersOnly`, `AppendsOnly`), whatever index, sizes and
   hashes are stated, those that wrap included. Walking back from the root, the hash
   the loop had before a round is a child of the one it had after it, so each of them
   is the hash of a subtree; a leaf's is an entry. For two trees, the rounds rebuild
   two subtrees that begin alike, and equal hashes have equal entries below them
   (`SameHashSameEntries`).
2. *What is so verifies* (`MembersVerify`, `GrowthVerifies`), for trees of up to
   2^(Width - 1) entries, the most whose last index is not negative after the shift
   (2^31 in JavaScript). The
   induction is over the subtrees, and must say where a subtree lies in the tree:
   `Placed` has its level, its number on that level and the index of the tree's last
   entry; `Climbed` is what index and last index are when the loop has come to its
   root. The difficulty is the right edge, where the loop skips the levels that have no
   right part: a subtree that ends where the tree ends has its root on several levels
   at once, which is the disjunct with `TwoTo[q] * a`. `Descend` places the two parts,
   `InclusionLeft` and `InclusionRight` (`ConsistencyLeft`, `ConsistencyRight`) are the
   rounds that lead up from them, and `InclusionClimb` and `Regrow` the inductions.
3. *Nothing else verifies* (`AuditPathDecides`, `ConsistencyProofDecides`). Where a
   round goes on does not depend on the hashes (`SameMove`), so two accepted lists for
   one index and size are of one length, and one root at the end makes the hashes equal
   all the way down (`SameWalk`). An accepted list is therefore the producer's.

`Library_proofs` uses them for the log. `Held` is the invariant of its behaviours: the
entries and every archived tree are lists of artifact hashes within the bound, no
archived tree is empty, and each was signed with a key of the operator. What an
answer is made of may come from any moments, so `AnchoredWasRecorded` goes from the
signature to an archived head (`ValidHeadIsArchived`) and from its root to the entry
(`MembersOnly`); `RewriteDetected` rests on `AppendsOnly`, and the two converses on
`MembersVerify` and `GrowthVerifies`. Its other theorems are about functions, for every
input that is `InputOK`: key sets, receipts, names, bundles and sites of any length.
They go through a characterisation of each search in a sequence (`FirstNamedProperties`,
`EndOfSearchProperties`) or of the suffixes of a name, and then case by case.
`InputOK` types the inputs and no more; of the bundle it says also that the key of the
negative vector is another one, and of a claim that its tree is within the width, that
an index is below the size it states (the verifier refuses others at once) and that of
two trees the second is the larger (`consistencyProof` throws otherwise).

The renderer's part of `Library_proofs` is one argument in three layers. *A list*:
the two blocks `renderList` goes on with are shorter than the one it has
(`PartsAreShorter`), which gives its equation (`renderListDef`) and an induction over
the length of a block: every line of the block comes out, and once (`ListIsWhole`).
The order is not that of the block, which is why the property leaves it out there.
*A round*: its block takes lines only from the stretch between where it starts and
where it goes on, each once, and every line of the stretch that has text of its own
(`RoundCovers`, by a lemma for each kind of block). *The loop*: the blocks of the first rounds tile the document
up to the line the loop is at (`Tiled`, by induction over rounds in `DocumentTiled`);
when every round advances, as many rounds as there are lines reach the end. With
plain fences the invariant of the tiling says that code is what lies after an odd
number of fences (`OffInCode`), which is how `rewriteLinks` counts
(`RewritingSkipsCode`). Ids: of two headings with one text the later one has the
larger count of earlier ones (`IdsDiffer`).

*What can be proved of termination.* `NeverSetBack`, in the modules of the three
pages, gives every call a number of things it has still to wait for (`Remaining`: at
most ten on the receipt page, six on the offer page, two on the implementer page) and
shows, for any interleaving, that it gets smaller with whatever settles in the call,
an answer or a failure, and never larger by anything else. `Retried` and `Awaited`
add that a call that waits for the lists waits for a load in progress, and `Held`
that Generate is disabled by exactly one call under way. What is left to fairness is
that what is awaited settles, and the conclusion is TLC's.

Assumptions: `RulesAssumption` (rules are sequences of strings, not empty),
`ExceptionsAssumption`, `UnitsAssumption` (a tick, a day and the allowances are
natural numbers), `DataAssumption` (the types of receipts, proofs and key sets,
and of payloads, envelopes, documents and instants), `DistinctAssumption` (the
special values are not ordinary ones), `ImplementAssumption` (the same for the
implementer page), `PathAssumption` (documents, pages and the generated files have
different paths, no page serves two documents, and the model starts from a tree
that holds what the manifest and the routes name); `WidthAssumption` (two bits at
least), `LogAssumption` (the bounds of the log are natural numbers within the width,
its operator's host is a host string, and issuers are names) and
`NoneAssumption` (the parts of an answer are not the absent one); `JwsAssumption`,
`VectorsAssumption`, `CredentialsAssumption` and the `PathAssumption` of
`PublicRoutes` (what does not decode, the absent kid and the absent path are no
ordinary ones, and the vectors' keys and kids are keys and kids).
TLC evaluates each of them in every run of the module that states it. A hash is a term:
the theorems about trees assume that no two terms have one hash, and nothing else.

Only model-checked: that a call, which is never set back, does end
(`EveryPressConcludes`, `EveryCallEnds` of the two other pages): liveness under
fairness and ENABLED are beyond the prover. Every invariant and every action property
of a run that passes is stated by a theorem.

## Not modelled, and why

- Base64url, JSON, UTF-8 and Web Crypto are represented by their outcomes; the
  texts of rows and panels are left out.
- `validate-artifacts.mjs` is a JSON Schema evaluator with tables of examples, and
  `check-license-boundary.mjs` and `verify-node-page.mjs` search for texts: no
  state, no order, no property beyond the tables themselves. The vector generators
  and runners exercise code that is modelled where it is implemented.
- Of `verify-host-domain.mjs`: `checkNodeUrl`, `checkEndpointRefs`,
  `checkServedOffer`, which parse URLs; and the parsing of the two lists.
- Of `verify-stayintent.mjs`: the structural scan of payloads for prices and
  rankings, and the loop over the pointed nodes, which are independent.
- Of the renderer: inline marks, `resolveTarget`, `repoPathToUrl` and `summarize`,
  which are about characters. Of the route check: local Markdown links and the
  comparison of live bodies.
- Integer widths beyond 32 bits matter only for stated tree sizes of 2^31 and more;
  `library` covers the wrap for inclusion, and the consistency loop at a first size
  of 2^32 (which does not end) stays outside the width.
- The two lists are kept for the life of the tab: what changes in them meanwhile is
  not seen, by design.
- Static pages, the specification, schemas and examples: documents and data, which
  the properties quote where the code is held against them.

## Plan

1. An abstract verifier that says only what each headline promises, with
   `ReceiptPage` and `OfferPage` shown to implement it.
2. What becomes of a "safe to quote" that stays on the panel while its offer expires
   or the form changes; a host that rotates its keys composed with both pages.
3. `checkNodeUrl` and `checkEndpointRefs` over URLs as records; the StayIntent scan
   over payloads as trees.
