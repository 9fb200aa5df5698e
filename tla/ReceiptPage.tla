---------------------------- MODULE ReceiptPage ----------------------------
(***************************************************************************)
(* verify-receipt.html: the page that verifies a pasted booking receipt.   *)
(*                                                                         *)
(* run() is an async function.  Each stretch of it between two awaits is   *)
(* one action here, and the browser may run the stretches of two calls in  *)
(* any order: the button stays enabled, so a second press starts a second  *)
(* call while the first one is waiting for the network.  The calls share   *)
(* the page: the module-level array `checks`, the cached promise           *)
(* `listsPromise`, and the elements they write to.                         *)
(*                                                                         *)
(* Signatures are symbolic: a JWS is signed by the key that signed it, or  *)
(* by NoKey when no published key verifies it.  What the network answers   *)
(* is chosen by the environment.                                           *)
(***************************************************************************)
EXTENDS HostName

CONSTANTS
  Run,        \* calls of run() that may be in flight at the same time
  NoOne,      \* no call: what an empty element shows
  Domain,     \* issuer domains and log hosts, as sequences of labels
  Key,        \* published keys
  NoKey,      \* signer of a JWS that no published key verifies
  NoName,     \* an absent name
  OtherId,    \* an issuer identifier that is not a did:web
  Malformed,  \* what does not decode: a paste (or one that names no issuer
              \* domain), a did:web identifier, a path of a proof
  Receipt,    \* the receipts that may be pasted
  Proof,      \* the answers to a proof request
  NoProof,    \* no answer, or one that is not a proof
  Served      \* Served[d]: the key sets the host d publishes, over time

\* A receipt: its issuer domain, the key that signed the wrapper, the node its
\* subject names, the host of its did:web identifier (Malformed when a percent
\* escape in it does not decode), and for each attestation whether it carries a
\* signature and by which key.
ReceiptType ==
  [domain : Domain, key : Key \cup {NoKey}, node : Domain \cup {NoName},
   did : Domain \cup {NoName, OtherId, Malformed},
   atts : Seq([signed : BOOLEAN, key : Key \cup {NoKey}])]

\* A proof: whether it has an inclusion part and a tree head, the receipt its
\* audit path leads to, the log the head names (did:web or not, and Malformed when
\* a percent escape in its identifier does not decode), the key that signed the
\* head (if a signature is there), and whether the signed payload repeats root_hash,
\* tree_size and log_id of the head.  The path of a leaf NoProof leads nowhere; that
\* of a leaf Malformed holds something that is not base64url.
ProofType ==
  [inclusion : BOOLEAN, head : BOOLEAN, leaf : Receipt \cup {NoProof, Malformed},
   log : [name : Domain, dot : BOOLEAN, port : BOOLEAN] \cup {Malformed},
   didWeb : BOOLEAN,
   signed : BOOLEAN, key : Key \cup {NoKey}, matches : BOOLEAN]

ASSUME DataAssumption ==
  /\ Domain \subseteq Seq(STRING)
  /\ Receipt \subseteq ReceiptType
  /\ Proof \subseteq ProofType
  /\ Served \in [Domain -> SUBSET (SUBSET Key)]

ASSUME DistinctAssumption ==
  /\ NoOne \notin Run
  /\ NoKey \notin Key
  /\ NoName \notin Domain /\ OtherId \notin Domain /\ NoName # OtherId
  /\ Malformed \notin Receipt /\ Malformed \notin Domain \cup {NoName, OtherId}
  /\ NoProof \notin Proof /\ NoProof \notin Receipt \cup {Malformed}

VARIABLES
  lists,      \* listsPromise: "null", "pending", "fulfilled" or "rejected"
  checks,     \* the rows of `checks`, each with the call that added it
  verdict,    \* the headline: its kind, and the call that wrote it
  facts,      \* the call whose facts the facts panel shows
  refbox,     \* the call whose confirmation reference is shown
  pc,         \* where each call stands: the await it is waiting in
  paste,      \* the text each call read from the paste box
  own,        \* hostOwned's state in each call
  jwks,       \* the issuer's key set each call fetched
  proof,      \* the proof each call found
  inclusionOk \* whether that proof recomputed

locals == <<paste, own, jwks, proof, inclusionOk>>
page   == <<checks, verdict, facts, refbox>>
vars   == <<lists, page, pc, locals>>

Steps == {"idle", "lists", "resumed", "keys", "signature", "attestations",
          "digest", "proxy", "fallback", "inclusion", "head"}

RowUnmapped(r, label, state) ==   \* mutant: the class of a null state, as it is
  [run |-> r, label |-> label, state |-> IF state = "skip" THEN "null" ELSE state]

Row(r, label, state) == [run |-> r, label |-> label, state |-> state]

\* How the page can be headed.  The first four are the verdicts of a call that
\* ran to its end; "stopped" is a call that threw, "halted" one that threw an
\* error marked unknown.
FinalKind   == {"verified", "signed", "unknown", "failed"}
VerdictKind == FinalKind \cup {"blank", "verifying", "stopped", "halted"}

Init ==
  /\ lists = "null"
  /\ checks = {}
  /\ verdict = [kind |-> "blank", run |-> NoOne]
  /\ facts = NoOne
  /\ refbox = NoOne
  /\ pc = [r \in Run |-> "idle"]
  /\ paste = [r \in Run |-> Malformed]
  /\ own = [r \in Run |-> "none"]
  /\ jwks = [r \in Run |-> {}]
  /\ proof = [r \in Run |-> NoProof]
  /\ inclusionOk = [r \in Run |-> FALSE]

-----------------------------------------------------------------------------
\* A continuation that is ready runs before the browser handles the next click
\* or network answer (the microtask checkpoint).
Checkpoint == \A r \in Run : pc[r] # "resumed"

Goto(r, step) == pc' = [pc EXCEPT ![r] = step]

verifyJwsUnchecked(key, set) == set # {}   \* mutant: the result is not awaited

\* verifyJws: some key of the set, under the kid the header names, verifies it.
verifyJws(key, set) == key \in set

\* The catch block of run(): one more row, and the headline.
Stop(r, rows, kind) ==
  /\ checks' = checks \cup rows \cup
       {Row(r, "stopped", IF kind = "halted" THEN "skip" ELSE "bad")}
  /\ verdict' = [kind |-> kind, run |-> r]
  /\ Goto(r, "idle")
  /\ UNCHANGED <<facts, refbox>>

\* What hostOwned returns for p once the lists are settled.
OwnState(p) == IF HostOwned(p.domain) THEN "pass" ELSE "fail"

StaleChecks == checks   \* mutant: line 510 is missing

\* checks = []: the rows a call starts from.
FreshChecks == {}

\* run() up to its first await.  The page is cleared, the paste box is read and
\* decoded, and hostOwned is called: it judges the labels first, and asks for the
\* lists, starting a load when none is cached, only for a well-formed name.
Press(r, p) ==
  /\ pc[r] = "idle"
  /\ Checkpoint
  /\ paste' = [paste EXCEPT ![r] = p]
  /\ facts' = NoOne
  /\ refbox' = NoOne
  /\ jwks' = [jwks EXCEPT ![r] = {}]
  /\ proof' = [proof EXCEPT ![r] = NoProof]
  /\ inclusionOk' = [inclusionOk EXCEPT ![r] = FALSE]
  /\ \/ /\ p = Malformed
        /\ checks' = FreshChecks \cup {Row(r, "stopped", "bad")}
        /\ verdict' = [kind |-> "stopped", run |-> r]
        /\ own' = [own EXCEPT ![r] = "none"]
        /\ UNCHANGED <<pc, lists>>
     \/ /\ p # Malformed
        /\ checks' = FreshChecks
        /\ verdict' = [kind |-> "verifying", run |-> r]
        /\ \/ /\ ~WellFormedName(p.domain)
              /\ own' = [own EXCEPT ![r] = "fail"]
              /\ Goto(r, "resumed")
              /\ UNCHANGED lists
           \/ /\ WellFormedName(p.domain) /\ lists \in {"null", "pending"}
              /\ lists' = "pending"
              /\ own' = [own EXCEPT ![r] = "none"]
              /\ Goto(r, "lists")
           \/ /\ WellFormedName(p.domain) /\ lists \in {"fulfilled", "rejected"}
              /\ own' = [own EXCEPT ![r] =
                           IF lists = "fulfilled" THEN OwnState(p) ELSE "unknown"]
              /\ Goto(r, "resumed")
              /\ UNCHANGED lists

\* The two lists arrive and parse: every call waiting for them resumes.
ListsLoad ==
  /\ lists = "pending"
  /\ Checkpoint
  /\ lists' = "fulfilled"
  /\ own' = [r \in Run |-> IF pc[r] = "lists" THEN OwnState(paste[r]) ELSE own[r]]
  /\ pc' = [r \in Run |-> IF pc[r] = "lists" THEN "resumed" ELSE pc[r]]
  /\ UNCHANGED <<page, paste, jwks, proof, inclusionOk>>

\* Mutant: no catch empties the cache.
ListsFailCached ==
  /\ lists = "pending"
  /\ Checkpoint
  /\ lists' = "rejected"
  /\ own' = [r \in Run |-> IF pc[r] = "lists" THEN "unknown" ELSE own[r]]
  /\ pc' = [r \in Run |-> IF pc[r] = "lists" THEN "resumed" ELSE pc[r]]
  /\ UNCHANGED <<page, paste, jwks, proof, inclusionOk>>

\* Mutant: hostOwned does not catch the rejection of the load it waits for.
ListsFailUncaught ==
  /\ lists = "pending"
  /\ Checkpoint
  /\ lists' = "null"
  /\ UNCHANGED <<page, pc, locals>>

\* A list does not arrive: the cache is emptied before any waiting call resumes,
\* so the next press loads again.
ListsFail ==
  /\ lists = "pending"
  /\ Checkpoint
  /\ lists' = "null"
  /\ own' = [r \in Run |-> IF pc[r] = "lists" THEN "unknown" ELSE own[r]]
  /\ pc' = [r \in Run |-> IF pc[r] = "lists" THEN "resumed" ELSE pc[r]]
  /\ UNCHANGED <<page, paste, jwks, proof, inclusionOk>>

-----------------------------------------------------------------------------
\* After `await hostOwned`: a domain that is not host-owned stops the call.
Resume(r) ==
  /\ pc[r] = "resumed"
  /\ UNCHANGED <<lists, locals>>
  /\ \/ own[r] = "fail" /\ Stop(r, {}, "stopped")
     \/ /\ own[r] # "fail"
        /\ checks' = checks \cup
             {Row(r, "owned", IF own[r] = "pass" THEN "ok" ELSE "skip")}
        /\ Goto(r, "keys")
        /\ UNCHANGED <<verdict, facts, refbox>>

\* The issuer's jwks.json answers with a redirect, not at all (or not with JSON),
\* or with one of the key sets the issuer publishes.
FetchKeys(r) ==
  /\ pc[r] = "keys"
  /\ Checkpoint
  /\ UNCHANGED <<lists, paste, own, proof, inclusionOk>>
  /\ \/ Stop(r, {}, "halted") /\ UNCHANGED jwks
     \/ Stop(r, {Row(r, "keys", "bad")}, "stopped") /\ UNCHANGED jwks
     \/ /\ \E set \in Served[paste[r].domain] : jwks' = [jwks EXCEPT ![r] = set]
        /\ checks' = checks \cup {Row(r, "keys", "ok")}
        /\ Goto(r, "signature")
        /\ UNCHANGED <<verdict, facts, refbox>>

ClaimRowsNodeOnly(r, p) ==   \* mutant: the issuer identifier is not compared
  {Row(r, "node", "bad") : x \in {y \in {p.node} : y \notin {NoName, p.domain}}}

\* The rows for what the receipt says of itself: the node its subject names and
\* the identifier of its issuer must name the domain that signed it.
ClaimRows(r, p) ==
  {Row(r, label, "bad") : label \in
     {l \in {"node", "did"} :
        \/ l = "node" /\ p.node \notin {NoName, p.domain}
        \/ l = "did"  /\ p.did \notin {NoName, p.domain}}}

\* The wrapper signature.  An issuer identifier that does not decode throws when
\* it is compared, after the row of the node.
VerifySignature(r) ==
  /\ pc[r] = "signature"
  /\ Checkpoint
  /\ UNCHANGED <<lists, locals>>
  /\ LET p   == paste[r]
         row == Row(r, "signature", "ok")
     IN  \/ ~verifyJws(p.key, jwks[r]) /\ Stop(r, {}, "stopped")
         \/ /\ verifyJws(p.key, jwks[r])
            /\ p.did = Malformed
            /\ Stop(r, {row} \cup {c \in ClaimRows(r, p) : c.label = "node"}, "stopped")
         \/ /\ verifyJws(p.key, jwks[r])
            /\ p.did # Malformed
            /\ checks' = checks \cup {row} \cup ClaimRows(r, p)
            /\ Goto(r, "attestations")
            /\ UNCHANGED <<verdict, facts, refbox>>

\* The loop over the attestations: one that carries a signature must verify; one
\* that carries none is not counted, and then the count falls short.
VerifyAttestations(r) ==
  /\ pc[r] = "attestations"
  /\ Checkpoint
  /\ UNCHANGED <<lists, locals>>
  /\ LET atts == ToSet(paste[r].atts)
     IN  \/ /\ \E a \in atts : a.signed /\ ~verifyJws(a.key, jwks[r])
            /\ Stop(r, {}, "stopped")
         \/ /\ \A a \in atts : a.signed => verifyJws(a.key, jwks[r])
            /\ checks' = checks \cup
                 {Row(r, "attestations",
                      IF atts # {} /\ (\A a \in atts : a.signed) THEN "ok" ELSE "bad")}
            /\ Goto(r, "digest")
            /\ UNCHANGED <<verdict, facts, refbox>>

\* Mutant: the reference box is left as it was.
DigestUnshown(r) ==
  /\ pc[r] = "digest"
  /\ Checkpoint
  /\ checks' = checks \cup {Row(r, "reference", "ok")}
  /\ Goto(r, "proxy")
  /\ UNCHANGED <<lists, verdict, facts, refbox, locals>>

\* The confirmation reference is the digest of the exact receipt bytes.
Digest(r) ==
  /\ pc[r] = "digest"
  /\ Checkpoint
  /\ refbox' = r
  /\ checks' = checks \cup {Row(r, "reference", "ok")}
  /\ Goto(r, "proxy")
  /\ UNCHANGED <<lists, verdict, facts, locals>>

-----------------------------------------------------------------------------
\* The headline of a call that reached its end with `best` to say: a failed row
\* rules out every other verdict, an unknown host-owned state the ones that rely
\* on the domain.
Headline(rows, ownState, best) ==
  IF \E row \in rows : row.state = "bad" THEN "failed"
  ELSE IF ownState # "pass" THEN "unknown" ELSE best

\* Mutant: a failed receipt does not rewrite the facts panel.
ConcludeQuietly(r, rows, best) ==
  /\ checks' = checks \cup rows
  /\ verdict' = [run |-> r, kind |-> Headline(checks', own[r], best)]
  /\ facts' = IF verdict'.kind = "failed" THEN facts ELSE r
  /\ Goto(r, "idle")
  /\ UNCHANGED refbox

\* The end of run(): the facts panel and the headline, over the rows that are in
\* `checks` at that moment.
Conclude(r, rows, best) ==
  /\ checks' = checks \cup rows
  /\ facts' = r
  /\ verdict' = [run |-> r, kind |-> Headline(checks', own[r], best)]
  /\ Goto(r, "idle")
  /\ UNCHANGED refbox

HasInclusion(answer) == answer # NoProof /\ answer.inclusion
IsUsable(answer)     == answer # NoProof /\ answer.inclusion /\ answer.head

\* With the answers in: verify the inclusion proof, or conclude without one.
AfterAnswers(r, answer) ==
  \/ IsUsable(answer) /\ Goto(r, "inclusion") /\ UNCHANGED page
  \/ ~IsUsable(answer) /\ Conclude(r, {Row(r, "inclusion", "skip")}, "signed")

\* The issuer's own read-through proxy is asked first.
AskProxy(r) ==
  /\ pc[r] = "proxy"
  /\ Checkpoint
  /\ UNCHANGED <<lists, paste, own, jwks, inclusionOk>>
  /\ \E answer \in Proof \cup {NoProof} :
       /\ proof' = [proof EXCEPT ![r] = answer]
       /\ \/ ~HasInclusion(answer) /\ Goto(r, "fallback") /\ UNCHANGED page
          \/ HasInclusion(answer) /\ AfterAnswers(r, answer)

\* Then a public log; when it has no answer, what the proxy said stands.
AskFallback(r) ==
  /\ pc[r] = "fallback"
  /\ Checkpoint
  /\ UNCHANGED <<lists, paste, own, jwks, inclusionOk>>
  /\ \E answer \in Proof \cup {NoProof, proof[r]} :
       /\ proof' = [proof EXCEPT ![r] = answer]
       /\ AfterAnswers(r, answer)

verifyInclusionRootless(pr, p) == TRUE   \* mutant: the root is not compared

\* verifyInclusion: the audit path leads from this receipt to the tree head.
verifyInclusion(pr, p) == pr.leaf = p

\* The inclusion proof.  A path that does not decode throws, and so does, once the
\* proof is recomputed, a log identifier that does not.  Without a signature, a
\* did:web log, or an independent operator there is nothing more to fetch.
CheckInclusion(r) ==
  /\ pc[r] = "inclusion"
  /\ Checkpoint
  /\ UNCHANGED <<lists, paste, own, jwks, proof>>
  /\ LET pr  == proof[r]
         ok  == verifyInclusion(pr, paste[r])
         row == Row(r, "inclusion", IF ok THEN "ok" ELSE "skip")
     IN  \/ pr.leaf = Malformed /\ Stop(r, {}, "stopped") /\ UNCHANGED inclusionOk
         \/ /\ pr.leaf # Malformed
            /\ inclusionOk' = [inclusionOk EXCEPT ![r] = ok]
            /\ \/ pr.log = Malformed /\ Stop(r, {row}, "stopped")
               \/ /\ pr.log # Malformed
                  /\ pr.signed /\ pr.didWeb
                  /\ ~sameOperator(pr.log, paste[r].domain)
                  /\ checks' = checks \cup {row}
                  /\ Goto(r, "head")
                  /\ UNCHANGED <<verdict, facts, refbox>>
               \/ /\ pr.log # Malformed
                  /\ \/ ~pr.signed \/ ~pr.didWeb
                     \/ sameOperator(pr.log, paste[r].domain)
                  /\ Conclude(r, {row, Row(r, "head", "skip")}, "signed")

\* The operator's DID document arrives or not, and the tree head's signature is
\* verified against a key it publishes.
CheckHead(r) ==
  /\ pc[r] = "head"
  /\ Checkpoint
  /\ UNCHANGED <<lists, locals>>
  /\ \E set \in Served[proof[r].log.name] \cup {{}} :
       LET sthVerified == verifyJws(proof[r].key, set) /\ proof[r].matches
       IN  Conclude(r, {Row(r, "head", IF sthVerified THEN "ok" ELSE "skip")},
                    IF inclusionOk[r] /\ sthVerified THEN "verified" ELSE "signed")

-----------------------------------------------------------------------------
\* The continuations of one call.
Continue(r) ==
  \/ Resume(r) \/ FetchKeys(r) \/ VerifySignature(r) \/ VerifyAttestations(r)
  \/ Digest(r) \/ AskProxy(r) \/ AskFallback(r) \/ CheckInclusion(r) \/ CheckHead(r)

Next ==
  \/ \E r \in Run, p \in Receipt \cup {Malformed} : Press(r, p)
  \/ ListsLoad
  \/ ListsFail
  \/ \E r \in Run : Continue(r)

Spec == Init /\ [][Next]_vars

\* Every fetch is answered or fails, and a queued task is not passed over for
\* ever, though a checkpoint may delay it again and again: hence strong fairness.
\* A press is the visitor's choice and is never forced.
Fairness ==
  /\ SF_vars(ListsLoad \/ ListsFail)
  /\ \A r \in Run : SF_vars(Continue(r))

FairSpec == Spec /\ Fairness
-----------------------------------------------------------------------------
Labels == {"owned", "keys", "signature", "node", "did", "attestations",
           "reference", "inclusion", "head", "stopped"}

RowType == [run : Run, label : Labels, state : {"ok", "bad", "skip"}]

VerdictType == [kind : VerdictKind, run : Run \cup {NoOne}]

\* A call in flight has decoded its receipt.
InFlightDecoded == \A r \in Run : pc[r] # "idle" => paste[r] \in Receipt

TypeOK ==
  /\ lists \in {"null", "pending", "fulfilled", "rejected"}
  /\ checks \subseteq RowType
  /\ verdict \in VerdictType
  /\ facts \in Run \cup {NoOne}
  /\ refbox \in Run \cup {NoOne}
  /\ pc \in [Run -> Steps]
  /\ paste \in [Run -> Receipt \cup {Malformed}]
  /\ InFlightDecoded
  /\ own \in [Run -> {"none", "pass", "fail", "unknown"}]
  /\ jwks \in [Run -> SUBSET Key]
  /\ proof \in [Run -> Proof \cup {NoProof}]
  /\ inclusionOk \in [Run -> BOOLEAN]

\* One key set the issuer published verifies the wrapper and every attestation
\* that carries a signature.
Genuine(p) ==
  \E set \in Served[p.domain] :
    /\ p.key \in set
    /\ \A i \in DOMAIN p.atts : p.atts[i].signed => p.atts[i].key \in set

\* A headline that speaks of a signature (all four verdicts of a finished call)
\* is only ever shown for a receipt that its issuer signed: whatever the calls in
\* flight do to the shared page, no forged wrapper and no forged attestation gets
\* past the throws of verifyJws.
VerdictsAreSigned ==
  verdict.kind \in FinalKind =>
    paste[verdict.run] \in Receipt /\ Genuine(paste[verdict.run])

\* What makes a proof an anchor for a receipt (transparency-log section 5.1): it
\* leads to the tree head, the head is signed with a key its log publishes, and
\* sameOperator does not take that log for the issuer's own.
Anchors(pr, p) ==
  /\ pr.leaf = p
  /\ pr.didWeb /\ pr.log # Malformed /\ ~sameOperator(pr.log, p.domain)
  /\ pr.signed /\ pr.matches
  /\ \E set \in Served[pr.log.name] : pr.key \in set

\* VERIFIED is shown only for a receipt whose issuer the loaded lists accept and
\* whose fingerprint is in a log that the same answer names, signed by that log,
\* and that the page's own comparison takes for another operator's.
VerifiedIsAnchored ==
  verdict.kind = "verified" =>
    LET r == verdict.run
    IN  /\ HostOwned(paste[r].domain)
        /\ proof[r] \in Proof /\ Anchors(proof[r], paste[r])

\* The independence VERIFIED stands for, as far as the comparison of strings goes:
\* a log whose identifier writes the bare name of its host, without a final dot and
\* without a port, is not on the issuer's own registrable domain, by the list that
\* says where one owner's names end.
AnchorIsForeign ==
  verdict.kind = "verified" =>
    LET r == verdict.run
    IN  ~proof[r].log.dot /\ ~proof[r].log.port =>
          registrableDomain(proof[r].log.name) # paste[r].domain

\* The same however the identifier writes that host: "The issuing property must not
\* be its own anchor" (verify-receipt.html:472-473).  A final dot or a port makes
\* the page take the issuer's own log for another's.
AnchorIsForeignHoweverWritten ==
  verdict.kind = "verified" =>
    registrableDomain(proof[verdict.run].log.name) # paste[verdict.run].domain

\* A verdict and the facts panel below it are of the same receipt, however many
\* calls were in flight: the two are written in one stretch of run().
VerdictAndFactsAgree ==
  verdict.kind \in FinalKind => facts = verdict.run

\* A call that waits for the lists waits for a load in progress, and a failed load
\* is never what a later press finds in the cache.
ListsAreRetried ==
  /\ lists # "rejected"
  /\ \A r \in Run : pc[r] = "lists" => lists = "pending"

\* Every call of run() ends: no press leaves the page at "Verifying" for ever.
EveryPressConcludes ==
  \A r \in Run : pc[r] # "idle" ~> pc[r] = "idle"

-----------------------------------------------------------------------------
\* What a call in flight has established by the time it waits in each await: the
\* inductive invariant behind VerdictsAreSigned and VerifiedIsAnchored.
WithProof        == {"inclusion", "head"}
WithAttestations == {"digest", "proxy", "fallback"} \cup WithProof
WithSignature    == {"attestations"} \cup WithAttestations
WithKeys         == {"signature"} \cup WithSignature

CallOK(r) ==
  /\ pc[r] # "idle" /\ own[r] = "pass" => HostOwned(paste[r].domain)
  /\ pc[r] \in WithKeys => jwks[r] \in Served[paste[r].domain]
  /\ pc[r] \in WithSignature => paste[r].key \in jwks[r]
  /\ pc[r] \in WithAttestations =>
       \A i \in DOMAIN paste[r].atts :
          paste[r].atts[i].signed => paste[r].atts[i].key \in jwks[r]
  /\ pc[r] \in WithProof => proof[r] \in Proof
  /\ pc[r] = "head" =>
       /\ proof[r].signed /\ proof[r].didWeb /\ proof[r].log # Malformed
       /\ ~sameOperator(proof[r].log, paste[r].domain)
       /\ inclusionOk[r] => proof[r].leaf = paste[r]

\* The call a verdict is of has ended, so nothing it established changes while
\* the verdict stands.
VerdictOK ==
  /\ verdict.kind \in FinalKind => verdict.run \in Run /\ pc[verdict.run] = "idle"
  /\ VerdictsAreSigned /\ VerifiedIsAnchored /\ VerdictAndFactsAgree

IInv == ListsAreRetried /\ (\A r \in Run : CallOK(r)) /\ VerdictOK
=============================================================================
