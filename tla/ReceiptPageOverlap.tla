------------------------- MODULE ReceiptPageOverlap -------------------------
(***************************************************************************)
(* ReceiptPage with a history variable: which calls of run() shared the    *)
(* page with another call.  The page resets `checks` when a call starts,   *)
(* and reads it when a call ends, so what a headline is worth depends on   *)
(* whether a second call started in between.                               *)
(***************************************************************************)
EXTENDS ReceiptPage

VARIABLE overlapped   \* the calls whose time on the page met another call's

hvars == <<vars, overlapped>>

HInit == Init /\ overlapped = {}

InFlight == {r \in Run : pc[r] # "idle"}

HPress(r, p) ==
  /\ Press(r, p)
  /\ overlapped' = IF InFlight = {} THEN overlapped \ {r}
                   ELSE overlapped \cup InFlight \cup {r}

HNext ==
  \/ \E r \in Run, p \in Receipt \cup {Malformed} : HPress(r, p)
  \/ (ListsLoad \/ ListsFail) /\ UNCHANGED overlapped
  \/ (\E r \in Run : Continue(r)) /\ UNCHANGED overlapped

HSpec == HInit /\ [][HNext]_hvars

HFairSpec == HSpec /\ Fairness

-----------------------------------------------------------------------------
\* Every check of the page that does not stop the call holds of the receipt: what
\* it says of itself names its issuer, and each attestation is signed.
EveryCheckHolds(p) ==
  /\ p.node \in {NoName, p.domain}
  /\ p.did \in {NoName, p.domain}
  /\ p.atts # <<>> /\ \A i \in DOMAIN p.atts : p.atts[i].signed

\* The verdict of a call that had the page to itself is exact: it says NOT
\* VERIFIED, after all signatures verified, exactly when one of the other checks
\* of that receipt failed.  Rows of earlier calls do not leak into it.
SoloVerdictIsExact ==
  verdict.kind \in FinalKind /\ verdict.run \notin overlapped =>
    (verdict.kind # "failed" <=> EveryCheckHolds(paste[verdict.run]))

\* The confirmation reference under the verdict of such a call is its own.
SoloReferenceIsItsOwn ==
  verdict.kind \in FinalKind /\ verdict.run \notin overlapped =>
    refbox = verdict.run

\* No answer of a log refuses a receipt: once the reference is recomputed every
\* signature has verified, and "Log inclusion MUST NOT be a precondition for
\* verification" (spec/transparency-log-v0.1.md:67).  A proof whose path or whose log
\* identifier does not decode throws, and the catch block heads the receipt NOT
\* VERIFIED.
NoLogAnswerRefuses ==
  verdict.kind = "stopped" /\ verdict.run \notin overlapped =>
    refbox # verdict.run

\* The claim the page makes without that restriction: no receipt is headed
\* VERIFIED when one of its checks failed ("NOT VERIFIED - one or more checks
\* failed. Do not rely on this receipt.", verify-receipt.html:707).  A second press
\* empties `checks` under the first call, and its failed row with it.
VerifiedMeansEveryCheckHeld ==
  verdict.kind = "verified" => EveryCheckHolds(paste[verdict.run])

-----------------------------------------------------------------------------
HasBadRow == \E row \in checks : row.state = "bad"

\* What the page holds while a call has it to itself: no other call is in flight, the
\* bad rows are those of this receipt's own checks so far, the reference is its own.
SoloCall(r) ==
  r \in InFlight \ overlapped =>
    /\ InFlight = {r}
    /\ pc[r] \notin WithSignature => ~HasBadRow
    /\ pc[r] = "attestations" => (HasBadRow <=> ClaimRows(r, paste[r]) # {})
    /\ pc[r] \in WithAttestations => (HasBadRow <=> ~EveryCheckHolds(paste[r]))
    /\ pc[r] \in WithAttestations \ {"digest"} => refbox = r

\* And under the final headline of such a call nothing is in flight, so nothing
\* writes to the page until the next press rewrites the headline.
SoloVerdict ==
  verdict.kind \in FinalKind /\ verdict.run \notin overlapped => InFlight = {}

\* The inductive invariant behind the two.
SoloInv ==
  /\ \A r \in Run : SoloCall(r)
  /\ SoloVerdict /\ SoloVerdictIsExact /\ SoloReferenceIsItsOwn
=============================================================================
