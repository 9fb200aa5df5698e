------------------------- MODULE ReceiptPage_proofs -------------------------
(***************************************************************************)
(* The receipt page for every number of calls, every set of receipts,      *)
(* every proof and every key set: type correctness, what a headline is     *)
(* worth however the calls interleave, and that no call is ever set back.  *)
(***************************************************************************)
EXTENDS ReceiptPage, HostName_proofs, TLAPS

\* A finished call is headed with one of the four verdicts; VERIFIED takes a pass
\* of the host-owned check.
LEMMA HeadlineKind ==
  ASSUME NEW rows, NEW ownState, NEW best \in {"verified", "signed"}
  PROVE  /\ Headline(rows, ownState, best) \in FinalKind
         /\ Headline(rows, ownState, best) \in VerdictKind
         /\ Headline(rows, ownState, best) = "verified" =>
              ownState = "pass" /\ best = "verified"
BY DEF Headline, FinalKind, VerdictKind

LEMMA RowTyped ==
  ASSUME NEW r \in Run, NEW label \in Labels, NEW state \in {"ok", "bad", "skip"}
  PROVE  Row(r, label, state) \in RowType
BY DEF Row, RowType

LEMMA KeySets ==
  ASSUME NEW d, NEW set \in Served[d]
  PROVE  d \in Domain => set \in SUBSET Key
BY DataAssumption

LEMMA HeadlineTyped ==
  ASSUME NEW r \in Run, NEW kind \in VerdictKind
  PROVE  [kind |-> kind, run |-> r] \in VerdictType
BY DEF VerdictType

\* The page's variables keep their types: rows are added by calls in flight, and
\* every call's locals stay within the receipts, key sets and proofs there are.
THEOREM Typing == Spec => []TypeOK
<1>1. Init => TypeOK
  BY DEF Init, TypeOK, InFlightDecoded, VerdictType, VerdictKind, Steps
<1>2. TypeOK /\ [Next]_vars => TypeOK'
  <2> SUFFICES ASSUME TypeOK, [Next]_vars PROVE TypeOK'
    OBVIOUS
  <2>1. ASSUME NEW r \in Run, NEW p \in Receipt \cup {Malformed}, Press(r, p)
        PROVE  TypeOK'
    <3>1. /\ paste' = [paste EXCEPT ![r] = p]
          /\ facts' = NoOne /\ refbox' = NoOne
          /\ jwks' = [jwks EXCEPT ![r] = {}]
          /\ proof' = [proof EXCEPT ![r] = NoProof]
          /\ inclusionOk' = [inclusionOk EXCEPT ![r] = FALSE]
      BY <2>1 DEF FreshChecks, Press
    <3>2. checks' \subseteq RowType
      BY <2>1, RowTyped DEF FreshChecks, Labels, Press
    <3>3. verdict' \in VerdictType
      BY <2>1, HeadlineTyped DEF FreshChecks, Press, VerdictKind
    <3>4. lists' \in {lists, "pending"}
      BY <2>1 DEF FreshChecks, Press
    <3>5. pc' \in [Run -> Steps]
      BY <2>1 DEF FreshChecks, Press, Goto, TypeOK, Steps
    <3>6. own' \in [Run -> {"none", "pass", "fail", "unknown"}]
      BY <2>1 DEF FreshChecks, Press, OwnState, TypeOK
    <3>7. InFlightDecoded'
      BY <2>1 DEF FreshChecks, Press, Goto, TypeOK, InFlightDecoded
    <3>8. QED
      BY <3>1, <3>2, <3>3, <3>4, <3>5, <3>6, <3>7 DEF TypeOK
  <2>2. CASE ListsLoad
    BY <2>2 DEF ListsLoad, OwnState, page, TypeOK, InFlightDecoded, Steps
  <2>3. CASE ListsFail
    BY <2>3 DEF ListsFail, page, TypeOK, InFlightDecoded, Steps
  <2>4. ASSUME NEW r \in Run, Resume(r) PROVE TypeOK'
    <3>1. checks' \subseteq RowType
      BY <2>4, RowTyped DEF Labels, Resume, Stop, locals, TypeOK
    <3>2. verdict' \in VerdictType
      BY <2>4, HeadlineTyped DEF Resume, Stop, locals, VerdictKind, TypeOK
    <3>3. pc' \in [Run -> Steps]
      BY <2>4 DEF Resume, Stop, locals, Goto, TypeOK, Steps
    <3>4. InFlightDecoded'
      BY <2>4 DEF Resume, Stop, locals, Goto, TypeOK, InFlightDecoded
    <3>5. QED
      BY <2>4, <3>1, <3>2, <3>3, <3>4 DEF Resume, Stop, locals, TypeOK
  <2>5. ASSUME NEW r \in Run, FetchKeys(r) PROVE TypeOK'
    <3>1. checks' \subseteq RowType
      BY <2>5, RowTyped DEF Labels, FetchKeys, Stop, TypeOK
    <3>2. verdict' \in VerdictType
      BY <2>5, HeadlineTyped DEF FetchKeys, Stop, VerdictKind, TypeOK
    <3>3. pc' \in [Run -> Steps]
      BY <2>5 DEF FetchKeys, Stop, Goto, TypeOK, Steps
    <3>4. jwks' \in [Run -> SUBSET Key]
      <4>1. CASE jwks' = jwks
        BY <4>1 DEF TypeOK
      <4>2. ASSUME NEW set \in Served[paste[r].domain],
                   jwks' = [jwks EXCEPT ![r] = set]
            PROVE  jwks' \in [Run -> SUBSET Key]
        <5>1. paste[r].domain \in Domain
          BY <2>5, DataAssumption DEF FetchKeys, TypeOK, InFlightDecoded, ReceiptType
        <5>2. QED
          BY <4>2, <5>1, KeySets DEF TypeOK
      <4>3. QED
        BY <2>5, <4>1, <4>2 DEF FetchKeys
    <3>5. InFlightDecoded'
      BY <2>5 DEF FetchKeys, Stop, Goto, TypeOK, InFlightDecoded
    <3>6. QED
      BY <2>5, <3>1, <3>2, <3>3, <3>4, <3>5 DEF FetchKeys, Stop, TypeOK
  <2>6. ASSUME NEW r \in Run, VerifySignature(r) PROVE TypeOK'
    <3>0. ClaimRows(r, paste[r]) \subseteq RowType
      BY RowTyped DEF Labels, ClaimRows
    <3>1. checks' \subseteq RowType
      BY <2>6, <3>0, RowTyped DEF Labels, VerifySignature, Stop, locals, TypeOK
    <3>2. verdict' \in VerdictType
      BY <2>6, HeadlineTyped DEF VerifySignature, Stop, locals, VerdictKind, TypeOK
    <3>3. pc' \in [Run -> Steps]
      BY <2>6 DEF VerifySignature, Stop, locals, Goto, TypeOK, Steps
    <3>4. InFlightDecoded'
      BY <2>6 DEF VerifySignature, Stop, locals, Goto, TypeOK, InFlightDecoded
    <3>5. QED
      BY <2>6, <3>1, <3>2, <3>3, <3>4 DEF VerifySignature, Stop, locals, TypeOK
  <2>7. ASSUME NEW r \in Run, VerifyAttestations(r) PROVE TypeOK'
    <3>1. checks' \subseteq RowType
      BY <2>7, RowTyped DEF Labels, VerifyAttestations, Stop, locals, TypeOK
    <3>2. verdict' \in VerdictType
      BY <2>7, HeadlineTyped DEF VerifyAttestations, Stop, locals, VerdictKind, TypeOK
    <3>3. pc' \in [Run -> Steps]
      BY <2>7 DEF VerifyAttestations, Stop, locals, Goto, TypeOK, Steps
    <3>4. InFlightDecoded'
      BY <2>7 DEF VerifyAttestations, Stop, locals, Goto, TypeOK, InFlightDecoded
    <3>5. QED
      BY <2>7, <3>1, <3>2, <3>3, <3>4 DEF VerifyAttestations, Stop, locals, TypeOK
  <2>8. ASSUME NEW r \in Run, Digest(r) PROVE TypeOK'
    <3>1. checks' \subseteq RowType
      BY <2>8, RowTyped DEF Labels, Digest, locals, TypeOK
    <3>2. verdict' \in VerdictType
      BY <2>8, HeadlineTyped DEF Digest, locals, VerdictKind, TypeOK
    <3>3. pc' \in [Run -> Steps]
      BY <2>8 DEF Digest, locals, Goto, TypeOK, Steps
    <3>4. InFlightDecoded'
      BY <2>8 DEF Digest, locals, Goto, TypeOK, InFlightDecoded
    <3>5. QED
      BY <2>8, <3>1, <3>2, <3>3, <3>4 DEF Digest, locals, TypeOK
  <2>9. ASSUME NEW r \in Run, AskProxy(r) PROVE TypeOK'
    <3>1. checks' \subseteq RowType
      BY <2>9, RowTyped DEF Labels, AskProxy, AfterAnswers, Conclude, page, TypeOK
    <3>2. verdict' \in VerdictType
      BY <2>9, HeadlineTyped, HeadlineKind DEF AskProxy, AfterAnswers, Conclude, page, VerdictKind, TypeOK
    <3>3. pc' \in [Run -> Steps]
      BY <2>9 DEF AskProxy, AfterAnswers, Conclude, page, Goto, TypeOK, Steps
    <3>4. InFlightDecoded'
      BY <2>9 DEF AskProxy, AfterAnswers, Conclude, page, Goto, TypeOK, InFlightDecoded
    <3>5. QED
      BY <2>9, <3>1, <3>2, <3>3, <3>4 DEF AskProxy, AfterAnswers, Conclude, page, TypeOK
  <2>10. ASSUME NEW r \in Run, AskFallback(r) PROVE TypeOK'
    <3>1. checks' \subseteq RowType
      BY <2>10, RowTyped DEF Labels, AskFallback, AfterAnswers, Conclude, page, TypeOK
    <3>2. verdict' \in VerdictType
      BY <2>10, HeadlineTyped, HeadlineKind DEF AskFallback, AfterAnswers, Conclude, page, VerdictKind, TypeOK
    <3>3. pc' \in [Run -> Steps]
      BY <2>10 DEF AskFallback, AfterAnswers, Conclude, page, Goto, TypeOK, Steps
    <3>4. InFlightDecoded'
      BY <2>10 DEF AskFallback, AfterAnswers, Conclude, page, Goto, TypeOK, InFlightDecoded
    <3>5. QED
      BY <2>10, <3>1, <3>2, <3>3, <3>4 DEF AskFallback, AfterAnswers, Conclude, page, TypeOK
  <2>11. ASSUME NEW r \in Run, CheckInclusion(r) PROVE TypeOK'
    <3>1. checks' \subseteq RowType
      BY <2>11, RowTyped DEF Labels, CheckInclusion, Stop, Conclude, TypeOK
    <3>2. verdict' \in VerdictType
      BY <2>11, HeadlineTyped, HeadlineKind DEF CheckInclusion, Stop, Conclude, VerdictKind, TypeOK
    <3>3. pc' \in [Run -> Steps]
      BY <2>11 DEF CheckInclusion, Stop, Conclude, Goto, TypeOK, Steps
    <3>4. InFlightDecoded'
      BY <2>11 DEF CheckInclusion, Stop, Conclude, Goto, TypeOK, InFlightDecoded
    <3>5. QED
      BY <2>11, <3>1, <3>2, <3>3, <3>4
      DEF CheckInclusion, verifyInclusion, Stop, Conclude, TypeOK
  <2>12. ASSUME NEW r \in Run, CheckHead(r) PROVE TypeOK'
    <3>1. checks' \subseteq RowType
      BY <2>12, RowTyped DEF Labels, CheckHead, Conclude, locals, TypeOK
    <3>2. verdict' \in VerdictType
      BY <2>12, HeadlineTyped, HeadlineKind DEF CheckHead, Conclude, locals, VerdictKind, TypeOK
    <3>3. pc' \in [Run -> Steps]
      BY <2>12 DEF CheckHead, Conclude, locals, Goto, TypeOK, Steps
    <3>4. InFlightDecoded'
      BY <2>12 DEF CheckHead, Conclude, locals, Goto, TypeOK, InFlightDecoded
    <3>5. QED
      BY <2>12, <3>1, <3>2, <3>3, <3>4 DEF CheckHead, Conclude, locals, TypeOK
  <2>13. CASE UNCHANGED vars
    BY <2>13 DEF vars, page, locals, TypeOK, InFlightDecoded
  <2>14. QED
    BY <2>1, <2>2, <2>3, <2>4, <2>5, <2>6, <2>7, <2>8, <2>9, <2>10, <2>11,
       <2>12, <2>13 DEF Next, Continue
<1>3. QED
  BY <1>1, <1>2, PTL DEF Spec

-----------------------------------------------------------------------------
\* A step of one call leaves the locals of every other call as they are.
Untouched(q) ==
  /\ pc'[q] = pc[q] /\ paste'[q] = paste[q] /\ own'[q] = own[q]
  /\ jwks'[q] = jwks[q] /\ proof'[q] = proof[q] /\ inclusionOk'[q] = inclusionOk[q]

LEMMA CallStands ==
  ASSUME NEW q \in Run, CallOK(q), Untouched(q)
  PROVE  CallOK(q)'
BY DEF CallOK, Untouched

\* So a headline stands until it is rewritten.
LEMMA VerdictStands ==
  ASSUME VerdictOK, verdict' = verdict, facts' = facts,
         \A q \in Run : pc[q] = "idle" => Untouched(q)
  PROVE  VerdictOK'
BY DEF VerdictOK, VerdictsAreSigned, VerifiedIsAnchored, VerdictAndFactsAgree,
       Untouched, FinalKind

\* A call past its attestations holds a key set that makes its receipt genuine.
LEMMA SignedCall ==
  ASSUME TypeOK, NEW r \in Run, CallOK(r), pc[r] \in WithAttestations
  PROVE  paste[r] \in Receipt /\ Genuine(paste[r])
BY DEF CallOK, WithAttestations, WithSignature, WithKeys, WithProof, Genuine, TypeOK,
       InFlightDecoded

\* What a finished call may say: its receipt is genuine, and VERIFIED takes a
\* host-owned domain and an anchor.
LEMMA ConcludeVerdict ==
  ASSUME TypeOK, NEW r \in Run, NEW rows, NEW best \in {"verified", "signed"},
         Conclude(r, rows, best), CallOK(r), pc[r] \in WithAttestations,
         paste' = paste,
         best = "verified" => proof'[r] \in Proof /\ Anchors(proof'[r], paste[r])
  PROVE  VerdictOK'
<1>1. /\ verdict'.run = r /\ facts' = r /\ pc'[r] = "idle"
      /\ verdict'.kind = "verified" => own[r] = "pass" /\ best = "verified"
  BY HeadlineKind DEF Conclude, Goto, TypeOK
<1>2. paste'[r] \in Receipt /\ Genuine(paste'[r])
  BY SignedCall
<1>3. VerdictsAreSigned' /\ VerdictAndFactsAgree'
  BY <1>1, <1>2 DEF VerdictsAreSigned, VerdictAndFactsAgree
<1>4. own[r] = "pass" => HostOwned(paste[r].domain)
  BY DEF CallOK, WithAttestations, WithProof
<1>5. VerifiedIsAnchored'
  BY <1>1, <1>4 DEF VerifiedIsAnchored
<1>6. QED
  BY <1>1, <1>3, <1>5 DEF VerdictOK

\* What the invariant says holds of the page at every moment, whatever presses
\* and answers there are.
THEOREM PageInvariant == Spec => []IInv
<1>1. Init => IInv
  BY DEF Init, IInv, ListsAreRetried, CallOK, VerdictOK, VerdictsAreSigned,
     VerifiedIsAnchored, VerdictAndFactsAgree, FinalKind, WithKeys, WithSignature,
     WithAttestations, WithProof
<1>2. TypeOK /\ IInv /\ [Next]_vars => IInv'
  <2> SUFFICES ASSUME TypeOK, IInv, [Next]_vars PROVE IInv'
    OBVIOUS
  <2>1. ASSUME NEW r \in Run, NEW p \in Receipt \cup {Malformed}, Press(r, p)
        PROVE  IInv'
    <3>1. \A q \in Run \ {r} : Untouched(q)
      BY <2>1 DEF FreshChecks, Press, Goto, Untouched, TypeOK
    <3>2. CallOK(r)'
      BY <2>1 DEF FreshChecks, Press, OwnState, Goto, CallOK, TypeOK, WithKeys, WithSignature,
         WithAttestations, WithProof
    <3>3. ListsAreRetried'
      BY <2>1 DEF FreshChecks, Press, Goto, IInv, ListsAreRetried, TypeOK
    <3>4. VerdictOK'
      BY <2>1 DEF FreshChecks, Press, VerdictOK, VerdictsAreSigned, VerifiedIsAnchored,
         VerdictAndFactsAgree, FinalKind
    <3>5. QED
      BY <3>1, <3>2, <3>3, <3>4, CallStands DEF IInv
  <2>2. CASE ListsLoad \/ ListsFail
    <3>1. \A q \in Run : pc[q] = "idle" => Untouched(q)
      BY <2>2 DEF ListsLoad, ListsFail, Untouched
    <3>2. ASSUME NEW q \in Run PROVE CallOK(q)'
      BY <2>2 DEF ListsLoad, ListsFail, OwnState, IInv, CallOK, WithKeys, WithSignature,
         WithAttestations, WithProof
    <3>3. ListsAreRetried'
      BY <2>2 DEF ListsLoad, ListsFail, ListsAreRetried
    <3>4. VerdictOK'
      BY <2>2, <3>1, VerdictStands DEF ListsLoad, ListsFail, page, IInv
    <3>5. QED
      BY <3>2, <3>3, <3>4 DEF IInv
  <2>4. ASSUME NEW r \in Run, Resume(r) PROVE IInv'
    <3>1. pc[r] # "idle" /\ CallOK(r)
      BY <2>4 DEF Resume, IInv
    <3>2. \A q \in Run \ {r} : Untouched(q)
      BY <2>4 DEF Resume, Stop, locals, Goto, Untouched, TypeOK
    <3>3. CallOK(r)'
      BY <2>4, <3>1 DEF Resume, Stop, locals, Goto, CallOK, TypeOK, InFlightDecoded, WithKeys,
         WithSignature, WithAttestations, WithProof, verifyJws, ToSet
    <3>4. ListsAreRetried'
      BY <2>4 DEF Resume, Stop, locals, Goto, IInv, ListsAreRetried, TypeOK
    <3>5. VerdictOK'
      BY <2>4, <3>1, <3>2, VerdictStands DEF Resume, Stop, locals, Goto, IInv, VerdictOK,
         VerdictsAreSigned, VerifiedIsAnchored, VerdictAndFactsAgree, FinalKind, TypeOK
    <3>6. QED
      BY <3>2, <3>3, <3>4, <3>5, CallStands DEF IInv
  <2>5. ASSUME NEW r \in Run, FetchKeys(r) PROVE IInv'
    <3>1. pc[r] # "idle" /\ CallOK(r)
      BY <2>5 DEF FetchKeys, IInv
    <3>2. \A q \in Run \ {r} : Untouched(q)
      BY <2>5 DEF FetchKeys, Stop, Goto, Untouched, TypeOK
    <3>3. CallOK(r)'
      BY <2>5, <3>1 DEF FetchKeys, Stop, Goto, CallOK, TypeOK, InFlightDecoded, WithKeys,
         WithSignature, WithAttestations, WithProof, verifyJws, ToSet
    <3>4. ListsAreRetried'
      BY <2>5 DEF FetchKeys, Stop, Goto, IInv, ListsAreRetried, TypeOK
    <3>5. VerdictOK'
      BY <2>5, <3>1, <3>2, VerdictStands DEF FetchKeys, Stop, Goto, IInv, VerdictOK,
         VerdictsAreSigned, VerifiedIsAnchored, VerdictAndFactsAgree, FinalKind, TypeOK
    <3>6. QED
      BY <3>2, <3>3, <3>4, <3>5, CallStands DEF IInv
  <2>6. ASSUME NEW r \in Run, VerifySignature(r) PROVE IInv'
    <3>1. pc[r] # "idle" /\ CallOK(r)
      BY <2>6 DEF VerifySignature, IInv
    <3>2. \A q \in Run \ {r} : Untouched(q)
      BY <2>6 DEF VerifySignature, Stop, locals, Goto, Untouched, TypeOK
    <3>3. CallOK(r)'
      BY <2>6, <3>1 DEF VerifySignature, Stop, locals, Goto, CallOK, TypeOK, InFlightDecoded, WithKeys,
         WithSignature, WithAttestations, WithProof, verifyJws, ToSet
    <3>4. ListsAreRetried'
      BY <2>6 DEF VerifySignature, Stop, locals, Goto, IInv, ListsAreRetried, TypeOK
    <3>5. VerdictOK'
      BY <2>6, <3>1, <3>2, VerdictStands DEF VerifySignature, Stop, locals, Goto, IInv, VerdictOK,
         VerdictsAreSigned, VerifiedIsAnchored, VerdictAndFactsAgree, FinalKind, TypeOK
    <3>6. QED
      BY <3>2, <3>3, <3>4, <3>5, CallStands DEF IInv
  <2>7. ASSUME NEW r \in Run, VerifyAttestations(r) PROVE IInv'
    <3>1. pc[r] # "idle" /\ CallOK(r)
      BY <2>7 DEF VerifyAttestations, IInv
    <3>2. \A q \in Run \ {r} : Untouched(q)
      BY <2>7 DEF VerifyAttestations, Stop, locals, Goto, Untouched, TypeOK
    <3>3. CallOK(r)'
      BY <2>7, <3>1 DEF VerifyAttestations, Stop, locals, Goto, CallOK, TypeOK, InFlightDecoded, WithKeys,
         WithSignature, WithAttestations, WithProof, verifyJws, ToSet
    <3>4. ListsAreRetried'
      BY <2>7 DEF VerifyAttestations, Stop, locals, Goto, IInv, ListsAreRetried, TypeOK
    <3>5. VerdictOK'
      BY <2>7, <3>1, <3>2, VerdictStands DEF VerifyAttestations, Stop, locals, Goto, IInv, VerdictOK,
         VerdictsAreSigned, VerifiedIsAnchored, VerdictAndFactsAgree, FinalKind, TypeOK
    <3>6. QED
      BY <3>2, <3>3, <3>4, <3>5, CallStands DEF IInv
  <2>8. ASSUME NEW r \in Run, Digest(r) PROVE IInv'
    <3>1. pc[r] # "idle" /\ CallOK(r)
      BY <2>8 DEF Digest, IInv
    <3>2. \A q \in Run \ {r} : Untouched(q)
      BY <2>8 DEF Digest, locals, Goto, Untouched, TypeOK
    <3>3. CallOK(r)'
      BY <2>8, <3>1 DEF Digest, locals, Goto, CallOK, TypeOK, InFlightDecoded, WithKeys,
         WithSignature, WithAttestations, WithProof, verifyJws, ToSet
    <3>4. ListsAreRetried'
      BY <2>8 DEF Digest, locals, Goto, IInv, ListsAreRetried, TypeOK
    <3>5. VerdictOK'
      BY <2>8, <3>1, <3>2, VerdictStands DEF Digest, locals, Goto, IInv, VerdictOK,
         VerdictsAreSigned, VerifiedIsAnchored, VerdictAndFactsAgree, FinalKind, TypeOK
    <3>6. QED
      BY <3>2, <3>3, <3>4, <3>5, CallStands DEF IInv
  <2>9. ASSUME NEW r \in Run, AskProxy(r) PROVE IInv'
    <3>1. pc[r] # "idle" /\ CallOK(r)
      BY <2>9 DEF AskProxy, IInv
    <3>2. \A q \in Run \ {r} : Untouched(q)
      BY <2>9 DEF AskProxy, AfterAnswers, Conclude, page, HasInclusion, IsUsable, Goto, Untouched, TypeOK
    <3>3. CallOK(r)'
      BY <2>9, <3>1 DEF AskProxy, AfterAnswers, Conclude, page, HasInclusion, IsUsable, Goto, CallOK, TypeOK, InFlightDecoded, WithKeys,
         WithSignature, WithAttestations, WithProof, verifyJws, ToSet
    <3>4. ListsAreRetried'
      BY <2>9 DEF AskProxy, AfterAnswers, Conclude, page, HasInclusion, IsUsable, Goto, IInv, ListsAreRetried, TypeOK
    <3>5. VerdictOK'
      <4>1. CASE UNCHANGED page
        BY <2>9, <3>1, <3>2, <4>1, VerdictStands DEF page, IInv
      <4>2. CASE Conclude(r, {Row(r, "inclusion", "skip")}, "signed")
        BY <2>9, <3>1, <4>2, ConcludeVerdict DEF AskProxy, WithAttestations
      <4>3. QED
        BY <2>9, <4>1, <4>2 DEF AskProxy, AfterAnswers
    <3>6. QED
      BY <3>2, <3>3, <3>4, <3>5, CallStands DEF IInv
  <2>10. ASSUME NEW r \in Run, AskFallback(r) PROVE IInv'
    <3>1. pc[r] # "idle" /\ CallOK(r)
      BY <2>10 DEF AskFallback, IInv
    <3>2. \A q \in Run \ {r} : Untouched(q)
      BY <2>10 DEF AskFallback, AfterAnswers, Conclude, page, IsUsable, Goto, Untouched, TypeOK
    <3>3. CallOK(r)'
      BY <2>10, <3>1 DEF AskFallback, AfterAnswers, Conclude, page, IsUsable, Goto, CallOK, TypeOK, InFlightDecoded, WithKeys,
         WithSignature, WithAttestations, WithProof, verifyJws, ToSet
    <3>4. ListsAreRetried'
      BY <2>10 DEF AskFallback, AfterAnswers, Conclude, page, IsUsable, Goto, IInv, ListsAreRetried, TypeOK
    <3>5. VerdictOK'
      <4>1. CASE UNCHANGED page
        BY <2>10, <3>1, <3>2, <4>1, VerdictStands DEF page, IInv
      <4>2. CASE Conclude(r, {Row(r, "inclusion", "skip")}, "signed")
        BY <2>10, <3>1, <4>2, ConcludeVerdict DEF AskFallback, WithAttestations
      <4>3. QED
        BY <2>10, <4>1, <4>2 DEF AskFallback, AfterAnswers
    <3>6. QED
      BY <3>2, <3>3, <3>4, <3>5, CallStands DEF IInv
  <2>11. ASSUME NEW r \in Run, CheckInclusion(r) PROVE IInv'
    <3>1. pc[r] # "idle" /\ CallOK(r)
      BY <2>11 DEF CheckInclusion, IInv
    <3>2. \A q \in Run \ {r} : Untouched(q)
      BY <2>11 DEF CheckInclusion, Stop, Conclude, Goto, Untouched, TypeOK
    <3>3. CallOK(r)'
      BY <2>11, <3>1 DEF CheckInclusion, verifyInclusion, Stop, Conclude, Goto, CallOK, TypeOK, InFlightDecoded, WithKeys,
         WithSignature, WithAttestations, WithProof, verifyJws, ToSet
    <3>4. ListsAreRetried'
      BY <2>11 DEF CheckInclusion, Stop, Conclude, Goto, IInv, ListsAreRetried, TypeOK
    <3>5. VerdictOK'
      <4>1. CASE UNCHANGED <<verdict, facts, refbox>>
        BY <2>11, <3>1, <3>2, <4>1, VerdictStands DEF IInv
      <4>2. ASSUME NEW rows, Conclude(r, rows, "signed")
            PROVE  VerdictOK'
        BY <2>11, <3>1, <4>2, ConcludeVerdict DEF CheckInclusion, WithAttestations, WithProof
      <4>3. ASSUME NEW rows, Stop(r, rows, "stopped")
            PROVE  VerdictOK'
        BY <2>11, <3>1, <3>2, <4>3 DEF CheckInclusion, Stop, Goto, IInv, VerdictOK,
           VerdictsAreSigned, VerifiedIsAnchored, VerdictAndFactsAgree, FinalKind, TypeOK
      <4>4. QED
        BY <2>11, <4>1, <4>2, <4>3 DEF CheckInclusion
    <3>6. QED
      BY <3>2, <3>3, <3>4, <3>5, CallStands DEF IInv
  <2>12. ASSUME NEW r \in Run, CheckHead(r) PROVE IInv'
    <3>1. pc[r] # "idle" /\ CallOK(r)
      BY <2>12 DEF CheckHead, IInv
    <3>2. \A q \in Run \ {r} : Untouched(q)
      BY <2>12 DEF CheckHead, Conclude, locals, Goto, Untouched, TypeOK
    <3>3. CallOK(r)'
      BY <2>12, <3>1 DEF CheckHead, Conclude, locals, Goto, CallOK, TypeOK, InFlightDecoded, WithKeys,
         WithSignature, WithAttestations, WithProof, verifyJws, ToSet
    <3>4. ListsAreRetried'
      BY <2>12 DEF CheckHead, Conclude, locals, Goto, IInv, ListsAreRetried, TypeOK
    <3>5. VerdictOK'
      <4>1. PICK set \in Served[proof[r].log.name] \cup {{}} :
              LET sthVerified == verifyJws(proof[r].key, set) /\ proof[r].matches
              IN  Conclude(r, {Row(r, "head", IF sthVerified THEN "ok" ELSE "skip")},
                           IF inclusionOk[r] /\ sthVerified THEN "verified" ELSE "signed")
        BY <2>12 DEF CheckHead
      <4>2. CASE inclusionOk[r] /\ proof[r].key \in set /\ proof[r].matches
        <5>1. proof[r] \in Proof /\ Anchors(proof[r], paste[r])
          BY <2>12, <3>1, <4>2 DEF CheckHead, CallOK, WithProof, Anchors
        <5>2. \E rows : Conclude(r, rows, "verified")
          BY <4>1, <4>2 DEF verifyJws
        <5>3. QED
          BY <2>12, <3>1, <5>1, <5>2, ConcludeVerdict
          DEF CheckHead, locals, WithAttestations, WithProof
      <4>3. CASE ~(inclusionOk[r] /\ proof[r].key \in set /\ proof[r].matches)
        <5>1. \E rows : Conclude(r, rows, "signed")
          BY <4>1, <4>3 DEF verifyJws
        <5>2. QED
          BY <2>12, <3>1, <5>1, ConcludeVerdict
          DEF CheckHead, locals, WithAttestations, WithProof
      <4>4. QED
        BY <4>2, <4>3
    <3>6. QED
      BY <3>2, <3>3, <3>4, <3>5, CallStands DEF IInv
  <2>13. CASE UNCHANGED vars
    <3>1. \A q \in Run : Untouched(q)
      BY <2>13 DEF vars, locals, Untouched
    <3>2. ListsAreRetried' /\ VerdictOK'
      BY <2>13, <3>1, VerdictStands DEF vars, page, IInv, ListsAreRetried
    <3>3. QED
      BY <3>1, <3>2, CallStands DEF IInv
  <2>14. QED
    BY <2>1, <2>2, <2>4, <2>5, <2>6, <2>7, <2>8, <2>9, <2>10, <2>11, <2>12,
       <2>13 DEF Next, Continue
<1>3. QED
  BY <1>1, <1>2, Typing, PTL DEF Spec

\* No interleaving of presses, answers and failures heads a receipt with a verdict
\* that speaks of a signature when its issuer did not sign it.
THEOREM Signed == Spec => []VerdictsAreSigned
<1>1. IInv => VerdictsAreSigned
  BY DEF IInv, VerdictOK
<1>2. QED
  BY <1>1, PageInvariant, PTL

\* VERIFIED is only ever shown for a host-owned issuer and an independent anchor.
THEOREM Anchored == Spec => []VerifiedIsAnchored
<1>1. IInv => VerifiedIsAnchored
  BY DEF IInv, VerdictOK
<1>2. QED
  BY <1>1, PageInvariant, PTL

\* And that anchor, when its identifier writes the bare name of its host, is not on the
\* issuer's registrable domain: of bare names the comparison of strings that the page
\* makes is as strict as the list. A final dot or a port gets past it.
THEOREM Foreign == Spec => []AnchorIsForeign
<1>1. IInv => AnchorIsForeign
  <2>1. SUFFICES ASSUME IInv, verdict.kind = "verified",
                        NEW name, NEW domain,
                        name = proof[verdict.run].log.name,
                        domain = paste[verdict.run].domain,
                        ~proof[verdict.run].log.dot, ~proof[verdict.run].log.port,
                        registrableDomain(name) = domain
                 PROVE  FALSE
    BY DEF AnchorIsForeign
  <2>2. /\ HostOwned(domain)
        /\ proof[verdict.run] \in Proof /\ proof[verdict.run].log # Malformed
        /\ ~sameOperator(proof[verdict.run].log, domain)
        /\ paste[verdict.run] \in Receipt
    BY <2>1 DEF IInv, VerdictOK, VerifiedIsAnchored, VerdictsAreSigned, FinalKind, Anchors
  <2>3. /\ name \in Seq(STRING) /\ domain \in Seq(STRING)
        /\ proof[verdict.run].log = LogHost(name, FALSE, FALSE)
    BY <2>1, <2>2, DataAssumption DEF ReceiptType, ProofType, LogHost
  <2>4. sameOperator(LogHost(name, FALSE, FALSE), domain)
    BY <2>1, <2>2, <2>3, OwnLogCaught DEF OwnLogIsCaught
  <2>5. QED
    BY <2>2, <2>3, <2>4
<1>2. QED
  BY <1>1, PageInvariant, PTL

\* The verdict and the facts panel are of one receipt.
THEOREM OnePanel == Spec => []VerdictAndFactsAgree
<1>1. IInv => VerdictAndFactsAgree
  BY DEF IInv, VerdictOK
<1>2. QED
  BY <1>1, PageInvariant, PTL

\* No press inherits a failed load of the lists, and no call waits for nothing.
THEOREM Retried == Spec => []ListsAreRetried
<1>1. IInv => ListsAreRetried
  BY DEF IInv
<1>2. QED
  BY <1>1, PageInvariant, PTL

-----------------------------------------------------------------------------
\* How many stretches of run() a call still has before it at most.
Remaining(r) ==
  CASE pc[r] = "lists" -> 10
    [] pc[r] = "resumed" -> 9
    [] pc[r] = "keys" -> 8
    [] pc[r] = "signature" -> 7
    [] pc[r] = "attestations" -> 6
    [] pc[r] = "digest" -> 5
    [] pc[r] = "proxy" -> 4
    [] pc[r] = "fallback" -> 3
    [] pc[r] = "inclusion" -> 2
    [] pc[r] = "head" -> 1
    [] OTHER -> 0

Closer(r) == Remaining(r)' < Remaining(r)

\* What settles in run() brings its call closer to its end, whatever the answer is, and
\* so does a settled load of the lists for all the calls that wait for it; nothing that
\* happens on the page sets a call back.
CallsAdvance ==
  [][/\ \A r \in Run : Continue(r) => Closer(r)
     /\ ListsLoad \/ ListsFail => \A r \in Run : pc[r] = "lists" => Closer(r)
     /\ \A r \in Run : pc[r] # "idle" => Remaining(r)' <= Remaining(r)]_vars

\* A stretch of a call leads to a later await, and leaves the other calls at theirs.
LEMMA ContinueIsCloser ==
  ASSUME TypeOK, NEW r \in Run, Continue(r)
  PROVE  Closer(r) /\ \A q \in Run \ {r} : pc'[q] = pc[q]
<1>0. \A step \in Steps : Goto(r, step) =>
        pc'[r] = step /\ \A q \in Run \ {r} : pc'[q] = pc[q]
  BY DEF Goto, TypeOK
<1>1. ASSUME NEW rows, NEW kind, Stop(r, rows, kind)
      PROVE  Goto(r, "idle")
  BY <1>1 DEF Stop
<1>2. ASSUME NEW rows, NEW best, Conclude(r, rows, best)
      PROVE  Goto(r, "idle")
  BY <1>2 DEF Conclude
<1>3. ASSUME NEW answer, AfterAnswers(r, answer)
      PROVE  Goto(r, "inclusion") \/ Goto(r, "idle")
  BY <1>2, <1>3 DEF AfterAnswers
<1>4. /\ Resume(r) => pc[r] = "resumed" /\ (Goto(r, "idle") \/ Goto(r, "keys"))
      /\ FetchKeys(r) => pc[r] = "keys" /\ (Goto(r, "idle") \/ Goto(r, "signature"))
      /\ VerifySignature(r) =>
           pc[r] = "signature" /\ (Goto(r, "idle") \/ Goto(r, "attestations"))
      /\ VerifyAttestations(r) =>
           pc[r] = "attestations" /\ (Goto(r, "idle") \/ Goto(r, "digest"))
  BY <1>1 DEF Resume, FetchKeys, VerifySignature, VerifyAttestations
<1>5. /\ Digest(r) => pc[r] = "digest" /\ Goto(r, "proxy")
      /\ AskProxy(r) => /\ pc[r] = "proxy"
                        /\ Goto(r, "fallback") \/ Goto(r, "inclusion") \/ Goto(r, "idle")
      /\ AskFallback(r) =>
           pc[r] = "fallback" /\ (Goto(r, "inclusion") \/ Goto(r, "idle"))
  BY <1>3 DEF Digest, AskProxy, AskFallback
<1>6. /\ CheckInclusion(r) => pc[r] = "inclusion" /\ (Goto(r, "head") \/ Goto(r, "idle"))
      /\ CheckHead(r) => pc[r] = "head" /\ Goto(r, "idle")
  BY <1>1, <1>2 DEF CheckInclusion, CheckHead
<1> QED
  BY <1>0, <1>4, <1>5, <1>6 DEF Continue, Closer, Remaining, Steps

\* The safety half of "every press concludes": with Retried (a call that waits for the
\* lists waits for a load in progress), what fairness adds is only that each thing
\* awaited settles, and ten of them are all that a press can wait for.
THEOREM NeverSetBack == Spec => CallsAdvance
<1> DEFINE Advance ==
      /\ \A r \in Run : Continue(r) => Closer(r)
      /\ ListsLoad \/ ListsFail => \A r \in Run : pc[r] = "lists" => Closer(r)
      /\ \A r \in Run : pc[r] # "idle" => Remaining(r)' <= Remaining(r)
<1>1. TypeOK /\ [Next]_vars => [Advance]_vars
  <2> SUFFICES ASSUME TypeOK, Next PROVE Advance
    OBVIOUS
  <2>1. ASSUME NEW r \in Run, NEW q \in Run, Continue(r)
        PROVE  Remaining(q)' <= Remaining(q)
    BY <2>1, ContinueIsCloser DEF Closer, Remaining
  <2>2. ASSUME ListsLoad \/ ListsFail, NEW r \in Run
        PROVE  /\ pc[r] = "lists" => Closer(r)
               /\ Remaining(r)' <= Remaining(r)
    <3>1. pc'[r] = IF pc[r] = "lists" THEN "resumed" ELSE pc[r]
      BY <2>2 DEF ListsLoad, ListsFail
    <3> QED
      BY <3>1 DEF Closer, Remaining
  <2>3. ASSUME NEW r \in Run, NEW p \in Receipt \cup {Malformed}, Press(r, p),
               NEW q \in Run, pc[q] # "idle"
        PROVE  Remaining(q)' <= Remaining(q)
    <3>1. pc'[q] = pc[q]
      BY <2>3 DEF Press, Goto, TypeOK
    <3> QED
      BY <3>1 DEF Remaining
  <2>4. \A r \in Run : Continue(r) => Closer(r)
    BY ContinueIsCloser
  <2> QED
    BY <2>1, <2>2, <2>3, <2>4 DEF Next
<1> QED
  BY <1>1, Typing, PTL DEF Spec, CallsAdvance
=============================================================================
