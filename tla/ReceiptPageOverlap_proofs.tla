---------------------- MODULE ReceiptPageOverlap_proofs ----------------------
(***************************************************************************)
(* A call of run() that had the page to itself is judged on its own rows:  *)
(* for every number of calls, every receipt, proof and key set.            *)
(***************************************************************************)
EXTENDS ReceiptPageOverlap, ReceiptPage_proofs

\* The history variable only watches: without it the steps are the page's.
LEMMA HistoryWatches == HSpec => Spec
<1>1. HInit => Init
  BY DEF HInit
<1>2. [HNext]_hvars => [Next]_vars
  BY DEF HNext, HPress, Next, hvars
<1> QED
  BY <1>1, <1>2, PTL DEF HSpec, Spec

\* A step of a call in flight, by what it leaves on the page if the call has that to
\* itself. If it does not, or the call is another's, there is nothing to show: a call
\* with the page to itself is the only one in flight.
LEMMA StepOfCall ==
  ASSUME TypeOK, SoloInv, NEW r \in Run, NEW s \in Steps, pc[r] # "idle",
         pc' = [pc EXCEPT ![r] = s], paste' = paste, overlapped' = overlapped,
         verdict' = verdict \/ (s = "idle" /\ verdict'.run = r),
         r \notin overlapped /\ s # "idle" =>
           /\ s \notin WithSignature => ~HasBadRow'
           /\ s = "attestations" => (HasBadRow' <=> ClaimRows(r, paste[r]) # {})
           /\ s \in WithAttestations => (HasBadRow' <=> ~EveryCheckHolds(paste[r]))
           /\ s \in WithAttestations \ {"digest"} => refbox' = r,
         r \notin overlapped /\ verdict' # verdict /\ verdict'.kind \in FinalKind =>
           /\ verdict'.kind # "failed" <=> EveryCheckHolds(paste[r])
           /\ refbox' = r
  PROVE  SoloInv'
<1>1. /\ \A q \in Run : pc'[q] = IF q = r THEN s ELSE pc[q]
      /\ r \in InFlight
  BY DEF TypeOK, InFlight
<1>2. ASSUME NEW q \in Run, q \in (InFlight \ overlapped)' PROVE SoloCall(q)'
  <2>1. q \in InFlight \ overlapped
    BY <1>1, <1>2 DEF InFlight
  <2>2. InFlight = {q}
    BY <2>1 DEF SoloInv, SoloCall
  <2>3. q = r
    BY <1>1, <2>2
  <2>4. InFlight' = {q} /\ s # "idle" /\ pc'[q] = s
    BY <1>1, <1>2, <2>2, <2>3 DEF InFlight
  <2>5. ClaimRows(q, paste[q])' = ClaimRows(q, paste[q])
    BY DEF ClaimRows, Row
  <2> QED
    BY <2>1, <2>3, <2>4, <2>5 DEF SoloCall, EveryCheckHolds
<1>3. CASE verdict' = verdict
  <2>1. ~(verdict'.kind \in FinalKind /\ verdict'.run \notin overlapped')
    BY <1>1, <1>3 DEF SoloInv, SoloVerdict
  <2> QED
    BY <1>2, <2>1 DEF SoloInv, SoloVerdict, SoloVerdictIsExact, SoloReferenceIsItsOwn, SoloCall
<1>4. CASE verdict' # verdict
  <2>1. s = "idle" /\ verdict'.run = r
    BY <1>4
  <2>2. r \notin overlapped => InFlight' = {}
    BY <1>1, <2>1 DEF SoloInv, SoloCall, InFlight
  <2> QED
    BY <1>2, <1>4, <2>1, <2>2
    DEF SoloInv, SoloVerdict, SoloVerdictIsExact, SoloReferenceIsItsOwn, SoloCall, EveryCheckHolds
<1> QED
  BY <1>3, <1>4

\* A call that throws says nothing that a check could contradict.
LEMMA StopKeeps ==
  ASSUME TypeOK, SoloInv, NEW r \in Run, pc[r] # "idle", NEW rows,
         NEW kind \in {"stopped", "halted"}, Stop(r, rows, kind),
         paste' = paste, overlapped' = overlapped
  PROVE  SoloInv'
<1>1. /\ pc' = [pc EXCEPT ![r] = "idle"] /\ "idle" \in Steps
      /\ verdict'.run = r /\ verdict'.kind \notin FinalKind
  BY DEF Stop, Goto, Steps, FinalKind
<1> QED
  BY <1>1, StepOfCall

\* A call that reaches its end is headed by its own rows.
LEMMA ConcludeKeeps ==
  ASSUME TypeOK, SoloInv, NEW r \in Run, pc[r] \in WithAttestations \ {"digest"}, NEW rows,
         NEW best \in {"verified", "signed"}, Conclude(r, rows, best),
         \A row \in rows : row.state # "bad",
         paste' = paste, overlapped' = overlapped
  PROVE  SoloInv'
<1>1. /\ pc' = [pc EXCEPT ![r] = "idle"] /\ "idle" \in Steps
      /\ verdict' = [run |-> r, kind |-> Headline(checks', own[r], best)]
      /\ refbox' = refbox /\ pc[r] # "idle"
  BY DEF Conclude, Goto, Steps, WithAttestations, WithProof
<1>2. HasBadRow' <=> HasBadRow
  BY DEF Conclude, HasBadRow
<1>3. verdict'.kind = "failed" <=> HasBadRow'
  BY <1>1 DEF Headline, HasBadRow
<1>4. r \notin overlapped => (HasBadRow <=> ~EveryCheckHolds(paste[r])) /\ refbox = r
  BY <1>1 DEF SoloInv, SoloCall, InFlight
<1> QED
  BY <1>1, <1>2, <1>3, <1>4, StepOfCall

\* A call that goes on with rows that are not bad, within one stretch of awaits.
LEMMA GoesOnKeeps ==
  ASSUME TypeOK, SoloInv, NEW r \in Run, NEW s \in Steps, pc[r] # "idle", s # "idle",
         Goto(r, s), paste' = paste, overlapped' = overlapped, verdict' = verdict,
         HasBadRow' <=> HasBadRow,
         \/ pc[r] \notin WithSignature /\ s \notin WithSignature
         \/ pc[r] \in WithAttestations /\ s \in WithAttestations,
         refbox' = refbox \/ refbox' = r,
         s \in WithAttestations \ {"digest"} =>
           refbox' = r \/ pc[r] \in WithAttestations \ {"digest"}
  PROVE  SoloInv'
<1>2. pc' = [pc EXCEPT ![r] = s]
  BY DEF Goto
<1>3. "attestations" \in WithSignature /\ "attestations" \notin WithAttestations
  BY DEF WithSignature, WithAttestations, WithProof
<1>4. WithAttestations \subseteq WithSignature
  BY DEF WithSignature
<1>5. r \notin overlapped =>
        /\ pc[r] \notin WithSignature => ~HasBadRow
        /\ pc[r] \in WithAttestations => (HasBadRow <=> ~EveryCheckHolds(paste[r]))
        /\ pc[r] \in WithAttestations \ {"digest"} => refbox = r
  BY DEF SoloInv, SoloCall, InFlight
<1> QED
  BY <1>2, <1>3, <1>4, <1>5, StepOfCall

-----------------------------------------------------------------------------
\* The steps of a call, one by one.
LEMMA ContinueKeeps ==
  ASSUME TypeOK, SoloInv, NEW r \in Run, Continue(r), overlapped' = overlapped
  PROVE  SoloInv'
<1>0. Steps \ {"idle"} \subseteq Steps /\ pc \in [Run -> Steps]
  BY DEF TypeOK
<1>1. CASE Resume(r)
  <2>1. pc[r] = "resumed" /\ paste' = paste
    BY <1>1 DEF Resume, locals
  <2>2. CASE Stop(r, {}, "stopped")
    BY <2>1, <2>2, StopKeeps
  <2>3. ASSUME NEW state \in {"ok", "skip"}, checks' = checks \cup {Row(r, "owned", state)},
               Goto(r, "keys"), UNCHANGED <<verdict, facts, refbox>>
        PROVE  SoloInv'
    <3>1. /\ "keys" \in Steps /\ "keys" \notin WithSignature /\ "resumed" \notin WithSignature
          /\ \A row \in {Row(r, "owned", state)} : row.state # "bad"
      BY DEF Steps, WithSignature, WithAttestations, WithProof, Row
    <3>2. HasBadRow' <=> HasBadRow
      BY <2>3, <3>1 DEF HasBadRow
    <3>3. "keys" \notin WithAttestations
      BY DEF WithAttestations, WithProof
    <3> QED
      BY <2>1, <2>3, <3>1, <3>2, <3>3, GoesOnKeeps
  <2> QED
    BY <1>1, <2>2, <2>3 DEF Resume
<1>2. CASE FetchKeys(r)
  <2>1. pc[r] = "keys" /\ paste' = paste
    BY <1>2 DEF FetchKeys
  <2>2. ASSUME NEW rows, NEW kind \in {"stopped", "halted"}, Stop(r, rows, kind) PROVE SoloInv'
    BY <2>1, <2>2, StopKeeps
  <2>3. CASE /\ checks' = checks \cup {Row(r, "keys", "ok")} /\ Goto(r, "signature")
             /\ UNCHANGED <<verdict, facts, refbox>>
    <3>1. /\ "signature" \in Steps /\ "keys" \notin WithSignature /\ "signature" \notin WithSignature
          /\ \A row \in {Row(r, "keys", "ok")} : row.state # "bad"
      BY DEF Steps, WithSignature, WithAttestations, WithProof, Row
    <3>2. HasBadRow' <=> HasBadRow
      BY <2>3, <3>1 DEF HasBadRow
    <3>3. "signature" \notin WithAttestations
      BY DEF WithAttestations, WithProof
    <3> QED
      BY <2>1, <2>3, <3>1, <3>2, <3>3, GoesOnKeeps
  <2> QED
    BY <1>2, <2>2, <2>3 DEF FetchKeys
<1>3. CASE VerifySignature(r)
  <2>1. pc[r] = "signature" /\ paste' = paste
    BY <1>3 DEF VerifySignature, locals
  <2>2. ASSUME NEW rows, Stop(r, rows, "stopped") PROVE SoloInv'
    BY <2>1, <2>2, StopKeeps
  <2>3. CASE /\ checks' = checks \cup {Row(r, "signature", "ok")} \cup ClaimRows(r, paste[r])
             /\ Goto(r, "attestations")
             /\ UNCHANGED <<verdict, facts, refbox>>
    <3>1. /\ "attestations" \in Steps /\ "attestations" \notin WithAttestations
          /\ "attestations" \in WithSignature /\ "signature" \notin WithSignature
      BY DEF Steps, WithSignature, WithAttestations, WithProof
    <3>2. /\ \A row \in ClaimRows(r, paste[r]) : row.state = "bad"
          /\ Row(r, "signature", "ok").state # "bad"
      BY DEF ClaimRows, Row
    <3>3. HasBadRow' <=> HasBadRow \/ ClaimRows(r, paste[r]) # {}
      BY <2>3, <3>2 DEF HasBadRow
    <3>4. r \notin overlapped => ~HasBadRow
      BY <2>1, <3>1 DEF SoloInv, SoloCall, InFlight
    <3> QED
      BY <2>1, <2>3, <3>1, <3>3, <3>4, StepOfCall DEF Goto
  <2> QED
    BY <1>3, <2>2, <2>3 DEF VerifySignature
<1>4. CASE VerifyAttestations(r)
  <2> DEFINE atts == ToSet(paste[r].atts)
             signed == atts # {} /\ (\A a \in atts : a.signed)
             row == Row(r, "attestations", IF signed THEN "ok" ELSE "bad")
  <2>1. pc[r] = "attestations" /\ paste' = paste
    BY <1>4 DEF VerifyAttestations, locals
  <2>2. CASE Stop(r, {}, "stopped")
    BY <2>1, <2>2, StopKeeps
  <2>3. CASE checks' = checks \cup {row} /\ Goto(r, "digest") /\ UNCHANGED <<verdict, facts, refbox>>
    <3>1. /\ "digest" \in Steps /\ "digest" \in WithAttestations /\ "digest" \in WithSignature
          /\ "digest" # "attestations" /\ pc[r] # "idle"
      BY <2>1 DEF Steps, WithSignature, WithAttestations, WithProof
    <3>2. HasBadRow' <=> HasBadRow \/ ~signed
      <4>1. row.state = "bad" <=> ~signed
        BY DEF Row
      <4> HIDE DEF row, signed
      <4> QED
        BY <2>3, <4>1 DEF HasBadRow
    <3>3. r \notin overlapped => (HasBadRow <=> ClaimRows(r, paste[r]) # {})
      BY <2>1, <3>1 DEF SoloInv, SoloCall, InFlight
    <3>4. ClaimRows(r, paste[r]) = {} <=>
            paste[r].node \in {NoName, paste[r].domain} /\ paste[r].did \in {NoName, paste[r].domain}
      <4>1. ClaimRows(r, paste[r]) = {} <=>
              \A l \in {"node", "did"} :
                ~(\/ l = "node" /\ paste[r].node \notin {NoName, paste[r].domain}
                  \/ l = "did"  /\ paste[r].did \notin {NoName, paste[r].domain})
        BY DEF ClaimRows
      <4> QED
        BY <4>1
    <3>5. signed <=> paste[r].atts # <<>> /\ \A i \in DOMAIN paste[r].atts : paste[r].atts[i].signed
      <4>1. paste[r] \in ReceiptType
        BY <2>1, DataAssumption DEF TypeOK, InFlightDecoded
      <4>2. paste[r].atts \in Seq([signed : BOOLEAN, key : Key \cup {NoKey}])
        BY <4>1 DEF ReceiptType
      <4>3. atts = {} <=> paste[r].atts = <<>>
        <5>1. /\ Len(paste[r].atts) \in Nat /\ DOMAIN paste[r].atts = 1..Len(paste[r].atts)
              /\ paste[r].atts = <<>> <=> Len(paste[r].atts) = 0
          BY <4>2, EmptySeq
        <5>2. atts = {} <=> DOMAIN paste[r].atts = {}
          BY DEF ToSet
        <5> QED
          BY <5>1, <5>2
      <4> QED
        BY <4>3 DEF ToSet
    <3>6. r \notin overlapped => (HasBadRow' <=> ~EveryCheckHolds(paste[r]))
      BY <3>2, <3>3, <3>4, <3>5 DEF EveryCheckHolds
    <3> QED
      BY <2>1, <2>3, <3>1, <3>6, StepOfCall DEF Goto
  <2> QED
    BY <1>4, <2>2, <2>3 DEF VerifyAttestations
<1>5. CASE Digest(r)
  <2>1. /\ "proxy" \in Steps /\ "proxy" \in WithAttestations /\ "digest" \in WithAttestations
        /\ \A row \in {Row(r, "reference", "ok")} : row.state # "bad"
    BY DEF Steps, WithAttestations, Row
  <2>2. /\ pc[r] = "digest" /\ paste' = paste /\ refbox' = r /\ verdict' = verdict
        /\ checks' = checks \cup {Row(r, "reference", "ok")} /\ Goto(r, "proxy")
    BY <1>5 DEF Digest, locals
  <2>3. HasBadRow' <=> HasBadRow
    BY <2>1, <2>2 DEF HasBadRow
  <2> QED
    BY <2>1, <2>2, <2>3, GoesOnKeeps
<1>a. ASSUME NEW s \in Steps \ {"idle"}, pc[r] \in WithAttestations \ {"digest"},
             s \in WithAttestations \ {"digest"}, Goto(r, s), paste' = paste,
             verdict' = verdict, refbox' = refbox, checks' = checks
      PROVE  SoloInv'
  <2>1. (HasBadRow' <=> HasBadRow) /\ pc[r] # "idle"
    BY <1>a DEF WithAttestations, WithProof, HasBadRow
  <2> QED
    BY <1>a, <2>1, GoesOnKeeps
<1>b. /\ {"fallback", "inclusion", "head"} \subseteq (Steps \ {"idle"}) \cap (WithAttestations \ {"digest"})
      /\ {"proxy", "fallback", "inclusion", "head"} \subseteq WithAttestations \ {"digest"}
      /\ \A label, state : state # "bad" => Row(r, label, state).state # "bad"
  BY DEF Steps, WithAttestations, WithProof, Row
<1>c. ASSUME NEW answer, AfterAnswers(r, answer), paste' = paste,
             pc[r] \in WithAttestations \ {"digest"}
      PROVE  SoloInv'
  <2>1. CASE Goto(r, "inclusion") /\ UNCHANGED page
    BY <1>a, <1>b, <1>c, <2>1 DEF page
  <2>2. CASE Conclude(r, {Row(r, "inclusion", "skip")}, "signed")
    BY <1>b, <1>c, <2>2, ConcludeKeeps
  <2> QED
    BY <1>c, <2>1, <2>2 DEF AfterAnswers
<1>6. CASE AskProxy(r)
  <2>1. pc[r] \in WithAttestations \ {"digest"} /\ paste' = paste
    BY <1>6, <1>b DEF AskProxy
  <2>2. CASE Goto(r, "fallback") /\ UNCHANGED page
    BY <1>a, <1>b, <2>1, <2>2 DEF page
  <2> QED
    BY <1>6, <1>c, <2>1, <2>2 DEF AskProxy
<1>7. CASE AskFallback(r)
  BY <1>7, <1>b, <1>c DEF AskFallback
<1>8. CASE CheckInclusion(r)
  <2> DEFINE row == Row(r, "inclusion", IF verifyInclusion(proof[r], paste[r]) THEN "ok" ELSE "skip")
  <2>1. pc[r] = "inclusion" /\ pc[r] \in WithAttestations \ {"digest"} /\ paste' = paste
    BY <1>8, <1>b DEF CheckInclusion
  <2>2. row.state # "bad"
    BY <1>b
  <2>3. ASSUME NEW rows, Stop(r, rows, "stopped") PROVE SoloInv'
    BY <2>1, <2>3, StopKeeps
  <2>4. CASE checks' = checks \cup {row} /\ Goto(r, "head") /\ UNCHANGED <<verdict, facts, refbox>>
    <3>1. \A x \in {row} : x.state # "bad"
      BY <2>2
    <3> HIDE DEF row
    <3>2. HasBadRow' <=> HasBadRow
      BY <2>4, <3>1 DEF HasBadRow
    <3> QED
      BY <1>b, <2>1, <2>4, <3>2, GoesOnKeeps
  <2>5. CASE Conclude(r, {row, Row(r, "head", "skip")}, "signed")
    <3>1. \A x \in {row, Row(r, "head", "skip")} : x.state # "bad"
      BY <1>b, <2>2
    <3> HIDE DEF row
    <3> QED
      BY <2>1, <2>5, <3>1, ConcludeKeeps
  <2> QED
    BY <1>8, <2>3, <2>4, <2>5 DEF CheckInclusion
<1>9. CASE CheckHead(r)
  <2>1. pc[r] \in WithAttestations \ {"digest"} /\ paste' = paste
    BY <1>9, <1>b DEF CheckHead, locals
  <2>2. PICK state \in {"ok", "skip"}, best \in {"verified", "signed"} :
          Conclude(r, {Row(r, "head", state)}, best)
    BY <1>9 DEF CheckHead
  <2>3. \A row \in {Row(r, "head", state)} : row.state # "bad"
    BY <1>b
  <2> QED
    BY <2>1, <2>2, <2>3, ConcludeKeeps
<1> QED
  BY <1>1, <1>2, <1>3, <1>4, <1>5, <1>6, <1>7, <1>8, <1>9 DEF Continue

\* A press clears the page. Where it meets a call in flight both are from then on
\* calls that shared the page.
LEMMA PressKeeps ==
  ASSUME TypeOK, SoloInv, NEW r \in Run, NEW p \in Receipt \cup {Malformed}, HPress(r, p)
  PROVE  SoloInv'
<1>1. /\ pc[r] = "idle" /\ paste' = [paste EXCEPT ![r] = p]
      /\ verdict'.run = r /\ verdict'.kind \notin FinalKind
      /\ \A q \in Run \ {r} : pc'[q] = pc[q]
      /\ pc'[r] \in {"idle", "resumed", "lists"}
      /\ p # Malformed => checks' = {}
      /\ p = Malformed => pc'[r] = "idle"
  BY DEF HPress, Press, Goto, FreshChecks, TypeOK, FinalKind
<1>2. ASSUME NEW q \in Run, q \in (InFlight \ overlapped)' PROVE SoloCall(q)'
  <2>1. InFlight = {}
    BY <1>1, <1>2 DEF HPress, InFlight
  <2>2. q = r /\ InFlight' = {r} /\ p # Malformed
    BY <1>1, <1>2, <2>1 DEF InFlight
  <2>3. pc'[r] \notin WithSignature /\ pc'[r] # "attestations" /\ pc'[r] \notin WithAttestations
    BY <1>1 DEF WithSignature, WithAttestations, WithProof
  <2>4. ~HasBadRow'
    BY <1>1, <2>2 DEF HasBadRow
  <2> QED
    BY <2>2, <2>3, <2>4 DEF SoloCall
<1> QED
  BY <1>1, <1>2 DEF SoloInv, SoloCall, SoloVerdict, SoloVerdictIsExact, SoloReferenceIsItsOwn

\* The lists wake calls and write nothing.
LEMMA ListsKeep ==
  ASSUME TypeOK, SoloInv, ListsLoad \/ ListsFail, overlapped' = overlapped
  PROVE  SoloInv'
<1>1. /\ UNCHANGED <<checks, verdict, refbox, paste>>
      /\ \A q \in Run : pc'[q] = IF pc[q] = "lists" THEN "resumed" ELSE pc[q]
  BY DEF ListsLoad, ListsFail, page
<1>2. InFlight' = InFlight
  BY <1>1 DEF InFlight
<1>3. ASSUME NEW q \in Run PROVE SoloCall(q)'
  <2>1. /\ pc'[q] \in WithSignature <=> pc[q] \in WithSignature
        /\ pc'[q] = "attestations" <=> pc[q] = "attestations"
        /\ pc'[q] \in WithAttestations <=> pc[q] \in WithAttestations
        /\ pc'[q] = "digest" <=> pc[q] = "digest"
    BY <1>1 DEF WithSignature, WithAttestations, WithProof
  <2>2. HasBadRow' <=> HasBadRow
    BY <1>1 DEF HasBadRow
  <2>3. ClaimRows(q, paste[q])' = ClaimRows(q, paste[q])
    BY <1>1 DEF ClaimRows, Row
  <2> QED
    BY <1>1, <1>2, <2>1, <2>2, <2>3 DEF SoloInv, SoloCall, EveryCheckHolds
<1> QED
  BY <1>1, <1>2, <1>3
  DEF SoloInv, SoloVerdict, SoloVerdictIsExact, SoloReferenceIsItsOwn, EveryCheckHolds

\* While a call has the page to itself, the rows on it are that call's, in every
\* behaviour of the page.
THEOREM SoloInvariant == HSpec => []SoloInv
<1>1. HInit => SoloInv
  BY DEF HInit, Init, SoloInv, SoloCall, SoloVerdict, SoloVerdictIsExact, SoloReferenceIsItsOwn,
         InFlight, FinalKind
<1>2. TypeOK /\ SoloInv /\ [HNext]_hvars => SoloInv'
  <2> SUFFICES ASSUME TypeOK, SoloInv, [HNext]_hvars PROVE SoloInv'
    OBVIOUS
  <2>1. CASE UNCHANGED hvars
    <3>1. UNCHANGED <<checks, verdict, refbox, paste, pc, overlapped>>
      BY <2>1 DEF hvars, vars, page, locals
    <3> QED
      BY <3>1 DEF SoloInv, SoloCall, SoloVerdict, SoloVerdictIsExact, SoloReferenceIsItsOwn,
                  InFlight, HasBadRow, EveryCheckHolds, ClaimRows, Row
  <2> QED
    BY <2>1, ContinueKeeps, PressKeeps, ListsKeep DEF HNext
<1> QED
  BY <1>1, <1>2, HistoryWatches, Typing, PTL DEF HSpec

\* A call that no other call met on the page says NOT VERIFIED, after all signatures
\* verified, exactly when a check of its own receipt failed: no row of an earlier
\* call is left under it, and none of its own is lost.
THEOREM SoloExact == HSpec => []SoloVerdictIsExact
<1>1. SoloInv => SoloVerdictIsExact
  BY DEF SoloInv
<1> QED
  BY <1>1, SoloInvariant, PTL

\* And the confirmation reference under that verdict is its own receipt's.
THEOREM SoloReference == HSpec => []SoloReferenceIsItsOwn
<1>1. SoloInv => SoloReferenceIsItsOwn
  BY DEF SoloInv
<1> QED
  BY <1>1, SoloInvariant, PTL
=============================================================================
