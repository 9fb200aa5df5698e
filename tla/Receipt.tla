------------------------------- MODULE Receipt -------------------------------
(***************************************************************************)
(* lib/vrp-receipt.mjs: the reference verifier of receipt envelopes, with  *)
(* its partial verification of attestations.                               *)
(***************************************************************************)
EXTENDS Signatures

CONSTANT Absent   \* an absent or malformed instant, signature or key set

\* An attestation: whether it is an object with the schema's required members and a
\* layer; its window; its signature; the key set its source resolves to.
AttestationType ==
  [shaped : BOOLEAN, from : Int \cup {Absent}, until : Int \cup {Absent},
   signature : JwsType \cup {Absent}, jwks : Seq(EntryType) \cup {Absent}]

\* A receipt: an object or not, its version, whether it has the schema's required
\* members with an object as subject and as issuer, and its attestations.
ReceiptType ==
  [object : BOOLEAN, version : {"1.0", "other"}, complete : BOOLEAN,
   attestations : Seq(AttestationType)]

validateReceiptShape(receipt) ==
  /\ receipt.object /\ receipt.version = "1.0" /\ receipt.complete
  /\ receipt.attestations # <<>>
  /\ \A i \in DOMAIN receipt.attestations : receipt.attestations[i].shaped

\* Mutant: the window is judged before the signature, and decides alone.
verifyAttestationByDate(att, now) ==
  IF Absent \in {att.from, att.until} THEN "missing_validity_window"
  ELSE IF now < att.from THEN "not_yet_valid"
  ELSE IF now > att.until THEN "sig_expired" ELSE "verified"

\* The outcome of one attestation, as its error; "verified" when it has none.
verifyAttestation(att, now) ==
  IF Absent \in {att.from, att.until} THEN "missing_validity_window"
  ELSE IF att.signature = Absent THEN "layer_unverifiable"
  ELSE IF att.jwks = Absent THEN "key_unresolvable"
  ELSE IF verifyCompactJws(att.signature, att.jwks) # "verified" THEN "sig_invalid"
  ELSE IF now < att.from THEN "not_yet_valid"
  ELSE IF now > att.until THEN "sig_expired" ELSE "verified"

\* The status each outcome is reported under.
Status(outcome) ==
  CASE outcome \in {"missing_validity_window", "sig_invalid"} -> "invalid"
    [] outcome \in {"layer_unverifiable", "key_unresolvable"} -> "unverifiable"
    [] outcome \in {"not_yet_valid", "sig_expired"}           -> "expired"
    [] outcome = "verified"                                   -> "verified"

Refused(reason) ==
  [receipt_valid |-> FALSE, fully_verified |-> FALSE, attestations |-> <<>>, errors |-> {reason}]

verifyReceipt(receipt, now) ==
  LET outcomes == [i \in DOMAIN receipt.attestations |->
                     verifyAttestation(receipt.attestations[i], now)]
  IN  IF receipt.object /\ receipt.version # "1.0" THEN Refused("unsupported_version")
      ELSE IF ~validateReceiptShape(receipt) THEN Refused("malformed_receipt")
      ELSE [receipt_valid |-> TRUE, attestations |-> outcomes, errors |-> {},
            fully_verified |-> \A i \in DOMAIN outcomes : Status(outcomes[i]) = "verified"]
=============================================================================
