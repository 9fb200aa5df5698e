--------------------------- MODULE MCReceiptPage ---------------------------
(***************************************************************************)
(* A small instance of ReceiptPage: one host-owned issuer, one name on a   *)
(* platform's domain, one malformed name, an independent log and a log the *)
(* issuer runs itself; one receipt for each way a check can go.            *)
(***************************************************************************)
EXTENDS ReceiptPageOverlap

CONSTANTS r1, r2, k1, k2, kl

villa    == <<"villa", "com">>
platform == <<"villa", "platform", "com">>
odd      == <<"Villa", "com">>
log      == <<"log", "org">>
selfLog  == <<"log", "villa", "com">>

MCALabel    == {"villa", "platform", "log", "com", "org"}
MCRules     == {[ex |-> FALSE, labels |-> <<"com">>], [ex |-> FALSE, labels |-> <<"org">>]}
MCBrandTlds == {}
MCDomain    == {villa, platform, odd, log, selfLog}

\* The issuer rotates: its key set names k1, then k1 and k2 during the overlap.
MCServed ==
  [d \in MCDomain |->
     CASE d = villa             -> {{k1}, {k1, k2}}
       [] d = platform          -> {{k1}}
       [] d \in {log, selfLog}  -> {{kl}}
       [] OTHER                 -> {}]

Att(signed, key) == [signed |-> signed, key |-> key]
Good == [domain |-> villa, key |-> k1, node |-> villa, did |-> villa,
         atts |-> <<Att(TRUE, k1)>>]

MCReceipt ==
  {Good,
   [Good EXCEPT !.key = k2, !.node = NoName, !.did = NoName],
   [Good EXCEPT !.key = NoKey],                 \* forged wrapper
   [Good EXCEPT !.node = platform],             \* names another node
   [Good EXCEPT !.did = OtherId],               \* issuer identifier not did:web
   [Good EXCEPT !.did = Malformed, !.node = platform],
   [Good EXCEPT !.atts = <<>>],
   [Good EXCEPT !.atts = <<Att(TRUE, k1), Att(FALSE, NoKey)>>],
   [Good EXCEPT !.atts = <<Att(TRUE, NoKey)>>], \* forged attestation
   [Good EXCEPT !.domain = platform, !.node = platform, !.did = platform],
   [Good EXCEPT !.domain = odd]}

Anchor == [inclusion |-> TRUE, head |-> TRUE, leaf |-> Good,
           log |-> LogHost(log, FALSE, FALSE), didWeb |-> TRUE,
           signed |-> TRUE, key |-> kl, matches |-> TRUE]

MCProof ==
  {Anchor,
   [Anchor EXCEPT !.inclusion = FALSE],
   [Anchor EXCEPT !.head = FALSE],
   [Anchor EXCEPT !.leaf = NoProof],
   [Anchor EXCEPT !.leaf = [Good EXCEPT !.node = platform]],
   [Anchor EXCEPT !.leaf = Malformed],
   [Anchor EXCEPT !.log = LogHost(selfLog, FALSE, FALSE)],
   [Anchor EXCEPT !.log = LogHost(selfLog, TRUE, FALSE), !.leaf = NoProof],
   [Anchor EXCEPT !.log = LogHost(selfLog, FALSE, TRUE)],
   [Anchor EXCEPT !.log = Malformed],
   [Anchor EXCEPT !.didWeb = FALSE],
   [Anchor EXCEPT !.signed = FALSE],
   [Anchor EXCEPT !.key = k2],
   [Anchor EXCEPT !.matches = FALSE]}

\* Once both calls have been used, the instance keeps the receipts and proofs that
\* end in different ways.
MCFewReceipts ==
  {Good, [Good EXCEPT !.node = platform], [Good EXCEPT !.atts = <<Att(TRUE, NoKey)>>],
   [Good EXCEPT !.domain = platform, !.node = platform, !.did = platform]}

MCFewProofs == {Anchor, [Anchor EXCEPT !.leaf = [Good EXCEPT !.node = platform]]}

\* The issuer's own log, under an identifier that ends its name in a dot or names a
\* port.
MCOwnLogProofs == {[Anchor EXCEPT !.log = LogHost(selfLog, dot, ~dot)] : dot \in BOOLEAN}

MCFewServed == [MCServed EXCEPT ![villa] = {{k1}}]

Symmetry == Permutations(Run)

-----------------------------------------------------------------------------
\* Call r holds data that only a call with the page to itself is given.
Singular(r) ==
  \/ paste[r] \notin MCFewReceipts \cup {Malformed}
  \/ proof[r] \notin MCFewProofs \cup {NoProof}
  \/ \E d \in MCDomain : jwks[r] \in Served[d] \ MCFewServed[d]

Unused(r) == pc[r] = "idle" /\ paste[r] = Malformed

\* One call over all the data of the instance, two calls over a part of it.
Bounded == \A r \in Run : Singular(r) => \A s \in Run \ {r} : Unused(s)

PageNext == HNext /\ Bounded'

PageSpec == HInit /\ [][PageNext]_hvars /\ Fairness
=============================================================================
