---------------------------- MODULE ImplementPage ----------------------------
(***************************************************************************)
(* implement.html: the page that makes a key for a host and signs a sample *)
(* offer with it.  Both buttons start run(): "Generate key & sign offer"   *)
(* with a fresh key, "Re-sign with same key" with the one in keyState.     *)
(*                                                                         *)
(* run() is async and disables its own button only, and the end of any     *)
(* call enables Re-sign, so several calls may be in flight.  They share    *)
(* keyState, the buttons and the result panel.  A stretch between two      *)
(* awaits that read or write one of these is one action.                   *)
(***************************************************************************)
EXTENDS Integers

CONSTANTS
  Call,     \* calls of run() that may be in flight
  Host,     \* host names the form may hold
  None,     \* no key, no host, no call
  MaxKeys   \* bound: keys the session makes

Button == {"sign", "reuse"}

\* A key pair: the host it was made for, which its kid is derived from, and its
\* number in the session.  Two keys of one host have the same kid.
Key == [host : Host, n : 1 .. MaxKeys]

\* What the panel shows: the key of the JWKS and the private key, the key that
\* signed the offer, the host of the documents, and the verdict.
Panel == [verdict : {"pass", "fail"}, documents : Key, signer : Key, host : Host]

ASSUME ImplementAssumption ==
  MaxKeys \in Nat /\ None \notin Host \cup Button \cup Key \cup Panel

VARIABLES
  made,        \* how many keys were generated
  keyState,    \* the key kept for Re-sign
  disabled,    \* disabled[b]
  label,       \* label[b]: its text is its own, or "Signing..."
  panel,       \* None: empty
  pc,          \* pc[c]: the await call c is at
  local,       \* local[c]: its button, host, label and key
  overlapped   \* history: two calls were in flight at once

vars == <<made, keyState, disabled, label, panel, pc, local, overlapped>>

NoLocal == [button |-> None, host |-> None, label |-> "own", key |-> None]

Init ==
  /\ made = 0 /\ keyState = None /\ panel = None
  /\ disabled = [b \in Button |-> b = "reuse"]
  /\ label = [b \in Button |-> "own"]
  /\ pc = [c \in Call |-> "idle"]
  /\ local = [c \in Call |-> NoLocal]
  /\ overlapped = FALSE

Quiet == \A c \in Call : pc[c] = "idle"

\* A host or a currency that does not validate: showFail, before anything else.
Refuse ==
  /\ \E b \in Button : ~disabled[b]
  /\ panel' = None
  /\ UNCHANGED <<made, keyState, disabled, label, pc, local, overlapped>>

PressForgetful(c, b, host) ==   \* mutant: every press forces a fresh key
  /\ pc[c] = "idle" /\ ~disabled[b]
  /\ disabled' = [disabled EXCEPT ![b] = TRUE]
  /\ label' = [label EXCEPT ![b] = "signing"]
  /\ keyState' = None
  /\ pc' = [pc EXCEPT ![c] = "generating"]
  /\ local' = [local EXCEPT ![c] =
                 [button |-> b, host |-> host, label |-> label[b], key |-> None]]
  /\ overlapped' = (overlapped \/ ~Quiet)
  /\ UNCHANGED <<made, panel>>

\* Press a button, as far as the first real await: Generate drops the kept key, and
\* ensureKey keeps to a key of the same host.
Press(c, b, host) ==
  LET kept == IF b = "sign" THEN None ELSE keyState
      held == kept # None /\ kept.host = host
  IN  /\ pc[c] = "idle" /\ ~disabled[b]
      /\ disabled' = [disabled EXCEPT ![b] = TRUE]
      /\ label' = [label EXCEPT ![b] = "signing"]
      /\ keyState' = kept
      /\ pc' = [pc EXCEPT ![c] = IF held THEN "signing" ELSE "generating"]
      /\ local' = [local EXCEPT ![c] =
                     [button |-> b, host |-> host, label |-> label[b],
                      key |-> IF held THEN kept ELSE None]]
      /\ overlapped' = (overlapped \/ ~Quiet)
      /\ UNCHANGED <<made, panel>>

\* generateKey and the exports: the new key is kept, whatever was kept meanwhile.
Generated(c) ==
  LET key == [host |-> local[c].host, n |-> made + 1]
  IN  /\ pc[c] = "generating" /\ made < MaxKeys
      /\ made' = made + 1
      /\ keyState' = key
      /\ pc' = [pc EXCEPT ![c] = "signing"]
      /\ local' = [local EXCEPT ![c].key = key]
      /\ UNCHANGED <<disabled, label, panel, overlapped>>

FinishReuse(c, enabled) ==   \* mutant: finally enables Re-sign, whatever was pressed
  /\ pc' = [pc EXCEPT ![c] = "idle"]
  /\ local' = [local EXCEPT ![c] = NoLocal]
  /\ disabled' = [disabled EXCEPT !["reuse"] = FALSE]
  /\ label' = [label EXCEPT ![local[c].button] = local[c].label]

\* finally: the call's button gets back the text it had; these are enabled.
Finish(c, enabled) ==
  /\ pc' = [pc EXCEPT ![c] = "idle"]
  /\ local' = [local EXCEPT ![c] = NoLocal]
  /\ disabled' = [b \in Button |-> disabled[b] /\ b \notin enabled]
  /\ label' = [label EXCEPT ![local[c].button] = local[c].label]

\* A crypto call rejects: showFail empties the panel.
Fails(c) ==
  /\ pc[c] # "idle"
  /\ panel' = None
  /\ Finish(c, {local[c].button})
  /\ UNCHANGED <<made, keyState, overlapped>>

\* The JWKS holds one key, under the kid of its host: the signature is its own.
selfVerify(signer, jwks) == IF signer = jwks THEN "pass" ELSE "fail"

ShownShared(c) == keyState   \* mutant: read again after the await

\* The key whose public and private halves the documents show: the call's own.
Shown(c) == local[c].key

\* The offer is signed and checked: the panel is rendered, Re-sign is enabled.
Signed(c) ==
  /\ pc[c] = "signing"
  /\ panel' = [verdict |-> selfVerify(local[c].key, Shown(c)), documents |-> Shown(c),
               signer |-> local[c].key, host |-> local[c].host]
  /\ Finish(c, {local[c].button, "reuse"})
  /\ UNCHANGED <<made, keyState, overlapped>>

Next ==
  \/ Refuse
  \/ \E c \in Call, b \in Button, host \in Host : Press(c, b, host)
  \/ \E c \in Call : Generated(c) \/ Signed(c) \/ Fails(c)

Spec == Init /\ [][Next]_vars

\* The browser settles every promise of its crypto, one way or the other.
FairSpec == Spec /\ \A c \in Call : WF_vars(Generated(c) \/ Signed(c) \/ Fails(c))

-----------------------------------------------------------------------------
TypeOK ==
  /\ made \in 0 .. MaxKeys
  /\ keyState \in Key \cup {None}
  /\ disabled \in [Button -> BOOLEAN]
  /\ label \in [Button -> {"own", "signing"}]
  /\ panel \in Panel \cup {None}
  /\ pc \in [Call -> {"idle", "generating", "signing"}]
  /\ local \in [Call -> [button : Button \cup {None}, host : Host \cup {None},
                         label : {"own", "signing"}, key : Key \cup {None}]]
  /\ overlapped \in BOOLEAN

\* Whatever calls overlap, the four documents are of one key and one host, so what a
\* host publishes from the panel verifies the offer beside it, and "Signature did
\* not verify -- please report this" is never shown.
PanelIsOneKey ==
  panel # None =>
    /\ panel.verdict = "pass"
    /\ panel.documents = panel.signer
    /\ panel.host = panel.documents.host

\* When no two calls ever overlapped, Re-sign shows the key that is on the panel
\* ("Re-sign with the same key you already generated", implement.html:382) and
\* Generate never does.  With overlap it may not: a Re-sign that starts while
\* Generate waits for its key makes a key of its own, under the same kid.
SameKeyMeansSame ==
  [][\A c \in Call :
       /\ Signed(c) /\ ~overlapped
       /\ panel # None /\ panel.host = local[c].host
       => (panel'.documents = panel.documents <=> local[c].button = "reuse")]_vars

\* Every press comes to an end that enables its button again.
EveryCallEnds ==
  \A c \in Call, b \in Button : (local[c].button = b) ~> ~disabled[b]
=============================================================================
