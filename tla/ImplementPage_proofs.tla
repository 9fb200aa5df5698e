------------------------- MODULE ImplementPage_proofs -------------------------
(***************************************************************************)
(* Proofs about ImplementPage: its types, that the documents of the panel  *)
(* are of one key, that a re-sign without overlap keeps the key, and that  *)
(* no call is ever set back on its way to enabling its button.             *)
(***************************************************************************)
EXTENDS ImplementPage, TLAPS

\* What a call holds: a button and a host while it is in flight, and from the first
\* await on a key of that host.
CallsHold ==
  \A c \in Call :
    /\ pc[c] = "idle" => local[c] = NoLocal
    /\ pc[c] # "idle" => local[c].button \in Button /\ local[c].host \in Host
    /\ pc[c] = "signing" => local[c].key \in Key /\ local[c].key.host = local[c].host

\* Without overlap one call is in flight at most, the key it signs with is the kept
\* one, and between calls that is the key of the panel.  A re-sign for the panel's
\* host has that key; the key of Generate is newer.
SoloKeys ==
  ~overlapped =>
    /\ \A c, d \in Call : pc[c] # "idle" /\ pc[d] # "idle" => c = d
    /\ \A c \in Call : pc[c] = "signing" => keyState = local[c].key
    /\ panel # None /\ Quiet => keyState = panel.documents
    /\ \A c \in Call :
         panel # None /\ local[c].button = "reuse" /\ panel.host = local[c].host =>
           pc[c] = "signing" /\ local[c].key = panel.documents
    /\ \A c \in Call :
         panel # None /\ local[c].button = "sign" /\ pc[c] = "signing" =>
           panel.documents.n < local[c].key.n

IInv ==
  /\ TypeOK
  /\ CallsHold
  /\ PanelIsOneKey
  /\ keyState # None => keyState.n <= made
  /\ \A c \in Call : pc[c] = "signing" => local[c].key.n <= made
  /\ panel # None => panel.documents.n <= made
  /\ SoloKeys
-----------------------------------------------------------------------------
LEMMA InitHolds == Init => IInv
<1> SUFFICES ASSUME Init PROVE IInv
  OBVIOUS
<1>1. TypeOK
  <2>1. made \in 0 .. MaxKeys
    BY ImplementAssumption DEF Init
  <2>2. disabled \in [Button -> BOOLEAN]
    BY Zenon DEF Init
  <2> QED
    BY <2>1, <2>2 DEF Init, TypeOK, NoLocal, Button
<1>2. CallsHold /\ SoloKeys
  BY DEF Init, CallsHold, SoloKeys, Quiet
<1> QED
  BY <1>1, <1>2 DEF Init, IInv, PanelIsOneKey

LEMMA RefuseKeeps == ASSUME IInv, Refuse PROVE IInv'
BY DEF IInv, Refuse, TypeOK, CallsHold, PanelIsOneKey, SoloKeys, Quiet

LEMMA PressKeeps ==
  ASSUME IInv, NEW c \in Call, NEW b \in Button, NEW host \in Host, Press(c, b, host)
  PROVE  IInv'
<1> DEFINE kept == IF b = "sign" THEN None ELSE keyState
           held == kept # None /\ kept.host = host
<1>0. /\ pc[c] = "idle"
      /\ keyState' = kept
      /\ pc' = [pc EXCEPT ![c] = IF held THEN "signing" ELSE "generating"]
      /\ local' = [local EXCEPT ![c] =
                     [button |-> b, host |-> host, label |-> label[b],
                      key |-> IF held THEN kept ELSE None]]
      /\ disabled' = [disabled EXCEPT ![b] = TRUE]
      /\ label' = [label EXCEPT ![b] = "signing"]
      /\ overlapped' = (overlapped \/ ~Quiet)
      /\ UNCHANGED <<made, panel>>
  BY DEF Press
<1>1. kept \in Key \cup {None} /\ (kept # None => kept = keyState)
  BY DEF IInv, TypeOK
<1>2. TypeOK'
  BY <1>0, <1>1 DEF IInv, TypeOK, Button, Quiet
<1>3. /\ pc'[c] = IF held THEN "signing" ELSE "generating"
      /\ local'[c] = [button |-> b, host |-> host, label |-> label[b],
                      key |-> IF held THEN kept ELSE None]
      /\ \A d \in Call \ {c} : pc'[d] = pc[d] /\ local'[d] = local[d]
  BY <1>0 DEF IInv, TypeOK
<1> HIDE DEF kept
<1>4. CallsHold'
  BY <1>1, <1>3 DEF IInv, CallsHold
<1>5. PanelIsOneKey' /\ (keyState # None => keyState.n <= made)'
      /\ (panel # None => panel.documents.n <= made)'
  BY <1>0, <1>1 DEF IInv, PanelIsOneKey
<1>6. (\A d \in Call : pc[d] = "signing" => local[d].key.n <= made)'
  BY <1>0, <1>1, <1>3 DEF IInv
<1>7. SoloKeys'
  <2> SUFFICES ASSUME ~overlapped' PROVE SoloKeys!2'
    BY DEF SoloKeys
  <2>1. ~overlapped /\ (\A d \in Call : pc[d] = "idle")
    BY <1>0 DEF Quiet
  <2>2. \A d \in Call \ {c} : pc'[d] = "idle" /\ local'[d] = NoLocal
    BY <1>3, <2>1 DEF IInv, CallsHold
  <2>3. panel # None => panel = panel' /\ keyState = panel.documents
                        /\ panel.host = panel.documents.host
    BY <1>0, <2>1 DEF IInv, SoloKeys, Quiet, PanelIsOneKey
  <2>4. NoLocal.button = None /\ None \notin Button
    BY ImplementAssumption DEF NoLocal
  <2>5. "sign" \in Button /\ "reuse" \in Button
    BY DEF Button
  <2>6. b = "sign" => kept = None
    BY DEF kept
  <2>7. b = "reuse" => kept = keyState
    BY DEF kept
  <2> QED
    BY <1>0, <1>1, <1>3, <2>1, <2>2, <2>3, <2>4, <2>5, <2>6, <2>7, ImplementAssumption
    DEF Quiet, IInv, TypeOK, Panel
<1> QED
  BY <1>2, <1>4, <1>5, <1>6, <1>7, <1>0 DEF IInv

LEMMA GeneratedKeeps == ASSUME IInv, NEW c \in Call, Generated(c) PROVE IInv'
<1> DEFINE key == [host |-> local[c].host, n |-> made + 1]
<1>0. /\ pc[c] = "generating" /\ made < MaxKeys
      /\ made' = made + 1
      /\ keyState' = key
      /\ pc' = [pc EXCEPT ![c] = "signing"]
      /\ local' = [local EXCEPT ![c].key = key]
      /\ UNCHANGED <<disabled, label, panel, overlapped>>
  BY DEF Generated
<1>1. key \in Key /\ key.host = local[c].host /\ key.n = made + 1
  BY <1>0, ImplementAssumption DEF IInv, TypeOK, CallsHold, Key
<1>2. /\ pc'[c] = "signing" /\ local'[c] = [local[c] EXCEPT !.key = key]
      /\ local'[c].key = key /\ local'[c].host = local[c].host
      /\ local'[c].button = local[c].button
      /\ \A d \in Call \ {c} : pc'[d] = pc[d] /\ local'[d] = local[d]
  BY <1>0 DEF IInv, TypeOK
<1>3. TypeOK'
  BY <1>0, <1>1, <1>2, ImplementAssumption DEF IInv, TypeOK
<1> HIDE DEF key
<1>4. CallsHold'
  BY <1>0, <1>1, <1>2 DEF IInv, CallsHold
<1>5. PanelIsOneKey' /\ (keyState # None => keyState.n <= made)'
  BY <1>0, <1>1 DEF IInv, PanelIsOneKey, TypeOK
<1>6. /\ (panel # None => panel.documents.n <= made)'
      /\ (\A d \in Call : pc[d] = "signing" => local[d].key.n <= made)'
  BY <1>0, <1>1, <1>2 DEF IInv, TypeOK, CallsHold, Panel, Key
<1>7. SoloKeys'
  <2> SUFFICES ASSUME ~overlapped' PROVE SoloKeys!2'
    BY DEF SoloKeys
  <2>1. ~overlapped /\ \A d \in Call \ {c} : pc[d] = "idle"
    BY <1>0 DEF IInv, SoloKeys
  <2>2. \A d \in Call \ {c} : local[d].button \notin Button
    BY <2>1, ImplementAssumption DEF IInv, CallsHold, NoLocal
  <2>3. panel # None => panel.documents.n < key.n
    BY <1>0, <1>1 DEF IInv, TypeOK, Panel, Key
  <2>4. panel # None /\ local[c].button = "reuse" => panel.host # local[c].host
    BY <1>0, <2>1 DEF IInv, SoloKeys
  <2>5. ~Quiet'
    BY <1>2 DEF Quiet
  <2>6. "sign" \in Button /\ "reuse" \in Button
    BY DEF Button
  <2> QED
    BY <1>0, <1>1, <1>2, <2>1, <2>2, <2>3, <2>4, <2>5, <2>6
<1> QED
  BY <1>3, <1>4, <1>5, <1>6, <1>7 DEF IInv

\* What the end of a call leaves: the call is idle, the others are as they were.
LEMMA FinishLeaves ==
  ASSUME IInv, NEW c \in Call, pc[c] # "idle", NEW enabled, Finish(c, enabled)
  PROVE  /\ pc' \in [Call -> {"idle", "generating", "signing"}]
         /\ disabled' \in [Button -> BOOLEAN]
         /\ label' \in [Button -> {"own", "signing"}]
         /\ pc'[c] = "idle" /\ local'[c] = NoLocal
         /\ \A d \in Call \ {c} : pc'[d] = pc[d] /\ local'[d] = local[d]
         /\ local' \in [Call -> [button : Button \cup {None}, host : Host \cup {None},
                                 label : {"own", "signing"}, key : Key \cup {None}]]
<1>1. disabled' \in [Button -> BOOLEAN]
  BY Zenon DEF Finish
<1>2. NoLocal \in [button : Button \cup {None}, host : Host \cup {None},
                   label : {"own", "signing"}, key : Key \cup {None}]
  BY DEF NoLocal
<1> QED
  BY <1>1, <1>2 DEF Finish, IInv, TypeOK

LEMMA FailsKeeps == ASSUME IInv, NEW c \in Call, Fails(c) PROVE IInv'
<1>0. pc[c] # "idle" /\ panel' = None /\ Finish(c, {local[c].button})
      /\ UNCHANGED <<made, keyState, overlapped>>
  BY DEF Fails
<1>1. TypeOK'
  BY <1>0, FinishLeaves DEF IInv, TypeOK
<1>2. CallsHold'
  BY <1>0, FinishLeaves DEF IInv, CallsHold
<1>3. SoloKeys'
  BY <1>0, FinishLeaves DEF IInv, SoloKeys
<1>4. (\A d \in Call : pc[d] = "signing" => local[d].key.n <= made)'
  BY <1>0, FinishLeaves DEF IInv
<1> QED
  BY <1>0, <1>1, <1>2, <1>3, <1>4 DEF IInv, PanelIsOneKey

LEMMA SignedKeeps == ASSUME IInv, NEW c \in Call, Signed(c) PROVE IInv'
<1>0. /\ pc[c] = "signing"
      /\ panel' = [verdict |-> selfVerify(local[c].key, local[c].key),
                   documents |-> local[c].key, signer |-> local[c].key,
                   host |-> local[c].host]
      /\ Finish(c, {local[c].button, "reuse"})
      /\ UNCHANGED <<made, keyState, overlapped>>
  BY DEF Signed, Shown
<1>1. local[c].key \in Key /\ local[c].host \in Host /\ local[c].key.host = local[c].host
      /\ local[c].key.n <= made
  BY <1>0 DEF IInv, CallsHold
<1>2. panel' \in Panel /\ panel'.documents = local[c].key /\ PanelIsOneKey'
  BY <1>0, <1>1 DEF Panel, PanelIsOneKey, selfVerify
<1>3. TypeOK'
  BY <1>0, <1>2, FinishLeaves DEF IInv, TypeOK
<1>4. CallsHold'
  BY <1>0, FinishLeaves DEF IInv, CallsHold
<1>5. SoloKeys'
  <2> SUFFICES ASSUME ~overlapped' PROVE SoloKeys!2'
    BY DEF SoloKeys
  <2>1. ~overlapped /\ keyState = local[c].key /\ \A d \in Call \ {c} : pc[d] = "idle"
    BY <1>0 DEF IInv, SoloKeys
  <2>2. \A d \in Call : pc'[d] = "idle" /\ local'[d] = NoLocal
    BY <1>0, <2>1, FinishLeaves DEF IInv, CallsHold
  <2>3. NoLocal.button # "sign" /\ NoLocal.button # "reuse"
    BY ImplementAssumption DEF NoLocal, Button
  <2> QED
    BY <1>0, <1>2, <2>1, <2>2, <2>3
<1>6. (\A d \in Call : pc[d] = "signing" => local[d].key.n <= made)'
  BY <1>0, FinishLeaves DEF IInv
<1> QED
  BY <1>0, <1>1, <1>2, <1>3, <1>4, <1>5, <1>6 DEF IInv

-----------------------------------------------------------------------------
LEMMA Step == IInv /\ [Next]_vars => IInv'
<1> SUFFICES ASSUME IInv, [Next]_vars PROVE IInv'
  OBVIOUS
<1>1. CASE Refuse
  BY <1>1, RefuseKeeps
<1>2. ASSUME NEW c \in Call, NEW b \in Button, NEW host \in Host, Press(c, b, host)
      PROVE  IInv'
  BY <1>2, PressKeeps
<1>3. ASSUME NEW c \in Call, Generated(c) PROVE IInv'
  BY <1>3, GeneratedKeeps
<1>4. ASSUME NEW c \in Call, Signed(c) PROVE IInv'
  BY <1>4, SignedKeeps
<1>5. ASSUME NEW c \in Call, Fails(c) PROVE IInv'
  BY <1>5, FailsKeeps
<1>6. CASE UNCHANGED vars
  BY <1>6 DEF vars, IInv, TypeOK, CallsHold, PanelIsOneKey, SoloKeys, Quiet
<1> QED
  BY <1>1, <1>2, <1>3, <1>4, <1>5, <1>6 DEF Next

\* The invariant that carries the others.
THEOREM Invariant == Spec => []IInv
BY InitHolds, Step, PTL DEF Spec

\* The page's variables keep their types.
THEOREM Typing == Spec => []TypeOK
<1>1. IInv => TypeOK
  BY DEF IInv
<1> QED
  BY <1>1, Invariant, PTL

\* The four documents on the panel of implement.html are always of one key and one
\* host, for any number of overlapping calls.
THEOREM OneKey == Spec => []PanelIsOneKey
<1>1. IInv => PanelIsOneKey
  BY DEF IInv
<1> QED
  BY <1>1, Invariant, PTL

\* Without overlap, Re-sign shows the key of the panel and Generate another.
THEOREM SameKey == Spec => SameKeyMeansSame
<1>1. ASSUME IInv, NEW c \in Call, Signed(c), ~overlapped, panel # None,
             panel.host = local[c].host
      PROVE  panel'.documents = panel.documents <=> local[c].button = "reuse"
  <2>1. pc[c] = "signing" /\ panel'.documents = local[c].key
    BY <1>1 DEF Signed, Shown
  <2>2. CASE local[c].button = "reuse"
    BY <1>1, <2>1, <2>2 DEF IInv, SoloKeys
  <2>3. CASE local[c].button = "sign"
    <3>1. panel.documents.n < local[c].key.n /\ panel.documents.n \in Int
      BY <1>1, <2>1, <2>3 DEF IInv, SoloKeys, TypeOK, Panel, Key
    <3> QED
      BY <2>1, <2>3, <3>1
  <2> QED
    BY <1>1, <2>1, <2>2, <2>3 DEF IInv, CallsHold, Button
<1>2. IInv => [\A c \in Call :
                /\ Signed(c) /\ ~overlapped
                /\ panel # None /\ panel.host = local[c].host
                => (panel'.documents = panel.documents <=> local[c].button = "reuse")]_vars
  BY <1>1
<1> QED
  BY <1>2, Invariant, PTL DEF SameKeyMeansSame

-----------------------------------------------------------------------------
\* A disabled Generate is one that a call under way will enable, and only that call:
\* the button is never left disabled, nor enabled under a call of its own.
GenerateIsHeld ==
  /\ disabled["sign"] <=> \E c \in Call : local[c].button = "sign"
  /\ \A c, d \in Call : local[c].button = "sign" /\ local[d].button = "sign" => c = d

\* How many awaits a call still has before it at most.
Remaining(c) ==
  CASE pc[c] = "generating" -> 2
    [] pc[c] = "signing" -> 1
    [] OTHER -> 0

\* What settles in a call brings it closer to its end, nothing sets it back, and when
\* it ends its button is enabled.
CallsAdvance ==
  [][\A c \in Call :
       /\ Generated(c) \/ Signed(c) \/ Fails(c) => Remaining(c)' < Remaining(c)
       /\ pc[c] # "idle" => Remaining(c)' <= Remaining(c)
       /\ pc[c] # "idle" /\ pc'[c] = "idle" => ~disabled'[local[c].button]]_vars

\* What the end of a call does to the buttons: its own is enabled, and Generate is
\* touched by no other call.
LEMMA FinishEnables ==
  ASSUME IInv, NEW c \in Call, pc[c] # "idle", NEW enabled, local[c].button \in enabled,
         enabled \subseteq {local[c].button, "reuse"}, Finish(c, enabled)
  PROVE  /\ local[c].button \in Button
         /\ ~disabled'[local[c].button]
         /\ local[c].button # "sign" => disabled'["sign"] = disabled["sign"]
<1>1. local[c].button \in Button /\ "sign" \in Button
  BY DEF IInv, CallsHold, Button
<1>2. \A b \in Button : disabled'[b] = (disabled[b] /\ b \notin enabled)
  BY Zenon DEF Finish
<1>3. ~disabled'[local[c].button]
  BY <1>1, <1>2, Zenon
<1>4. ASSUME local[c].button # "sign" PROVE disabled'["sign"] = disabled["sign"]
  <2>1. "sign" \notin enabled
    BY <1>4
  <2>2. disabled["sign"] \in BOOLEAN
    BY <1>1 DEF IInv, TypeOK
  <2> QED
    BY <1>1, <1>2, <2>1, <2>2, Zenon
<1> QED
  BY <1>1, <1>3, <1>4

\* Generate is held by one call at a time, from its press to the end of that call.
THEOREM Held == Spec => []GenerateIsHeld
<1>0. NoLocal.button # "sign" /\ NoLocal.button # "reuse" /\ "sign" \in Button
  BY ImplementAssumption DEF NoLocal, Button
<1>1. Init => GenerateIsHeld
  BY <1>0 DEF Init, GenerateIsHeld
<1>2. IInv /\ GenerateIsHeld /\ [Next]_vars => GenerateIsHeld'
  <2> SUFFICES ASSUME IInv, GenerateIsHeld, [Next]_vars PROVE GenerateIsHeld'
    OBVIOUS
  <2>1. CASE Refuse \/ UNCHANGED vars
    BY <2>1 DEF Refuse, vars, GenerateIsHeld
  <2>2. ASSUME NEW c \in Call, NEW b \in Button, NEW host \in Host, Press(c, b, host)
        PROVE  GenerateIsHeld'
    <3>1. /\ local'[c].button = b
          /\ \A d \in Call \ {c} : local'[d] = local[d]
      BY <2>2 DEF Press, IInv, TypeOK
    <3>2. /\ local[c].button # "sign" /\ ~disabled[b]
          /\ disabled' = [disabled EXCEPT ![b] = TRUE]
      BY <1>0, <2>2 DEF Press, IInv, CallsHold
    <3>3. CASE b = "sign"
      <4>1. disabled'["sign"]
        BY <1>0, <3>2, <3>3 DEF IInv, TypeOK
      <4>2. \A d \in Call : local[d].button # "sign"
        BY <3>2, <3>3 DEF GenerateIsHeld
      <4> QED
        BY <3>1, <3>3, <4>1, <4>2 DEF GenerateIsHeld
    <3>4. CASE b # "sign"
      <4>1. disabled'["sign"] = disabled["sign"]
        BY <1>0, <3>2, <3>4 DEF IInv, TypeOK
      <4>2. \A d \in Call : local'[d].button = "sign" <=> local[d].button = "sign"
        BY <3>1, <3>2, <3>4
      <4> QED
        BY <4>1, <4>2 DEF GenerateIsHeld
    <3> QED
      BY <3>3, <3>4
  <2>3. ASSUME NEW c \in Call, Generated(c) PROVE GenerateIsHeld'
    <3>1. /\ disabled' = disabled
          /\ \A d \in Call : local'[d].button = local[d].button
      BY <2>3 DEF Generated, IInv, TypeOK
    <3> QED
      BY <3>1 DEF GenerateIsHeld
  <2>4. ASSUME NEW c \in Call, pc[c] # "idle", NEW enabled, local[c].button \in enabled,
               enabled \subseteq {local[c].button, "reuse"}, Finish(c, enabled)
        PROVE  GenerateIsHeld'
    <3>1. /\ local'[c].button # "sign"
          /\ \A d \in Call \ {c} : local'[d] = local[d]
      BY <1>0, <2>4, FinishLeaves
    <3>2. CASE local[c].button = "sign"
      <4>1. ~disabled'["sign"]
        BY <2>4, <3>2, FinishEnables
      <4>2. \A d \in Call \ {c} : local[d].button # "sign"
        BY <3>2 DEF GenerateIsHeld
      <4> QED
        BY <3>1, <4>1, <4>2 DEF GenerateIsHeld
    <3>3. CASE local[c].button # "sign"
      <4>1. disabled'["sign"] = disabled["sign"]
        BY <2>4, <3>3, FinishEnables
      <4>2. \A d \in Call : local'[d].button = "sign" <=> local[d].button = "sign"
        BY <3>1, <3>3
      <4> QED
        BY <4>1, <4>2 DEF GenerateIsHeld
    <3> QED
      BY <3>2, <3>3
  <2>5. ASSUME NEW c \in Call, Signed(c) \/ Fails(c) PROVE GenerateIsHeld'
    BY <2>4, <2>5 DEF Signed, Fails
  <2> QED
    BY <2>1, <2>2, <2>3, <2>5 DEF Next
<1> QED
  BY <1>1, <1>2, Invariant, PTL DEF Spec

\* The safety half of "every press comes to an end that enables its button again": what
\* fairness adds is only that the browser settles what a call waits for, and a press
\* waits for two things at most.
THEOREM NeverSetBack == Spec => CallsAdvance
<1> DEFINE Advance(c) ==
      /\ Generated(c) \/ Signed(c) \/ Fails(c) => Remaining(c)' < Remaining(c)
      /\ pc[c] # "idle" => Remaining(c)' <= Remaining(c)
      /\ pc[c] # "idle" /\ pc'[c] = "idle" => ~disabled'[local[c].button]
<1>1. IInv /\ [Next]_vars => [\A c \in Call : Advance(c)]_vars
  <2> SUFFICES ASSUME IInv, Next, NEW q \in Call PROVE Advance(q)
    OBVIOUS
  <2>1. ASSUME NEW c \in Call, Signed(c) \/ Fails(c)
        PROVE  /\ pc[c] # "idle" /\ pc'[c] = "idle" /\ ~disabled'[local[c].button]
               /\ \A d \in Call \ {c} : pc'[d] = pc[d]
    <3>1. /\ pc[c] # "idle"
          /\ Finish(c, {local[c].button, "reuse"}) \/ Finish(c, {local[c].button})
      BY <2>1 DEF Signed, Fails
    <3> QED
      BY <3>1, FinishLeaves, FinishEnables
  <2>2. ASSUME NEW c \in Call, Generated(c)
        PROVE  /\ pc[c] = "generating" /\ pc'[c] = "signing"
               /\ \A d \in Call \ {c} : pc'[d] = pc[d]
    BY <2>2 DEF Generated, IInv, TypeOK
  <2>3. ASSUME NEW c \in Call, NEW b \in Button, NEW host \in Host, Press(c, b, host)
        PROVE  /\ pc[c] = "idle" /\ pc'[c] # "idle"
               /\ \A d \in Call \ {c} : pc'[d] = pc[d]
    BY <2>3 DEF Press, IInv, TypeOK
  <2>4. CASE Refuse
    BY <2>1, <2>2, <2>4 DEF Refuse, Remaining
  <2>5. pc[q] \in {"idle", "generating", "signing"}
    BY DEF IInv, TypeOK
  <2> QED
    BY <2>1, <2>2, <2>3, <2>4, <2>5 DEF Next, Remaining
<1> QED
  BY <1>1, Invariant, PTL DEF Spec, CallsAdvance
=============================================================================
