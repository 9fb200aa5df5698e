---------------------------- MODULE MCPublishing ----------------------------
(***************************************************************************)
(* A small instance of Publishing: a specification document, which is in   *)
(* the pack and in the sitemap and may be respaced, and a draft beside it, *)
(* which is in neither and may be withdrawn or added.  The text that a     *)
(* stamp stands for changes with the draft and with the navigation.        *)
(***************************************************************************)
EXTENDS Publishing

MCDoc       == {"spec/core.md", "spec/draft.md"}
MCCollected == {"spec/core.md"}
MCPath      == [d \in MCDoc |-> IF d = "spec/core.md" THEN "pages/spec/core.html"
                                ELSE "pages/spec/draft.html"]
MCFirstDoc  == [d \in MCDoc |-> [text |-> 1, layout |-> 1]]

MCWritten ==
  [d \in MCDoc |-> {MCFirstDoc[d]} \cup
     IF d = "spec/core.md" THEN {[text |-> 1, layout |-> 2]} ELSE {}]
MCFirstIndex == [nav |-> 1, text |-> 1, stamp |-> 0]
=============================================================================
