--------------------------- MODULE PublishedSite ---------------------------
(***************************************************************************)
(* What the publishing scripts promise a reader: the site shows the        *)
(* rendering of the documents it was published from, all of them and       *)
(* nothing else, at every moment.  New documents and their renderings      *)
(* appear together.                                                        *)
(***************************************************************************)
CONSTANTS
  Document,   \* the Markdown documents that may be published
  Collected,  \* those the source pack collects
  Content,    \* what a document may hold
  Nav,        \* what the navigation of the landing page may hold
  Missing     \* no document, no page

VARIABLES source, shown

Source == [doc : [Document -> Content \cup {Missing}], nav : Nav]

\* A page holds its document and the site's navigation; the pack its documents.
Rendering(s) ==
  [page |-> [d \in Document |->
               IF s.doc[d] = Missing THEN Missing ELSE [doc |-> s.doc[d], nav |-> s.nav]],
   pack |-> [d \in Collected |-> s.doc[d]]]

Init == source \in Source /\ shown = Rendering(source)

Publish == source' \in Source /\ shown' = Rendering(source')

Spec == Init /\ [][Publish]_<<source, shown>>
=============================================================================
