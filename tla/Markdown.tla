------------------------------ MODULE Markdown ------------------------------
(***************************************************************************)
(* scripts/lib/markdown.mjs: how a document is cut into blocks, which      *)
(* lines have their links rewritten, and what ids headings get.            *)
(*                                                                         *)
(* A line is its kind, its indentation and, for a heading, the id of its   *)
(* text: a name and the number it ends with, if any.  "row" starts with a  *)
(* bar, "separator" with a bar and has only dashes, "dashes" is such a     *)
(* line without the first bar; "tick" and "tilde" are fences that can      *)
(* close a block, "tickInfo" and "tildeInfo" have an info string.  In a    *)
(* rendered document a list item is text from its first letter on: one of  *)
(* dashes only counts as an item here, never as a separator.               *)
(***************************************************************************)
EXTENDS Integers, SequencesExt

FenceKind == {"tick", "tickInfo", "tilde", "tildeInfo"}
BarKind   == {"row", "separator"}
RuleKind  == {"hr", "equals"}

LineKind ==
  {"blank", "text", "dashes", "heading", "quote", "item"} \cup FenceKind \cup BarKind \cup RuleKind

\* A heading has no indentation: with it, it is text.
LineType ==
  {l \in [kind : LineKind, indent : Nat, id : Seq(STRING \cup Nat)] :
     l.kind = "heading" => l.indent = 0}

-----------------------------------------------------------------------------
\* The first of the stops from i on; beyond the last of the lines if there is none.
Beyond(lines, i, stops) ==
  LET later == {j \in stops : i <= j /\ j <= Len(lines)}
  IN  IF later = {} THEN Len(lines) + 1 ELSE CHOOSE j \in later : \A k \in later : j <= k

\* The lines from i on that are not of these kinds.
Other(doc, kinds) == {j \in DOMAIN doc : doc[j].kind \notin kinds}

Numbers(first, beyond) == [n \in 1 .. beyond - first |-> first + n - 1]

Closes(line, opener) ==
  line.kind = (IF opener.kind \in {"tick", "tickInfo"} THEN "tick" ELSE "tilde")

\* The line after a row must read as a separator of bars and dashes.
OpensTable(doc, i) ==
  /\ doc[i].kind \in BarKind
  /\ i < Len(doc)
  /\ doc[i + 1].kind \in {"separator", "dashes", "hr"}

Items(doc) == {n \in DOMAIN doc : doc[n].kind = "item"}

\* The lines of a block that are in a set.
Picked(block, set) ==
  LET picked[k \in 0 .. Len(block)] ==
        IF k = 0 THEN <<>>
        ELSE IF block[k] \in set THEN Append(picked[k - 1], block[k]) ELSE picked[k - 1]
  IN  picked[Len(block)]

\* The position in a block of its second own item: one not indented beyond base.
NextItem(doc, block, base) ==
  Beyond(block, 2, {k \in DOMAIN block : block[k] \in Items(doc) /\ doc[block[k]].indent <= base})

\* renderList, of a block (its line numbers) whose first item is indented by base: the
\* lines in the order their text comes out.  The first item, the lines that continue
\* it, the list nested in it, then the other items.
renderList(doc, lines) ==
  LET list[p \in Seq(DOMAIN doc) \X Nat] ==
        IF p[1] = <<>> THEN <<>>
        ELSE LET next     == NextItem(doc, p[1], p[2])
                 rest     == SubSeq(p[1], 2, next - 1)
                 children == Picked(rest, Items(doc))
             IN  <<p[1][1]>> \o Picked(rest, DOMAIN doc \ Items(doc))
                   \o (IF children = <<>> THEN <<>>
                       ELSE list[<<children, doc[children[1]].indent>>])
                   \o list[<<SubSeq(p[1], next, Len(p[1])), p[2]>>]
  IN  list[<<lines, doc[lines[1]].indent>>]

\* One round of mdToHtml's loop, at line first: the block it pushes, the lines whose
\* text is in it, in order, and the line it goes on with.
Block(tag, first, lines, next) == [tag |-> tag, first |-> first, lines |-> lines, next |-> next]

Code(doc, i) ==
  LET end == Beyond(doc, i + 1, {j \in DOMAIN doc : Closes(doc[j], doc[i])})
  IN  Block("pre", i, Numbers(i + 1, end), end + 1)

Quote(doc, i) ==
  LET end == Beyond(doc, i, Other(doc, {"quote"}))
  IN  Block("blockquote", i, Numbers(i, end), end)

TableGreedy(doc, i) ==   \* mutant: the line after the table goes with it
  LET end == Beyond(doc, i + 2, Other(doc, BarKind))
  IN  Block("table", i, <<i>> \o Numbers(i + 2, end), end + 1)

Table(doc, i) ==
  LET end == Beyond(doc, i + 2, Other(doc, BarKind))
  IN  Block("table", i, <<i>> \o Numbers(i + 2, end), end)

List(doc, i) ==
  LET end == Beyond(doc, i, {j \in DOMAIN doc : \/ doc[j].kind = "blank"
                                                \/ doc[j].kind # "item" /\ doc[j].indent = 0})
  IN  Block("list", i, renderList(doc, Numbers(i, end)), end)

Paragraph(doc, i) ==
  LET end == Beyond(doc, i, Other(doc, {"text", "dashes"}))
  IN  Block("p", i, Numbers(i, end), end)

Round(doc, i) ==
  LET kind == doc[i].kind
  IN  CASE kind \in FenceKind    -> Code(doc, i)
        [] kind = "blank"        -> Block("none", i, <<>>, i + 1)
        [] kind \in RuleKind     -> Block("hr", i, <<>>, i + 1)
        [] kind = "heading"      -> Block("h", i, <<i>>, i + 1)
        [] kind = "quote"        -> Quote(doc, i)
        [] OpensTable(doc, i)    -> Table(doc, i)
        [] kind = "item"         -> List(doc, i)
        [] OTHER                 -> Paragraph(doc, i)

\* mdToHtml: the loop, for as many rounds as there are lines: all of them, unless a
\* round goes nowhere, and then it does so for ever.
mdToHtml(doc) ==
  LET loop[k \in 0 .. Len(doc)] ==
        IF k = 0 THEN [i |-> 1, out |-> <<>>]
        ELSE IF loop[k - 1].i > Len(doc) THEN loop[k - 1]
        ELSE LET block == Round(doc, loop[k - 1].i)
             IN  [i |-> block.next, out |-> Append(loop[k - 1].out, block)]
  IN  loop[Len(doc)].out

-----------------------------------------------------------------------------
headings(doc) == {b.first : b \in {c \in ToSet(mdToHtml(doc)) : c.tag = "h"}}

\* The id of the heading at line i: a repeat gets the number of earlier ones.
headingId(doc, i) ==
  LET repeats == Cardinality({n \in headings(doc) : n < i /\ doc[n].id = doc[i].id})
  IN  IF repeats = 0 THEN doc[i].id ELSE Append(doc[i].id, repeats)

\* rewriteLinks, and transform of build-source-pack.mjs: every fence line turns the
\* rewriting off or on again, whatever it is made of.
rewriteLinks(doc) ==
  {i \in DOMAIN doc :
     /\ doc[i].kind \notin FenceKind
     /\ Cardinality({j \in 1 .. i : doc[j].kind \in FenceKind}) % 2 = 0}
=============================================================================
