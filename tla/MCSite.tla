------------------------------- MODULE MCSite -------------------------------
(***************************************************************************)
(* Small documents and small sites for Markdown and PublicRoutes.          *)
(***************************************************************************)
EXTENDS Markdown, PublicRoutes

CONSTANTS
  MaxLines,   \* bound: lines of a document
  MaxFiles,   \* bound: files of a site
  MaxRules    \* bound: header rules of a site

Line(kind, indent) == [kind |-> kind, indent |-> indent, id |-> <<>>]

MCLine ==
  {Line(kind, 0) : kind \in LineKind \ {"heading", "equals", "tildeInfo"}} \cup
  {Line("text", 2), Line("item", 2), Line("tick", 2)} \cup
  {[Line("heading", 0) EXCEPT !.id = id] : id \in {<<"setup">>, <<"notes">>}}

-----------------------------------------------------------------------------
At(dir, name, ext) == [dir |-> dir, name |-> name, ext |-> ext]

SpecA     == At("spec", "a", "")
SpecAText == At("spec", "a", "md")
RootA     == At("", "a", "")
RootB     == At("", "b", "")

MCFile == {SpecAText, At("spec", "a", "html"), At("", "a", "html"), At("", "a", "jsonld"), RootB}

MCRewrite ==
  {[source |-> At("spec", Slug, ""), destination |-> At("spec", Slug, "md")],
   [source |-> RootB, destination |-> RootA],
   [source |-> RootB, destination |-> At("", "a", "html")]}

Rule(covers, type, link) ==
  [covers |-> covers, exact |-> Cardinality(covers) = 1, type |-> type, link |-> link]

MCHeader ==
  {Rule({SpecA, SpecAText}, "text/markdown", NoPath), Rule({SpecA, RootA, RootB}, "text/html", NoPath),
   Rule({At("", "a", "jsonld")}, "application/ld+json", NoPath),
   Rule({SpecAText}, NoPath, SpecA)}

MCRoute == {SpecA, SpecAText, RootA, RootB, At("", "a", "jsonld")}

EmptySite ==
  [files |-> {}, dirs |-> {}, rewrites |-> <<>>, headers |-> <<>>,
   sitemap |-> {}, llms |-> {}, hrefs |-> {}]

\* A site one file, directory, rewrite or rule larger.
LargerSites(s) ==
  {[s EXCEPT !.files = @ \cup {f}] : f \in {g \in MCFile : Cardinality(s.files) < MaxFiles}} \cup
  {[s EXCEPT !.dirs = {RootA}]} \cup
  {[s EXCEPT !.rewrites = <<r>>] : r \in {q \in MCRewrite : s.rewrites = <<>>}} \cup
  {[s EXCEPT !.headers = Append(@, h)] : h \in {g \in MCHeader : Len(s.headers) < MaxRules}}

\* A site with its lists: in the sitemap what belongs there, or something else.
Listed(s) ==
  UNION {{[s EXCEPT !.llms = l, !.hrefs = h, !.sitemap = m] :
            h \in {{r} : r \in MCRoute} \cup {{}},
            m \in {{r \in l : IsHtmlPage(s, r)}, {SpecA}, {}}} : l \in SUBSET {SpecA, RootA}}
=============================================================================
