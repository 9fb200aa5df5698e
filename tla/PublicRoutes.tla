---------------------------- MODULE PublicRoutes ----------------------------
(***************************************************************************)
(* scripts/check-public-routes.mjs: the check that every public route of   *)
(* the site resolves to a file, with the right type, before it is          *)
(* published, and the same over the live site.                             *)
(*                                                                         *)
(* A path is a directory, a name and an extension.  A site is its files    *)
(* and directories, the rewrites and header rules of vercel.json, and the  *)
(* routes that the sitemap, llms.txt and the pages list.                   *)
(***************************************************************************)
EXTENDS Integers, SequencesExt

CONSTANTS
  Dir,        \* directories: "" is the root
  Documents,  \* those of documents, spec/ and docs/
  FileName,   \* file names
  Slug,       \* the parameter :slug of a rewrite
  NoPath      \* no route, no type, no link

Ext  == {"", "html", "md", "jsonld"}
Path == [dir : Dir, name : FileName, ext : Ext]

ASSUME PathAssumption == NoPath \notin Path

Type == {"text/html", "text/markdown", "application/ld+json"}

\* A header rule: the routes it covers, the type it sets and the canonical it links.
SiteType ==
  [files : SUBSET Path, dirs : SUBSET Path,
   rewrites : Seq([source : [dir : Dir, name : FileName \cup {Slug}, ext : Ext],
                   destination : [dir : Dir, name : FileName \cup {Slug}, ext : Ext]]),
   headers : Seq([covers : SUBSET Path, exact : BOOLEAN, type : Type \cup {NoPath},
                  link : Path \cup {NoPath}]),
   sitemap : SUBSET Path, llms : SUBSET Path, hrefs : SUBSET Path]

-----------------------------------------------------------------------------
\* fs.existsSync is true of a directory too.
fileExists(site, path) == path \in site.files \cup site.dirs

Html(path) == [path EXCEPT !.ext = "html"]

\* cleanUrls: a path without extension is served from its .html file.
resolveExisting(site, path) ==
  IF fileExists(site, path) THEN path
  ELSE IF path.ext = "" /\ fileExists(site, Html(path)) THEN Html(path) ELSE NoPath

\* The first rewrite whose source matches decides; :slug stands for one segment,
\* extension included.  A name with two extensions is no file's.
rewriteDestination(site, route) ==
  LET MatchesSource(item) ==
        /\ item.source.dir = route.dir
        /\ item.source.name = Slug \/ (item.source.name = route.name /\ item.source.ext = route.ext)
      match == SelectInSeq(site.rewrites, MatchesSource)
      to    == site.rewrites[match].destination
  IN  IF match = 0 THEN NoPath
      ELSE IF to.name # Slug THEN to
      ELSE IF to.ext = "" THEN [to EXCEPT !.name = route.name, !.ext = route.ext]
      ELSE IF route.ext = "" THEN [to EXCEPT !.name = route.name] ELSE NoPath

\* Mutant: rewrites before the file system.
resolveRouteRewritten(site, route) ==
  IF rewriteDestination(site, route) # NoPath
  THEN resolveExisting(site, rewriteDestination(site, route))
  ELSE resolveExisting(site, route)

\* The file system before the rewrites, as Vercel does it.
resolveRoute(site, route) ==
  IF resolveExisting(site, route) # NoPath THEN resolveExisting(site, route)
  ELSE IF rewriteDestination(site, route) # NoPath
  THEN resolveExisting(site, rewriteDestination(site, route)) ELSE NoPath

\* headerContentType: the rules that set a type for a route, the types they set, and
\* the last one.  Two different types fail.
SetsType(header, route) == route \in header.covers /\ header.type # NoPath

contentTypes(site, route) ==
  {site.headers[i].type : i \in {j \in DOMAIN site.headers : SetsType(site.headers[j], route)}}

headerContentType(site, route) ==
  LET rule == SelectLastInSeq(site.headers, LAMBDA h : SetsType(h, route))
  IN  IF rule = 0 THEN NoPath ELSE site.headers[rule].type

\* The first rule with a Link header.
linkHeaderFor(site, route) ==
  LET rule == SelectInSeq(site.headers, LAMBDA h : route \in h.covers /\ h.link # NoPath)
  IN  IF rule = 0 THEN NoPath ELSE site.headers[rule].link

linkHeaderRoutes(site) ==
  UNION {h.covers : h \in {g \in ToSet(site.headers) : g.link # NoPath /\ g.exact}}

\* By the route, and for a page by the file it resolves to.
expectedContentType(route, resolved) ==
  IF route.ext = "jsonld" THEN "application/ld+json"
  ELSE IF resolved # NoPath /\ resolved.ext = "html" THEN "text/html"
  ELSE IF route.dir \in Documents THEN "text/markdown" ELSE NoPath

IsHtmlPage(site, route) ==
  resolveRoute(site, route) # NoPath /\ resolveRoute(site, route).ext = "html"

-----------------------------------------------------------------------------
\* The sitemap lists the pages among the routes of llms.txt, and nothing else.
ListsAgree(site) == site.sitemap = {r \in site.llms : IsHtmlPage(site, r)}

LinksAreCanonical(site) ==
  \A r \in linkHeaderRoutes(site) : fileExists(site, r) /\ linkHeaderFor(site, r) \in site.llms

\* A public route resolves, and a rule sets the type its file has.
RoutePasses(site, route) ==
  LET resolved == resolveRoute(site, route)
      expected == expectedContentType(route, resolved)
  IN  /\ resolved # NoPath
      /\ expected # NoPath =>
           contentTypes(site, route) = {expected}

checkPublicRoutes(site) ==
  /\ ListsAgree(site)
  /\ LinksAreCanonical(site)
  /\ \A r \in site.sitemap \cup site.llms \cup site.hrefs : RoutePasses(site, r)

-----------------------------------------------------------------------------
\* Vercel, as the script's comments describe it: files first, never a directory;
\* the address of an .html file is redirected to the clean one; then the rewrites.
\* The type is the last rule's, or the extension's.
Served(site, path) ==
  IF path \in site.files THEN (IF path.ext = "html" THEN 308 ELSE 200)
  ELSE IF path.ext = "" /\ Html(path) \in site.files THEN 200 ELSE 404

TypeOf(file) ==
  CASE file.ext = "html"   -> "text/html"
    [] file.ext = "md"     -> "text/markdown"
    [] file.ext = "jsonld" -> "application/ld+json"
    [] OTHER               -> NoPath

Response(site, route) ==
  LET direct == Served(site, route)
      to     == rewriteDestination(site, route)
      path   == IF direct # 404 \/ to = NoPath THEN route ELSE to
      file   == IF path \in site.files THEN path ELSE Html(path)
      type   == headerContentType(site, route)
  IN  [status |-> Served(site, path),
       file   |-> file,
       type   |-> IF type # NoPath THEN type ELSE TypeOf(file),
       link   |-> linkHeaderFor(site, route)]

\* checkLiveRoutes: every route answers 200 itself, with its type and its canonical;
\* without a rule a route may name itself.
LivePasses(site, answer, route) ==
  LET expected == expectedContentType(route, resolveRoute(site, route))
      link     == linkHeaderFor(site, route)
  IN  /\ answer.status = 200
      /\ expected # NoPath => answer.type = expected
      /\ answer.link = link \/ (link = NoPath /\ answer.link = route)

checkLiveRoutes(site, answers) ==
  \A r \in site.sitemap \cup site.hrefs \cup linkHeaderRoutes(site) :
    LivePasses(site, answers[r], r)
=============================================================================
