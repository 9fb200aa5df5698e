----------------------------- MODULE Publishing -----------------------------
(***************************************************************************)
(* The publishing scripts: Markdown documents are rendered to pages        *)
(* (build-pages), collected in the source pack (build-source-pack) and     *)
(* dated in the sitemap (build-sitemap); all of these are committed with   *)
(* the documents.  CI refuses a pull request whose copies are not those    *)
(* the scripts would write, or whose landing page does not announce a      *)
(* change of the specification (check-updated-stamp).                      *)
(*                                                                         *)
(* An author works on a branch, over several days, while the pull requests *)
(* of others land on main.  Git and its host are external: of a history    *)
(* only the tree of its head and the day of the last commit that touched   *)
(* each file are kept, which is all the scripts ask of it, and of a branch *)
(* the tree it was cut from, which a merge goes back to.                   *)
(***************************************************************************)
EXTENDS Naturals, FiniteSets

CONSTANTS
  Doc,           \* Markdown documents under spec/ and docs/, by path
  SpecDoc,       \* those under spec/
  MANIFEST,      \* those the source pack collects
  Routed,        \* those whose page is in the sitemap
  outputPathFor, \* the page of each document
  Written,       \* what each may hold: what it says, and its white space and links
  Text,          \* what the landing page may say
  Nav,           \* its navigation
  Absent,        \* no file
  FirstDoc,      \* what the documents hold to begin with
  FirstIndex,    \* and the landing page
  Squash,        \* whether pull requests may be squashed
  Strict,        \* whether a branch must be up to date with main to be merged
  LastDay,       \* bound: the last day
  MaxEdits       \* bound: edits, stamps and other authors' pull requests

Index   == "index.html"
Pack    == "pages/source-pack.html"
Sitemap == "sitemap.xml"

Page  == {outputPathFor[d] : d \in Doc}
File  == Doc \cup Page \cup {Index, Pack}
Body  == UNION {Written[d] : d \in Doc}
Day   == 0 .. LastDay

ASSUME PathAssumption ==
  /\ SpecDoc \subseteq Doc /\ MANIFEST \subseteq Doc /\ Routed \subseteq Doc
  /\ outputPathFor \in [Doc -> STRING] /\ Doc \subseteq STRING
  /\ \A c, d \in Doc : outputPathFor[c] = outputPathFor[d] => c = d
  /\ Page \cap Doc = {} /\ {Index, Pack, Sitemap} \cap (Page \cup Doc) = {}
  /\ \A d \in Doc : \A b \in Written[d] : b \in [text : {b.text}, layout : {b.layout}]
  /\ Absent \notin Body
  /\ \A d \in Doc : FirstDoc[d] \in Written[d] \cup {Absent}
  /\ \A d \in MANIFEST \cup Routed : FirstDoc[d] # Absent
  /\ FirstIndex \in [nav : Nav, text : Text, stamp : {0}]
  /\ LastDay \in Nat /\ MaxEdits \in Nat 
  /\ Squash \in BOOLEAN /\ Strict \in BOOLEAN

\* The file each route of the sitemap is dated by.
ROUTES == Routed \cup {Index, Pack}

VARIABLES
  work,       \* the author's working tree
  branch,     \* the branch: the tree of its head, and when each file was touched
  main,       \* the same of main, which is what is deployed
  base,       \* the tree of main that the branch was cut from, or last took in
  current,    \* the branch holds all of main
  passed,     \* CI has passed on the branch's head, merged into main as it was then
  day,        \* today
  edits,      \* edits, stamps and other authors' pull requests so far
  fresh,      \* history: the build scripts run since what they read last changed
  restamped,  \* history: the files a squash dated later than their own commit
  announced,  \* history: the stamps main has shown, each with what the spec said
  forward     \* history: main's stamp has never gone back to an earlier date

pull == <<base, current, passed>>
seen == <<restamped, announced, forward>>
vars == <<work, branch, main, pull, day, edits, fresh, seen>>

-----------------------------------------------------------------------------
\* build-pages: every document there is, with the navigation read from index.html.
sourceFiles(t) == {d \in Doc : t[d] # Absent}

renderPage(d, t) == [doc |-> t[d], nav |-> t[Index].nav]

isPageOf(t, p, d) == d \in sourceFiles(t) /\ outputPathFor[d] = p

\* The pages are written over; one whose document is gone is left where it is.
buildPages(t) ==
  [f \in DOMAIN t |->
     IF \E d \in Doc : isPageOf(t, f, d)
     THEN renderPage(CHOOSE d \in Doc : isPageOf(t, f, d), t) ELSE t[f]]

checkPagesUnswept(t) ==   \* mutant: a page whose document is gone goes unnoticed
  \A d \in sourceFiles(t) : t[outputPathFor[d]] = renderPage(d, t)

\* --check: every page is what would be written, and "a page whose source is gone
\* must go too".
checkPages(t) ==
  \A d \in Doc :
    t[outputPathFor[d]] = IF d \in sourceFiles(t) THEN renderPage(d, t) ELSE Absent

packBuildsAnyway(t) == TRUE   \* mutant: a missing document is skipped

\* build-source-pack: the documents of the manifest; it throws when one is missing.
packBuilds(t) == \A d \in MANIFEST : t[d] # Absent
buildPack(t)  == [d \in MANIFEST |-> t[d]]
checkPack(t)  == packBuilds(t) /\ t[Pack] = buildPack(t)

-----------------------------------------------------------------------------
lastmodClean(f, t, head, today) == head.touched[f]   \* mutant: git status not asked

\* build-sitemap: a file with uncommitted changes is dated today, any other by the
\* last commit that touched it.
lastmod(f, t, head, today) == IF t[f] # head.tree[f] THEN today ELSE head.touched[f]

\* It throws when a file is missing; the landing page and the pack never are.
sitemapBuilds(t) == \A f \in Routed : t[f] # Absent
buildSitemap(t, head, today) == [f \in ROUTES |-> lastmod(f, t, head, today)]

checkSitemapRoutes(t, head, today) ==   \* mutant: the routes are compared, not the dates
  sitemapBuilds(t) /\ DOMAIN t[Sitemap] = ROUTES

checkSitemap(t, head, today) ==
  sitemapBuilds(t) /\ t[Sitemap] = buildSitemap(t, head, today)

-----------------------------------------------------------------------------
\* Git's three-way merge of x and y, which were b: what one side left alone is taken
\* from the other, and of what both changed y's is kept.  Documents, and pages of which
\* a side has none, merge as a whole, the other files line by line.
Take(b, x, y) == IF y = b THEN x ELSE y

Whole(f, b, x, y) == f \in Doc \/ (f \in Page /\ Absent \in {b, x, y})

mergeFile(f, b, x, y) ==
  CASE Whole(f, b, x, y) -> Take(b, x, y)
    [] f = Index         -> [nav |-> Take(b.nav, x.nav, y.nav),
                             text |-> Take(b.text, x.text, y.text),
                             stamp |-> Take(b.stamp, x.stamp, y.stamp)]
    [] f \in Page /\ ~Whole(f, b, x, y) ->
                            [doc |-> Take(b.doc, x.doc, y.doc),
                             nav |-> Take(b.nav, x.nav, y.nav)]
    [] OTHER             -> [line \in DOMAIN x |-> Take(b[line], x[line], y[line])]

mergeTree(b, x, y) == [f \in File \cup {Sitemap} |-> mergeFile(f, b[f], x[f], y[f])]

\* Both sides changed a line, and not alike: git asks which it shall be.
Conflict ==
  \E f \in File \cup {Sitemap} :
    mergeFile(f, base[f], branch.tree[f], main.tree[f])
      # mergeFile(f, base[f], main.tree[f], branch.tree[f])

\* The day a merge commit gives a file: git log follows the first parent that has it
\* as it is, and names the merge itself when neither has.
MergedDate(t, first, second, f) ==
  IF t[f] = first.tree[f] THEN first.touched[f]
  ELSE IF t[f] = second.tree[f] THEN second.touched[f]
  ELSE day

\* The merge of the branch into main, which CI checks out.
Merged ==
  LET t == mergeTree(base, branch.tree, main.tree)
  IN  [tree |-> t, touched |-> [f \in File |-> MergedDate(t, main, branch, f)]]

\* What a document says, apart from white space and the targets of HTML links (those
\* of Markdown links are part of what it says).
Says(t, d) == IF t[d] = Absent THEN Absent ELSE t[d].text

\* What the stamp of the landing page stands for.
Specification(t) ==
  [nav |-> t[Index].nav, text |-> t[Index].text, spec |-> [d \in SpecDoc |-> Says(t, d)]]

contentChangedSpec(from, to) ==   \* mutant: index.html is not content
  \E d \in SpecDoc : Says(from, d) # Says(to, d)

\* check-updated-stamp: a file under spec/, or index.html in more than the stamp
\* line, was changed in more than white space and HTML link targets; the stamp must
\* then be another than before, whichever.
contentChanged(from, to) == Specification(from) # Specification(to)

checkStamp(from, to) == contentChanged(from, to) => from[Index].stamp # to[Index].stamp

\* CI's checks of the merge pass.
Green ==
  LET m == Merged
  IN  /\ checkPack(m.tree) /\ checkStamp(main.tree, m.tree)
      /\ checkSitemap(m.tree, m, day) /\ checkPages(m.tree)

-----------------------------------------------------------------------------
\* The tree the model starts from, as the scripts leave it.
FirstTree ==
  [f \in File \cup {Sitemap} |->
     CASE f \in Doc     -> FirstDoc[f]
       [] f = Index     -> FirstIndex
       [] f = Pack      -> buildPack(FirstDoc)
       [] f = Sitemap   -> [r \in ROUTES |-> 0]
       [] f \in Page    -> LET d == CHOOSE d \in Doc : outputPathFor[d] = f
                          IN  IF FirstDoc[d] = Absent THEN Absent
                              ELSE [doc |-> FirstDoc[d], nav |-> FirstIndex.nav]]

FirstHead == [tree |-> FirstTree, touched |-> [f \in File |-> 0]]

Init ==
  /\ work = FirstTree /\ branch = FirstHead /\ main = FirstHead
  /\ base = FirstTree /\ current = TRUE /\ passed = FALSE
  /\ day = 0 /\ edits = 0
  /\ fresh = {"pages", "pack", "sitemap"}
  /\ restamped = {}
  /\ announced = {[stamp |-> 0, spec |-> Specification(FirstTree)]}
  /\ forward = TRUE

Put(f, c) == work' = [work EXCEPT ![f] = c]

\* The author writes a file by hand.
Edited ==
  /\ edits < MaxEdits /\ edits' = edits + 1
  /\ fresh' = {}
  /\ UNCHANGED <<branch, main, pull, day, seen>>

\* A document is written, changed or removed.
EditDoc(d) == \E c \in Written[d] \cup {Absent} : c # work[d] /\ Put(d, c) /\ Edited

\* What the landing page may be changed to, in its navigation or its text.
Reworded(index) ==
  {[index EXCEPT !.nav = n] : n \in Nav} \cup {[index EXCEPT !.text = x] : x \in Text}

EditIndex == \E index \in Reworded(work[Index]) : index # work[Index] /\ Put(Index, index) /\ Edited

\* The stamp is written, by hand: "updated" and a date, today's or any other.
BumpStamp ==
  \E s \in Day : s # work[Index].stamp /\ Put(Index, [work[Index] EXCEPT !.stamp = s]) /\ Edited

\* The author removes the page of a document that is gone.
RemovePage(d) ==
  /\ work[d] = Absent /\ work[outputPathFor[d]] # Absent
  /\ Put(outputPathFor[d], Absent)
  /\ UNCHANGED <<branch, main, pull, day, edits, fresh, seen>>

Built(stage, stale) ==
  /\ fresh' = (fresh \ stale) \cup {stage}
  /\ UNCHANGED <<branch, main, pull, day, edits, seen>>

RunBuildPages == work' = buildPages(work) /\ Built("pages", {})

\* The pack is itself dated in the sitemap.
RunBuildSourcePack ==
  packBuilds(work) /\ Put(Pack, buildPack(work)) /\ Built("pack", {"sitemap"})

RunBuildSitemap ==
  sitemapBuilds(work) /\ Put(Sitemap, buildSitemap(work, branch, day)) /\ Built("sitemap", {})

\* Git: all changes are committed and pushed; CI has yet to see them.
Commit ==
  /\ work # branch.tree
  /\ branch' = [tree |-> work,
                touched |-> [f \in File |-> IF work[f] # branch.tree[f] THEN day
                                            ELSE branch.touched[f]]]
  /\ passed' = FALSE
  /\ UNCHANGED <<work, main, base, current, day, edits, fresh, seen>>

\* A day passes: the dates of uncommitted files move with it.
Tick ==
  /\ day < LastDay
  /\ day' = day + 1
  /\ fresh' = IF \E f \in ROUTES : work[f] # branch.tree[f] THEN fresh \ {"sitemap"} ELSE fresh
  /\ UNCHANGED <<work, branch, main, pull, edits, seen>>

\* CI runs on the merge of the pull request with main as it is now; where there is a
\* conflict there is nothing to run on.
RunCI ==
  /\ ~passed /\ branch.tree # base /\ ~Conflict
  /\ Green
  /\ passed' = TRUE
  /\ UNCHANGED <<work, branch, main, base, current, day, edits, fresh, seen>>

\* Main moves to a new head.
MainBecomes(head) ==
  /\ main' = head
  /\ announced' = announced \cup
       {[stamp |-> head.tree[Index].stamp, spec |-> Specification(head.tree)]}
  /\ forward' = (forward /\ main.tree[Index].stamp <= head.tree[Index].stamp)

\* What the recipe makes of a tree: the scripts are run, in order, and the pages of
\* documents that are gone removed.
Regenerated(t, head) ==
  LET built  == buildPages(t)
      paged  == [f \in DOMAIN t |-> IF \E d \in Doc : outputPathFor[d] = f /\ t[d] = Absent
                                    THEN Absent ELSE built[f]]
      packed == [paged EXCEPT ![Pack] = buildPack(t)]
  IN  [packed EXCEPT ![Sitemap] = buildSitemap(packed, head, day)]

\* Another author's pull request, cut from main, finished and merged today: a change of
\* one file, and a stamp, taken through the recipe.
OthersLand ==
  /\ edits < MaxEdits /\ edits' = edits + 1
  /\ \E f \in Doc \cup {Index} :
       \E c \in IF f = Index THEN Reworded(main.tree[Index]) ELSE Written[f] \cup {Absent} :
         \E s \in Day :
           LET edited == [main.tree EXCEPT ![f] = c]
               source == [edited EXCEPT ![Index].stamp = s]
               t      == Regenerated(source, main)
           IN  /\ source # main.tree
               /\ packBuilds(source) /\ sitemapBuilds(source) /\ checkStamp(main.tree, source)
               /\ MainBecomes([tree |-> t,
                               touched |-> [g \in File |-> IF t[g] # main.tree[g] THEN day
                                                           ELSE main.touched[g]]])
  /\ restamped' = {} /\ current' = FALSE
  /\ UNCHANGED <<work, branch, base, passed, day, fresh>>

\* The author takes main into the branch, and settles conflicts for one side or the
\* other (anything else is an edit after it); a branch that has nothing of its own
\* starts over from main.
Update ==
  /\ ~current /\ work = branch.tree
  /\ \E t \in {mergeTree(base, branch.tree, main.tree), mergeTree(base, main.tree, branch.tree)} :
       /\ work' = t
       /\ branch' = IF branch.tree = base THEN main
                    ELSE [tree |-> t, touched |-> [f \in File |-> MergedDate(t, branch, main, f)]]
  /\ base' = main.tree /\ current' = TRUE /\ passed' = FALSE
  /\ fresh' = {}
  /\ UNCHANGED <<main, day, edits, seen>>

\* The pull request is merged, and the next branch starts from main.
Land(head) ==
  /\ passed /\ (Strict => current) /\ work = branch.tree
  /\ ~Conflict /\ head.tree # main.tree
  /\ MainBecomes(head)
  /\ branch' = head /\ work' = head.tree
  /\ base' = head.tree /\ current' = TRUE /\ passed' = FALSE
  /\ fresh' = IF head = branch THEN fresh
              ELSE IF head.tree = branch.tree THEN fresh \ {"sitemap"}
              ELSE {}
  /\ UNCHANGED <<day, edits>>

LandMerge == Land(Merged) /\ restamped' = {}

\* Squashed: one commit of today touches every file that the branch changed.
Squashed ==
  LET m == Merged
  IN  [m EXCEPT !.touched = [f \in File |-> IF m.tree[f] = main.tree[f]
                                            THEN main.touched[f] ELSE day]]

LandSquash ==
  /\ Squash
  /\ Land(Squashed)
  /\ restamped' = {f \in File : Squashed.touched[f] # Merged.touched[f]}

Next ==
  \/ \E d \in Doc : EditDoc(d)
  \/ EditIndex
  \/ BumpStamp
  \/ \E d \in Doc : RemovePage(d)
  \/ RunBuildPages
  \/ RunBuildSourcePack
  \/ RunBuildSitemap
  \/ Commit
  \/ Tick
  \/ RunCI
  \/ OthersLand
  \/ Update
  \/ LandMerge
  \/ LandSquash

Spec == Init /\ [][Next]_vars

-----------------------------------------------------------------------------
IndexType == [nav : Nav, text : Text, stamp : Day]
PageType  == [doc : Body, nav : Nav]

\* What the scripts and the author may leave in a tree.
IsTree(t) ==
  /\ t = [f \in File \cup {Sitemap} |-> t[f]]
  /\ \A d \in Doc : t[d] \in Body \cup {Absent}
  /\ \A p \in Page : t[p] \in PageType \cup {Absent}
  /\ t[Index] \in IndexType
  /\ t[Pack] \in [MANIFEST -> Body]
  /\ t[Sitemap] \in [ROUTES -> Day]

IsHead(h) == h = [tree |-> h.tree, touched |-> h.touched] /\ IsTree(h.tree) /\ h.touched \in [File -> Day]

\* Every tree holds what its scripts write: documents, pages of whole documents, a
\* pack of documents that are all there, and dates that have been.
TypeOK ==
  /\ IsTree(work) /\ IsHead(branch) /\ IsHead(main) /\ IsTree(base)
  /\ current \in BOOLEAN /\ passed \in BOOLEAN /\ forward \in BOOLEAN
  /\ day \in Day /\ edits \in 0 .. MaxEdits
  /\ fresh \subseteq {"pages", "pack", "sitemap"} /\ restamped \subseteq File
  /\ \A a \in announced : a.stamp \in Day

\* Readers of main see what PublishedSite promises.
Site == INSTANCE PublishedSite WITH
  Document <- Doc, Collected <- MANIFEST, Content <- Body, Missing <- Absent,
  source <- [doc |-> [d \in Doc |-> main.tree[d]], nav |-> main.tree[Index].nav],
  shown  <- [page |-> [d \in Doc |-> main.tree[outputPathFor[d]]],
             pack |-> main.tree[Pack]]

\* Every step of main from one state to another publishes documents together with
\* their renderings: whatever the author builds, forgets, removes or reverts, and
\* whatever lands meanwhile, where the host is Strict.  Where it is not, two pull
\* requests that each pass may merge to a page without the other's navigation.
PublishesWhole == Site!Spec

\* The page of a document that is gone is not left behind.
Swept(t) == \A d \in Doc : t[d] = Absent => t[outputPathFor[d]] = Absent

\* The scripts' own recipe suffices: after build-pages, build-source-pack and, after
\* it, build-sitemap, every check passes on the author's tree, and goes on passing
\* over commits, merges and days ("one commit carries both the edit and the
\* regenerated sitemap", build-sitemap.mjs:13-14), until something is edited, main is
\* taken in, a day passes over uncommitted work, or a merge gives a file another date
\* than the branch did (a squash, or a file that the branch put back).
RecipeIsEnough ==
  /\ "pages" \in fresh /\ Swept(work) => checkPages(work)
  /\ "pack" \in fresh => checkPack(work)
  /\ "sitemap" \in fresh => checkSitemap(work, branch, day)

\* The dates main publishes are those of its own commits, but for the files a
\* squash has restamped since: there the sitemap is behind, never ahead (if Strict).
DatesAreMains ==
  \A f \in ROUTES :
    /\ f \notin restamped => main.tree[Sitemap][f] = main.touched[f]
    /\ f \in restamped => main.tree[Sitemap][f] < main.touched[f]

\* A stamp announces one text of the specification: main never shows two texts of
\* it under the same date ("this check makes that class of drift fail CI",
\* check-updated-stamp.mjs:8).
StampNamesOneText ==
  \A a, b \in announced : a.stamp = b.stamp => a.spec = b.spec

\* It does where the host is Strict and main's stamp has never gone back: the guard
\* asks for another stamp than the base's, which then is a later one.  The code asks
\* for neither: an author may write a date that was used, and without Strict two pull
\* requests cut from one main pass with one stamp, and both land.
ForwardStampNamesOneText == forward => StampNamesOneText
=============================================================================
