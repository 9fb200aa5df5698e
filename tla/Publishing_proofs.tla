------------------------- MODULE Publishing_proofs -------------------------
(***************************************************************************)
(* Theorems of Publishing, for any documents, days and number of edits.    *)
(* The whole argument is what CI's checks establish about a merge: where   *)
(* the host is Strict, a branch that lands holds all of main, so that the  *)
(* merge is the branch itself and what CI saw is what main becomes.  IInv  *)
(* carries this, and what the author's tree and main owe to one another,   *)
(* from one landing to the next.                                           *)
(***************************************************************************)
EXTENDS Publishing, TLAPS

\* Dates of commits do not lie ahead.
DatesArePast == \A f \in File : branch.touched[f] <= day /\ main.touched[f] <= day

\* What main announces now is the latest it has announced.
LatestIsShown ==
  \A a \in announced :
    /\ a.stamp <= main.tree[Index].stamp
    /\ a.stamp = main.tree[Index].stamp => a.spec = Specification(main.tree)

\* A stage that is fresh has nothing left to write.
NothingToWrite ==
  /\ "pages" \in fresh => \A d \in sourceFiles(work) : work[outputPathFor[d]] = renderPage(d, work)
  /\ "pack" \in fresh => checkPack(work)
  /\ "sitemap" \in fresh => checkSitemap(work, branch, day)

\* The merge of a branch that holds all of main, and what CI finds of it.
OwnDate(f) == IF branch.tree[f] = main.tree[f] THEN main.touched[f] ELSE branch.touched[f]

OwnGreen ==
  /\ checkPages(branch.tree) /\ checkPack(branch.tree)
  /\ checkStamp(main.tree, branch.tree)
  /\ branch.tree[Sitemap] = [f \in ROUTES |-> OwnDate(f)]

\* A current branch was cut from main as it is, and CI's pass is of it.
CurrentIsChecked == current => base = main.tree /\ (passed => OwnGreen)

IInv ==
  /\ TypeOK /\ DatesArePast /\ NothingToWrite /\ CurrentIsChecked
  /\ Strict => DatesAreMains
  /\ Strict /\ forward => LatestIsShown /\ StampNamesOneText

-----------------------------------------------------------------------------
\* The names of files are kept apart: a document, a page, the landing page, the pack
\* and the sitemap are different files, and no page serves two documents.
LEMMA Paths ==
  /\ \A d \in Doc : /\ d \in File /\ outputPathFor[d] \in Page /\ outputPathFor[d] \in File
                    /\ outputPathFor[d] \notin Doc
                    /\ d \notin {Index, Pack, Sitemap}
                    /\ outputPathFor[d] \notin {Index, Pack, Sitemap}
  /\ \A p \in Page : p \notin Doc /\ p \notin {Index, Pack, Sitemap} /\ p \in File
  /\ Index \in File /\ Pack \in File /\ Index # Pack /\ Index # Sitemap /\ Pack # Sitemap
  /\ Sitemap \notin File
  /\ ROUTES \subseteq File /\ ROUTES \cap Page = {}
  /\ Index \in ROUTES /\ Pack \in ROUTES
  /\ \A f \in ROUTES : f \in Doc \/ f = Index \/ f = Pack
BY PathAssumption DEF File, Page, ROUTES, Index, Pack, Sitemap

\* Writing one file of a tree keeps it a tree when the file's kind is respected.
LEMMA PutIsTree ==
  ASSUME NEW t, IsTree(t), NEW f \in File \cup {Sitemap}, NEW c,
         f \in Doc => c \in Body \cup {Absent},
         f \in Page => c \in PageType \cup {Absent},
         f = Index => c \in IndexType,
         f = Pack => c \in [MANIFEST -> Body],
         f = Sitemap => c \in [ROUTES -> Day]
  PROVE  IsTree([t EXCEPT ![f] = c])
<1> DEFINE u == [t EXCEPT ![f] = c]
<1>1. DOMAIN u = File \cup {Sitemap} /\ \A g \in File \cup {Sitemap} : u[g] = IF g = f THEN c ELSE t[g]
  BY DEF IsTree
<1>2. \A d \in Doc : u[d] \in Body \cup {Absent}
  BY <1>1, Paths DEF IsTree
<1>3. \A p \in Page : u[p] \in PageType \cup {Absent}
  BY <1>1, Paths DEF IsTree
<1>4. u[Index] \in IndexType /\ u[Pack] \in [MANIFEST -> Body] /\ u[Sitemap] \in [ROUTES -> Day]
  BY <1>1, Paths DEF IsTree
<1> QED BY <1>1, <1>2, <1>3, <1>4 DEF IsTree

\* Rendering a tree keeps it a tree, writes the page of every document there is and
\* leaves every other file alone.
LEMMA BuildPagesIsTree ==
  ASSUME NEW t, IsTree(t)
  PROVE  /\ IsTree(buildPages(t))
         /\ \A d \in sourceFiles(t) : buildPages(t)[outputPathFor[d]] = renderPage(d, t)
         /\ \A f \in (File \cup {Sitemap}) \ Page : buildPages(t)[f] = t[f]
<1> DEFINE u == buildPages(t)
<1>1. u = [f \in File \cup {Sitemap} |-> u[f]]
  BY DEF buildPages, IsTree
<1>2. ASSUME NEW d \in sourceFiles(t) PROVE u[outputPathFor[d]] = renderPage(d, t)
  <2>1. d \in Doc /\ isPageOf(t, outputPathFor[d], d)
    BY DEF sourceFiles, isPageOf
  <2>2. \A c \in Doc : isPageOf(t, outputPathFor[d], c) => c = d
    BY <2>1, PathAssumption DEF isPageOf
  <2>3. (CHOOSE c \in Doc : isPageOf(t, outputPathFor[d], c)) = d
    BY <2>1, <2>2
  <2> QED BY <2>1, <2>3, Paths DEF buildPages, IsTree
<1>3. ASSUME NEW f \in (File \cup {Sitemap}) \ Page PROVE u[f] = t[f]
  BY Paths DEF buildPages, IsTree, isPageOf
<1>4. ASSUME NEW p \in Page PROVE u[p] \in PageType \cup {Absent}
  <2>1. CASE \E d \in Doc : isPageOf(t, p, d)
    <3>1. PICK d \in Doc : isPageOf(t, p, d)
      BY <2>1
    <3>2. u[p] = [doc |-> t[d], nav |-> t[Index].nav]
      BY <3>1, <1>2 DEF isPageOf, renderPage
    <3>3. t[d] \in Body /\ t[Index].nav \in Nav
      BY <3>1 DEF IsTree, IndexType, isPageOf, sourceFiles
    <3> QED BY <3>2, <3>3 DEF PageType
  <2>2. CASE ~ \E d \in Doc : isPageOf(t, p, d)
    BY <2>2, Paths DEF buildPages, IsTree
  <2> QED BY <2>1, <2>2
<1>5. \A d \in Doc : u[d] = t[d]
  BY <1>3, Paths
<1>6. u[Index] = t[Index] /\ u[Pack] = t[Pack] /\ u[Sitemap] = t[Sitemap]
  BY <1>3, Paths
<1> QED BY <1>1, <1>2, <1>3, <1>4, <1>5, <1>6 DEF IsTree

\* A pack that builds holds its documents, and every date of the sitemap is a day.
LEMMA BuildsAreTyped ==
  /\ \A t : IsTree(t) /\ packBuilds(t) => buildPack(t) \in [MANIFEST -> Body]
  /\ \A t, head, today : IsHead(head) /\ today \in Day => buildSitemap(t, head, today) \in [ROUTES -> Day]
<1>1. ASSUME NEW t, IsTree(t), packBuilds(t) PROVE buildPack(t) \in [MANIFEST -> Body]
  BY <1>1, PathAssumption DEF IsTree, packBuilds, buildPack
<1>2. ASSUME NEW t, NEW head, NEW today, IsHead(head), today \in Day
      PROVE  buildSitemap(t, head, today) \in [ROUTES -> Day]
  BY <1>2, Paths DEF IsHead, buildSitemap, lastmod
<1> QED BY <1>1, <1>2

\* What one side of a merge left alone is taken from the other; what is merged is of
\* the kind of what it is merged from.
LEMMA MergeIsTree ==
  ASSUME NEW b, NEW x, NEW y, IsTree(b), IsTree(x), IsTree(y)
  PROVE  /\ IsTree(mergeTree(b, x, y))
         /\ y = b => mergeTree(b, x, y) = x
<1> DEFINE m == mergeTree(b, x, y)
<1>0. m = [f \in File \cup {Sitemap} |-> m[f]]
  BY DEF mergeTree
<1>1. \A f \in File \cup {Sitemap} : m[f] = mergeFile(f, b[f], x[f], y[f])
  BY DEF mergeTree
<1>2. ASSUME NEW d \in Doc PROVE m[d] = Take(b[d], x[d], y[d]) /\ m[d] \in Body \cup {Absent}
  <2>1. m[d] = Take(b[d], x[d], y[d])
    BY <1>1, Paths DEF mergeFile, Whole
  <2> QED BY <2>1 DEF Take, IsTree
<1>3. ASSUME NEW p \in Page PROVE m[p] \in PageType \cup {Absent} /\ (y[p] = b[p] => m[p] = x[p])
  <2>0. p \notin Doc /\ p # Index /\ m[p] = mergeFile(p, b[p], x[p], y[p])
    BY <1>1, Paths
  <2>1. {b[p], x[p], y[p]} \subseteq PageType \cup {Absent}
    BY DEF IsTree
  <2>2. CASE Absent \in {b[p], x[p], y[p]}
    <3>0. Whole(p, b[p], x[p], y[p])
      BY <2>2 DEF Whole
    <3>1. m[p] = Take(b[p], x[p], y[p])
      BY <2>0, <3>0 DEF mergeFile
    <3> QED BY <2>1, <3>1 DEF Take
  <2>3. CASE Absent \notin {b[p], x[p], y[p]}
    <3>1. m[p] = [doc |-> Take(b[p].doc, x[p].doc, y[p].doc), nav |-> Take(b[p].nav, x[p].nav, y[p].nav)]
      BY <2>0, <2>3 DEF mergeFile, Whole
    <3>2. b[p] \in PageType /\ x[p] \in PageType /\ y[p] \in PageType
      BY <2>1, <2>3
    <3>3. x[p] = [doc |-> x[p].doc, nav |-> x[p].nav]
      BY <3>2 DEF PageType
    <3>4. m[p] \in PageType
      BY <3>1, <3>2 DEF PageType, Take
    <3> QED BY <3>1, <3>3, <3>4 DEF Take
  <2> QED BY <2>2, <2>3
<1>4. m[Index] \in IndexType /\ (y[Index] = b[Index] => m[Index] = x[Index])
  <2>0. b[Index] \in IndexType /\ x[Index] \in IndexType /\ y[Index] \in IndexType
    BY DEF IsTree
  <2>2. m[Index] = [nav |-> Take(b[Index].nav, x[Index].nav, y[Index].nav),
                    text |-> Take(b[Index].text, x[Index].text, y[Index].text),
                    stamp |-> Take(b[Index].stamp, x[Index].stamp, y[Index].stamp)]
    BY <1>1, Paths DEF mergeFile, Whole
  <2>3. x[Index] = [nav |-> x[Index].nav, text |-> x[Index].text, stamp |-> x[Index].stamp]
    BY <2>0 DEF IndexType
  <2>4. m[Index] \in IndexType
    BY <2>0, <2>2 DEF IndexType, Take
  <2> QED BY <2>2, <2>3, <2>4 DEF Take
<1>5. ASSUME NEW f \in {Pack, Sitemap}, NEW S, NEW T,
             b[f] \in [S -> T], x[f] \in [S -> T], y[f] \in [S -> T]
      PROVE  m[f] \in [S -> T] /\ (y[f] = b[f] => m[f] = x[f])
  <2>2. f \notin Doc /\ f # Index /\ f \notin Page /\ f \in File \cup {Sitemap}
    BY <1>5, Paths
  <2>3. m[f] = [line \in DOMAIN x[f] |-> Take(b[f][line], x[f][line], y[f][line])]
    BY <1>1, <2>2 DEF mergeFile, Whole
  <2>4. DOMAIN x[f] = S
    BY <1>5
  <2> QED BY <1>5, <2>3, <2>4 DEF Take
<1>6. m[Pack] \in [MANIFEST -> Body] /\ (y[Pack] = b[Pack] => m[Pack] = x[Pack])
  BY <1>5 DEF IsTree
<1>7. m[Sitemap] \in [ROUTES -> Day] /\ (y[Sitemap] = b[Sitemap] => m[Sitemap] = x[Sitemap])
  BY <1>5 DEF IsTree
<1>8. IsTree(m)
  BY <1>0, <1>2, <1>3, <1>4, <1>6, <1>7 DEF IsTree
<1>9. ASSUME y = b PROVE m = x
  <2>1. ASSUME NEW f \in File \cup {Sitemap} PROVE m[f] = x[f]
    <3>1. f \in Doc \/ f \in Page \/ f = Index \/ f = Pack \/ f = Sitemap
      BY DEF File
    <3> QED BY <1>2, <1>3, <1>4, <1>6, <1>7, <1>9, <3>1 DEF Take
  <2>2. x = [f \in File \cup {Sitemap} |-> x[f]]
    BY DEF IsTree
  <2> QED BY <1>0, <2>1, <2>2
<1> QED BY <1>8, <1>9

\* The first tree is one the scripts leave.
LEMMA FirstTreeIsBuilt ==
  /\ IsTree(FirstTree)
  /\ FirstTree[Index] = FirstIndex
  /\ \A d \in Doc : FirstTree[d] = FirstDoc[d]
  /\ \A d \in sourceFiles(FirstTree) : FirstTree[outputPathFor[d]] = renderPage(d, FirstTree)
  /\ \A d \in Doc : FirstDoc[d] = Absent => FirstTree[outputPathFor[d]] = Absent
  /\ FirstTree[Pack] = buildPack(FirstTree)
  /\ FirstTree[Sitemap] = [r \in ROUTES |-> 0]
<1> DEFINE t == FirstTree
<1>1. t = [f \in File \cup {Sitemap} |-> t[f]]
  <2> DEFINE val(f) == CASE f \in Doc     -> FirstDoc[f]
                         [] f = Index     -> FirstIndex
                         [] f = Pack      -> buildPack(FirstDoc)
                         [] f = Sitemap   -> [r \in ROUTES |-> 0]
                         [] f \in Page    -> LET d == CHOOSE d \in Doc : outputPathFor[d] = f
                                            IN  IF FirstDoc[d] = Absent THEN Absent
                                                ELSE [doc |-> FirstDoc[d], nav |-> FirstIndex.nav]
  <2>1. t = [f \in File \cup {Sitemap} |-> val(f)]
    BY Zenon DEF FirstTree
  <2> HIDE DEF val
  <2> QED BY <2>1
<1>2. \A d \in Doc : t[d] = FirstDoc[d] /\ t[d] \in Body \cup {Absent}
  BY Paths, PathAssumption DEF FirstTree, Body
<1>3. t[Index] = FirstIndex /\ FirstIndex \in IndexType
  <2>1. t[Index] = FirstIndex
    BY Paths, PathAssumption DEF FirstTree
  <2>2. FirstIndex \in IndexType
    BY PathAssumption DEF IndexType, Day
  <2> QED BY <2>1, <2>2
<1>4. t[Pack] = buildPack(t) /\ t[Pack] \in [MANIFEST -> Body]
  <2>1. t[Pack] = buildPack(FirstDoc)
    BY Paths, PathAssumption DEF FirstTree
  <2>2. buildPack(FirstDoc) = buildPack(t)
    BY <1>2, PathAssumption DEF buildPack
  <2>3. \A d \in MANIFEST : FirstDoc[d] \in Body
    BY PathAssumption DEF Body
  <2> QED BY <2>1, <2>2, <2>3 DEF buildPack
<1>5. t[Sitemap] = [r \in ROUTES |-> 0] /\ t[Sitemap] \in [ROUTES -> Day]
  <2>1. t[Sitemap] = [r \in ROUTES |-> 0]
    BY Paths, PathAssumption DEF FirstTree
  <2>2. 0 \in Day
    BY PathAssumption DEF Day
  <2> QED BY <2>1, <2>2
<1>6. ASSUME NEW d \in Doc
      PROVE  t[outputPathFor[d]] = IF FirstDoc[d] = Absent THEN Absent
                                   ELSE [doc |-> FirstDoc[d], nav |-> FirstIndex.nav]
  <2>1. (CHOOSE c \in Doc : outputPathFor[c] = outputPathFor[d]) = d
    BY PathAssumption
  <2> QED BY <2>1, Paths, PathAssumption DEF FirstTree
<1>7. ASSUME NEW p \in Page PROVE t[p] \in PageType \cup {Absent}
  <2>1. PICK d \in Doc : p = outputPathFor[d]
    BY DEF Page
  <2>2. FirstIndex.nav \in Nav
    BY <1>3 DEF IndexType
  <2>3. FirstDoc[d] # Absent => FirstDoc[d] \in Body
    BY <1>2
  <2>4. CASE FirstDoc[d] = Absent
    BY <1>6, <2>1, <2>4
  <2>5. CASE FirstDoc[d] # Absent
    <3>1. t[p] = [doc |-> FirstDoc[d], nav |-> FirstIndex.nav]
      BY <1>6, <2>1, <2>5
    <3> QED BY <3>1, <2>2, <2>3, <2>5 DEF PageType
  <2> QED BY <2>4, <2>5
<1>8. \A d \in sourceFiles(t) : t[outputPathFor[d]] = renderPage(d, t)
  BY <1>2, <1>3, <1>6 DEF sourceFiles, renderPage
<1> QED BY <1>1, <1>2, <1>3, <1>4, <1>5, <1>6, <1>7, <1>8 DEF IsTree

-----------------------------------------------------------------------------
\* What a merge makes of two heads is a head, and a squash only dates it otherwise.
LEMMA MergedIsHead ==
  ASSUME TypeOK
  PROVE  /\ IsHead(Merged) /\ Merged.tree = mergeTree(base, branch.tree, main.tree)
         /\ IsHead(Squashed) /\ Squashed.tree = Merged.tree
         /\ \A f \in File : Squashed.touched[f] = IF Merged.tree[f] = main.tree[f]
                                                  THEN main.touched[f] ELSE day
<1> DEFINE t == mergeTree(base, branch.tree, main.tree)
           m == [tree |-> t, touched |-> [f \in File |-> MergedDate(t, main, branch, f)]]
           q == [f \in File |-> IF t[f] = main.tree[f] THEN main.touched[f] ELSE day]
<1>1. /\ IsTree(base) /\ IsTree(branch.tree) /\ IsTree(main.tree) /\ day \in Day
      /\ branch.touched \in [File -> Day] /\ main.touched \in [File -> Day]
  BY DEF TypeOK, IsHead
<1>2. IsTree(t)
  BY <1>1, MergeIsTree
<1> HIDE DEF t
<1>3. Merged = m
  BY DEF Merged, t
<1>4. \A f \in File : MergedDate(t, main, branch, f) \in Day
  BY <1>1 DEF MergedDate
<1>5. Squashed = [tree |-> t, touched |-> q]
  BY <1>3 DEF Squashed
<1>6. q \in [File -> Day]
  BY <1>1
<1>7. IsHead(m)
  BY <1>2, <1>4 DEF IsHead
<1>8. IsHead([tree |-> t, touched |-> q])
  BY <1>2, <1>6 DEF IsHead
<1> QED BY <1>3, <1>5, <1>7, <1>8 DEF t

\* The merge of a branch that holds all of main is the branch, each file dated by the
\* commit of its own side; so what CI finds of it is found of the branch, on any day.
LEMMA CurrentMerge ==
  ASSUME TypeOK, base = main.tree
  PROVE  /\ Merged.tree = branch.tree
         /\ \A f \in File : Merged.touched[f] = OwnDate(f)
         /\ Green => OwnGreen
<1>1. IsTree(base) /\ IsTree(branch.tree) /\ IsTree(main.tree)
  BY DEF TypeOK, IsHead
<1>2. mergeTree(base, branch.tree, main.tree) = branch.tree
  BY <1>1, MergeIsTree
<1>3. Merged = [tree |-> branch.tree,
                touched |-> [f \in File |-> MergedDate(branch.tree, main, branch, f)]]
  BY <1>2 DEF Merged
<1>4. ASSUME NEW f \in File PROVE Merged.touched[f] = OwnDate(f)
  <2>1. Merged.touched[f] = MergedDate(branch.tree, main, branch, f)
    BY <1>3
  <2>2. CASE branch.tree[f] = main.tree[f]
    BY <2>1, <2>2 DEF MergedDate, OwnDate
  <2>3. CASE branch.tree[f] # main.tree[f]
    BY <2>1, <2>3 DEF MergedDate, OwnDate
  <2> QED BY <2>2, <2>3
<1>5. ASSUME Green PROVE OwnGreen
  <2>1. /\ checkPages(branch.tree) /\ checkPack(branch.tree) /\ checkStamp(main.tree, branch.tree)
        /\ branch.tree[Sitemap] = buildSitemap(branch.tree, Merged, day)
    BY <1>3, <1>5 DEF Green, checkSitemap
  <2>2. \A f \in ROUTES : lastmod(f, branch.tree, Merged, day) = OwnDate(f)
    BY <1>3, <1>4, Paths DEF lastmod
  <2> QED BY <2>1, <2>2 DEF OwnGreen, buildSitemap
<1> QED BY <1>3, <1>4, <1>5

\* The recipe makes a tree of which every check passes, and leaves what it reads alone.
LEMMA RegeneratedIsBuilt ==
  ASSUME NEW t, IsTree(t), packBuilds(t), NEW head, IsHead(head), day \in Day
  PROVE  /\ IsTree(Regenerated(t, head))
         /\ checkPages(Regenerated(t, head)) /\ checkPack(Regenerated(t, head))
         /\ \A d \in Doc : Regenerated(t, head)[d] = t[d]
         /\ Regenerated(t, head)[Index] = t[Index]
         /\ \A f \in ROUTES :
              Regenerated(t, head)[Sitemap][f] = lastmod(f, Regenerated(t, head), head, day)
<1> DEFINE gone(f) == \E d \in Doc : outputPathFor[d] = f /\ t[d] = Absent
           built  == buildPages(t)
           paged  == [f \in DOMAIN t |-> IF gone(f) THEN Absent ELSE built[f]]
           packed == [paged EXCEPT ![Pack] = buildPack(t)]
           r      == [packed EXCEPT ![Sitemap] = buildSitemap(packed, head, day)]
<1>0. Regenerated(t, head) = r
  BY DEF Regenerated
<1>1. /\ IsTree(built) /\ DOMAIN t = File \cup {Sitemap}
      /\ \A d \in sourceFiles(t) : built[outputPathFor[d]] = renderPage(d, t)
      /\ \A f \in (File \cup {Sitemap}) \ Page : built[f] = t[f]
  BY BuildPagesIsTree DEF IsTree
<1> HIDE DEF built
<1>2. \A f \in (File \cup {Sitemap}) \ Page : ~gone(f)
  BY Paths
<1>3. \A d \in Doc : gone(outputPathFor[d]) <=> t[d] = Absent
  BY PathAssumption
<1>4. /\ IsTree(paged)
      /\ \A f \in (File \cup {Sitemap}) \ Page : paged[f] = t[f]
      /\ \A d \in Doc : paged[outputPathFor[d]] = IF t[d] = Absent THEN Absent ELSE renderPage(d, t)
  <2>1. DOMAIN paged = File \cup {Sitemap}
    BY <1>1
  <2>2. \A f \in (File \cup {Sitemap}) \ Page : paged[f] = t[f]
    BY <1>1, <1>2
  <2>3. \A p \in Page : paged[p] \in PageType \cup {Absent}
    BY <1>1, Paths DEF IsTree
  <2>4. \A d \in Doc : paged[d] = t[d]
    BY <2>2, Paths
  <2>5. paged[Index] = t[Index] /\ paged[Pack] = t[Pack] /\ paged[Sitemap] = t[Sitemap]
    BY <2>2, Paths
  <2>6. \A d \in Doc : paged[outputPathFor[d]] = IF t[d] = Absent THEN Absent ELSE renderPage(d, t)
    BY <1>1, <1>3, Paths DEF sourceFiles
  <2> QED BY <2>1, <2>2, <2>3, <2>4, <2>5, <2>6 DEF IsTree
<1> HIDE DEF paged
<1>5. /\ IsTree(packed) /\ packed[Pack] = buildPack(t)
      /\ \A f \in (File \cup {Sitemap}) \ {Pack} : packed[f] = paged[f]
  <2>1. buildPack(t) \in [MANIFEST -> Body]
    BY BuildsAreTyped
  <2>2. DOMAIN paged = File \cup {Sitemap}
    BY <1>4 DEF IsTree
  <2> QED BY <1>4, <2>1, <2>2, PutIsTree, Paths
<1> HIDE DEF packed
<1>6. /\ IsTree(r) /\ r[Sitemap] = buildSitemap(packed, head, day)
      /\ \A f \in File : r[f] = packed[f]
  <2>1. buildSitemap(packed, head, day) \in [ROUTES -> Day]
    BY BuildsAreTyped
  <2>2. DOMAIN packed = File \cup {Sitemap}
    BY <1>5 DEF IsTree
  <2> QED BY <1>5, <2>1, <2>2, PutIsTree, Paths
<1> HIDE DEF r
<1>7. (\A d \in Doc : r[d] = t[d]) /\ r[Index] = t[Index] /\ r[Pack] = buildPack(t)
  BY <1>4, <1>5, <1>6, Paths
<1>8. checkPages(r)
  <2>1. \A d \in Doc : r[outputPathFor[d]] = IF t[d] = Absent THEN Absent ELSE renderPage(d, t)
    BY <1>4, <1>5, <1>6, Paths
  <2> QED BY <1>7, <2>1 DEF checkPages, sourceFiles, renderPage
<1>9. checkPack(r)
  BY <1>7, PathAssumption DEF checkPack, packBuilds, buildPack
<1>10. \A f \in ROUTES : r[Sitemap][f] = lastmod(f, r, head, day)
  BY <1>6, Paths DEF buildSitemap, lastmod
<1> QED BY <1>0, <1>6, <1>7, <1>8, <1>9, <1>10

\* What another author's pull request makes of main.
OthersHead(head) ==
  /\ IsHead(head) /\ MainBecomes(head)
  /\ checkPages(head.tree) /\ checkPack(head.tree) /\ checkStamp(main.tree, head.tree)
  /\ \A f \in ROUTES : head.tree[Sitemap][f] = head.touched[f]
  /\ \A f \in File : head.touched[f] \in {day, main.touched[f]}

LEMMA OthersMove ==
  ASSUME TypeOK, OthersLand
  PROVE  \E head : OthersHead(head)
<1>1. IsHead(main) /\ IsTree(main.tree) /\ day \in Day /\ main.touched \in [File -> Day]
  BY DEF TypeOK, IsHead
<1> DEFINE kind(f) == IF f = Index THEN Reworded(main.tree[Index]) ELSE Written[f] \cup {Absent}
           source(f, c, s) == [[main.tree EXCEPT ![f] = c] EXCEPT ![Index].stamp = s]
           t(f, c, s) == Regenerated(source(f, c, s), main)
           h(f, c, s) == [tree |-> t(f, c, s),
                          touched |-> [g \in File |-> IF t(f, c, s)[g] # main.tree[g] THEN day
                                                      ELSE main.touched[g]]]
<1>2. PICK f \in Doc \cup {Index}, c \in UNION {kind(g) : g \in Doc \cup {Index}}, s \in Day :
        /\ c \in kind(f)
        /\ packBuilds(source(f, c, s)) /\ checkStamp(main.tree, source(f, c, s))
        /\ MainBecomes(h(f, c, s))
  BY DEF OthersLand
<1> DEFINE src == source(f, c, s)
           T   == t(f, c, s)
           H   == h(f, c, s)
<1>3. IsTree(src)
  <2> DEFINE e == [main.tree EXCEPT ![f] = c]
  <2>1. main.tree[Index] \in IndexType
    BY <1>1 DEF IsTree
  <2>2. f = Index => c \in IndexType
    BY <1>2, <2>1 DEF Reworded, IndexType
  <2>3. f \in Doc => c \in Body \cup {Absent}
    BY <1>2, Paths DEF Body
  <2>4. IsTree(e)
    BY <1>1, <1>2, <2>2, <2>3, PutIsTree, Paths
  <2> HIDE DEF e
  <2>5. [e[Index] EXCEPT !.stamp = s] \in IndexType
    BY <1>2, <2>4 DEF IsTree, IndexType
  <2>6. src = [e EXCEPT ![Index] = [e[Index] EXCEPT !.stamp = s]]
    BY DEF e
  <2> HIDE DEF src
  <2> QED BY <2>4, <2>5, <2>6, PutIsTree, Paths
<1>4. packBuilds(src) /\ checkStamp(main.tree, src) /\ MainBecomes(H)
  BY <1>2
<1>5. T = Regenerated(src, main)
  OBVIOUS
<1>6. H = [tree |-> T, touched |-> [g \in File |-> IF T[g] # main.tree[g] THEN day ELSE main.touched[g]]]
  OBVIOUS
<1> HIDE DEF src, T, H, h, t, source, kind
<1>7. /\ IsTree(T) /\ checkPages(T) /\ checkPack(T)
      /\ \A d \in Doc : T[d] = src[d]
      /\ T[Index] = src[Index]
      /\ \A g \in ROUTES : T[Sitemap][g] = lastmod(g, T, main, day)
  BY <1>1, <1>3, <1>4, <1>5, RegeneratedIsBuilt
<1>8. IsHead(H)
  <2>1. [g \in File |-> IF T[g] # main.tree[g] THEN day ELSE main.touched[g]] \in [File -> Day]
    BY <1>1
  <2> QED BY <1>6, <1>7, <2>1 DEF IsHead
<1>9. checkStamp(main.tree, H.tree)
  <2>1. \A d \in SpecDoc : Says(T, d) = Says(src, d)
    BY <1>7, PathAssumption DEF Says
  <2>2. Specification(T) = Specification(src)
    BY <1>7, <2>1 DEF Specification
  <2> QED BY <1>4, <1>6, <1>7, <2>2 DEF checkStamp, contentChanged
<1>10. \A g \in ROUTES : H.tree[Sitemap][g] = H.touched[g]
  BY <1>6, <1>7, Paths DEF lastmod
<1>11. \A g \in File : H.touched[g] \in {day, main.touched[g]}
  BY <1>6
<1>12. H.tree = T
  BY <1>6
<1>13. OthersHead(H)
  BY <1>4, <1>7, <1>8, <1>9, <1>10, <1>11, <1>12 DEF OthersHead
<1> QED BY <1>13

-----------------------------------------------------------------------------
\* The trees and histories of both heads, and of the author, keep their shape.
LEMMA TypeStep ==
  ASSUME TypeOK, Next
  PROVE  TypeOK'
<1>0. /\ IsTree(work) /\ IsHead(branch) /\ IsHead(main) /\ IsTree(base)
      /\ IsTree(branch.tree) /\ IsTree(main.tree)
      /\ current \in BOOLEAN /\ passed \in BOOLEAN /\ forward \in BOOLEAN
      /\ day \in Day /\ edits \in 0 .. MaxEdits
      /\ fresh \subseteq {"pages", "pack", "sitemap"} /\ restamped \subseteq File
      /\ \A a \in announced : a.stamp \in Day
  BY DEF TypeOK, IsHead
<1>a. ASSUME IsTree(work'), edits' \in 0 .. MaxEdits, UNCHANGED <<branch, main, pull, day, seen>>,
             fresh' \subseteq {"pages", "pack", "sitemap"}
      PROVE  TypeOK'
  BY <1>0, <1>a DEF TypeOK, pull, seen, IsHead, IsTree
<1>b. ASSUME Edited PROVE edits' \in 0 .. MaxEdits
  BY <1>0, <1>b, PathAssumption DEF Edited
<1>c. ASSUME NEW head, IsHead(head), MainBecomes(head)
      PROVE  IsHead(main)' /\ forward' \in BOOLEAN /\ \A a \in announced' : a.stamp \in Day
  <2>1. head.tree[Index].stamp \in Day
    BY <1>c DEF IsHead, IsTree, IndexType
  <2>2. main' = head /\ announced' = announced \cup
          {[stamp |-> head.tree[Index].stamp, spec |-> Specification(head.tree)]}
    BY <1>c DEF MainBecomes
  <2>3. \A a \in announced' : a.stamp \in Day
    BY <1>0, <2>1, <2>2
  <2>4. IsHead(main)'
    BY <1>c, <2>2 DEF IsHead, IsTree
  <2>5. forward' \in BOOLEAN
    BY <1>c DEF MainBecomes
  <2> QED BY <2>3, <2>4, <2>5
<1>1. ASSUME NEW d \in Doc, EditDoc(d) PROVE TypeOK'
  <2>1. IsTree(work')
    <3>1. PICK c \in Written[d] \cup {Absent} : Put(d, c)
      BY <1>1 DEF EditDoc
    <3>2. c \in Body \cup {Absent}
      BY DEF Body
    <3> QED BY <1>0, <3>1, <3>2, PutIsTree, Paths DEF Put
  <2> QED BY <1>a, <1>b, <1>1, <2>1 DEF EditDoc, Edited
<1>2. ASSUME EditIndex PROVE TypeOK'
  <2>1. IsTree(work')
    <3>1. work[Index] \in IndexType
      BY <1>0 DEF IsTree
    <3>2. PICK i \in Reworded(work[Index]) : Put(Index, i)
      BY <1>2 DEF EditIndex
    <3>3. i \in IndexType
      BY <3>1, <3>2 DEF IndexType, Reworded
    <3> QED BY <1>0, <3>2, <3>3, PutIsTree, Paths DEF Put
  <2> QED BY <1>a, <1>b, <1>2, <2>1 DEF EditIndex, Edited
<1>3. ASSUME BumpStamp PROVE TypeOK'
  <2>1. IsTree(work')
    <3>1. PICK s \in Day : Put(Index, [work[Index] EXCEPT !.stamp = s])
      BY <1>3 DEF BumpStamp
    <3>2. [work[Index] EXCEPT !.stamp = s] \in IndexType
      BY <1>0 DEF IsTree, IndexType
    <3> QED BY <1>0, <3>1, <3>2, PutIsTree, Paths DEF Put
  <2> QED BY <1>a, <1>b, <1>3, <2>1 DEF BumpStamp, Edited
<1>4. ASSUME NEW d \in Doc, RemovePage(d) PROVE TypeOK'
  <2>1. IsTree(work')
    BY <1>0, <1>4, PutIsTree, Paths DEF RemovePage, Put
  <2> QED BY <1>0, <1>4, <1>a, <2>1 DEF RemovePage
<1>5. ASSUME RunBuildPages PROVE TypeOK'
  <2>1. IsTree(work')
    BY <1>0, <1>5, BuildPagesIsTree DEF RunBuildPages
  <2> QED BY <1>0, <1>5, <1>a, <2>1 DEF RunBuildPages, Built
<1>6. ASSUME RunBuildSourcePack PROVE TypeOK'
  <2>1. IsTree(work')
    BY <1>0, <1>6, BuildsAreTyped, PutIsTree, Paths DEF RunBuildSourcePack, Put
  <2> QED BY <1>0, <1>6, <1>a, <2>1 DEF RunBuildSourcePack, Built
<1>7. ASSUME RunBuildSitemap PROVE TypeOK'
  <2>1. IsTree(work')
    BY <1>0, <1>7, BuildsAreTyped, PutIsTree, Paths DEF RunBuildSitemap, Put
  <2> QED BY <1>0, <1>7, <1>a, <2>1 DEF RunBuildSitemap, Built
<1>8. ASSUME Commit PROVE TypeOK'
  <2>1. IsHead(branch')
    BY <1>0, <1>8 DEF Commit, IsHead
  <2> QED BY <1>0, <1>8, <2>1 DEF Commit, TypeOK, seen, IsHead, IsTree
<1>9. ASSUME Tick PROVE TypeOK'
  <2>1. day' \in Day
    BY <1>0, <1>9, PathAssumption DEF Tick, Day
  <2> QED BY <1>0, <1>9, <2>1 DEF Tick, TypeOK, pull, seen, IsHead, IsTree
<1>10. ASSUME RunCI PROVE TypeOK'
  BY <1>0, <1>10 DEF RunCI, TypeOK, seen, IsHead, IsTree
<1>11. ASSUME OthersLand PROVE TypeOK'
  <2>1. PICK head : IsHead(head) /\ MainBecomes(head)
    BY <1>11, OthersMove DEF OthersHead
  <2>2. edits' \in 0 .. MaxEdits
    BY <1>0, <1>11, PathAssumption DEF OthersLand
  <2> QED BY <1>0, <1>11, <1>c, <2>1, <2>2 DEF OthersLand, TypeOK, IsHead, IsTree
<1>12. ASSUME Update PROVE TypeOK'
  <2>1. PICK t \in {mergeTree(base, branch.tree, main.tree), mergeTree(base, main.tree, branch.tree)} :
          /\ work' = t
          /\ branch' = IF branch.tree = base THEN main
                       ELSE [tree |-> t, touched |-> [f \in File |-> MergedDate(t, branch, main, f)]]
    BY <1>12 DEF Update
  <2>2. IsTree(t)
    BY <1>0, <2>1, MergeIsTree
  <2>3. \A f \in File : MergedDate(t, branch, main, f) \in Day
    BY <1>0 DEF MergedDate, IsHead
  <2>4. IsHead([tree |-> t, touched |-> [f \in File |-> MergedDate(t, branch, main, f)]])
    BY <2>2, <2>3 DEF IsHead
  <2>5. IsTree(work') /\ IsHead(branch')
    BY <1>0, <2>1, <2>2, <2>4
  <2> QED BY <1>0, <1>12, <2>5 DEF Update, TypeOK, seen, IsHead, IsTree
<1>13. ASSUME NEW head \in {Merged, Squashed}, Land(head), restamped' \subseteq File PROVE TypeOK'
  <2>1. IsHead(head) /\ IsTree(head.tree)
    BY MergedIsHead DEF IsHead
  <2>2. MainBecomes(head)
    BY <1>13 DEF Land
  <2>3. IsHead(main)' /\ forward' \in BOOLEAN /\ \A a \in announced' : a.stamp \in Day
    BY <1>c, <2>1, <2>2
  <2>4. /\ branch' = head /\ work' = head.tree /\ base' = head.tree /\ current' = TRUE /\ passed' = FALSE
        /\ UNCHANGED <<day, edits>> /\ fresh' \subseteq fresh
    BY <1>13 DEF Land
  <2> QED BY <1>0, <1>13, <2>1, <2>3, <2>4 DEF TypeOK, IsHead, IsTree
<1>14. ASSUME LandMerge PROVE TypeOK'
  BY <1>14, <1>13 DEF LandMerge
<1>15. ASSUME LandSquash PROVE TypeOK'
  BY <1>15, <1>13 DEF LandSquash
<1> QED BY <1>1, <1>2, <1>3, <1>4, <1>5, <1>6, <1>7, <1>8, <1>9, <1>10, <1>11, <1>12, <1>14, <1>15 DEF Next

\* Dates stay behind the calendar.
LEMMA PastStep ==
  ASSUME TypeOK, DatesArePast, Next
  PROVE  DatesArePast'
<1>0. /\ day \in Nat /\ \A f \in File : branch.touched[f] \in Nat /\ main.touched[f] \in Nat
      /\ \A f \in File : branch.touched[f] <= day /\ main.touched[f] <= day
  <2>1. Day \subseteq Nat
    BY PathAssumption DEF Day
  <2> QED BY <2>1 DEF TypeOK, IsHead, DatesArePast
<1>a. ASSUME UNCHANGED <<branch, main, day>> PROVE DatesArePast'
  BY <1>0, <1>a DEF DatesArePast
<1>b. ASSUME NEW head \in {Merged, Squashed}, Land(head) PROVE DatesArePast'
  <2>1. main' = head /\ branch' = head /\ day' = day
    BY <1>b DEF Land, MainBecomes
  <2>2. \A f \in File : Merged.touched[f] <= day
    BY <1>0 DEF Merged, MergedDate
  <2>3. \A f \in File : Squashed.touched[f] <= day
    BY <1>0, MergedIsHead
  <2> QED BY <2>1, <2>2, <2>3 DEF DatesArePast
<1>1. ASSUME Commit PROVE DatesArePast'
  BY <1>0, <1>1 DEF Commit, DatesArePast
<1>2. ASSUME Tick PROVE DatesArePast'
  BY <1>0, <1>2 DEF Tick, DatesArePast
<1>3. ASSUME OthersLand PROVE DatesArePast'
  <2>1. PICK head : MainBecomes(head) /\ \A f \in File : head.touched[f] \in {day, main.touched[f]}
    BY <1>3, OthersMove DEF OthersHead
  <2>2. main' = head /\ UNCHANGED <<branch, day>>
    BY <1>3, <2>1 DEF OthersLand, MainBecomes
  <2> QED BY <1>0, <2>1, <2>2 DEF DatesArePast
<1>4. ASSUME Update PROVE DatesArePast'
  <2>1. UNCHANGED <<main, day>>
    BY <1>4 DEF Update
  <2>2. PICK t : branch' = IF branch.tree = base THEN main
                   ELSE [tree |-> t, touched |-> [f \in File |-> MergedDate(t, branch, main, f)]]
    BY <1>4 DEF Update
  <2>3. \A f \in File : branch'.touched[f] <= day
    BY <1>0, <2>2 DEF MergedDate
  <2> QED BY <1>0, <2>1, <2>3 DEF DatesArePast
<1>5. LandMerge \/ LandSquash \/ Commit \/ Tick \/ OthersLand \/ Update \/ UNCHANGED <<branch, main, day>>
  BY DEF Next, EditDoc, EditIndex, Edited, BumpStamp, RemovePage, RunBuildPages, RunBuildSourcePack,
         RunBuildSitemap, Built, RunCI
<1> QED BY <1>a, <1>b, <1>1, <1>2, <1>3, <1>4, <1>5 DEF LandMerge, LandSquash

\* CI's pass of a current branch is of the branch itself, and stays so until the branch
\* or main moves.
LEMMA CheckedStep ==
  ASSUME TypeOK, CurrentIsChecked, Next
  PROVE  CurrentIsChecked'
<1>1. ASSUME UNCHANGED <<branch, main, base, current>>, passed' => passed \/ Green
      PROVE  CurrentIsChecked'
  <2>1. OwnGreen' <=> OwnGreen
    BY <1>1 DEF OwnGreen, OwnDate, checkPages, sourceFiles, renderPage, checkPack, packBuilds, buildPack,
                checkStamp, contentChanged, Specification, Says
  <2> QED BY <1>1, <2>1, CurrentMerge DEF CurrentIsChecked
<1>2. ASSUME current' => base' = main.tree', ~passed' PROVE CurrentIsChecked'
  BY <1>2 DEF CurrentIsChecked
<1>3. ASSUME OthersLand PROVE CurrentIsChecked'
  BY <1>3 DEF OthersLand, CurrentIsChecked
<1>4. Commit => (current' => base' = main.tree') /\ ~passed'
  BY DEF Commit, CurrentIsChecked
<1>5. Update => base' = main.tree' /\ ~passed'
  BY DEF Update
<1>6. LandMerge \/ LandSquash => base' = main.tree' /\ ~passed'
  BY DEF LandMerge, LandSquash, Land, MainBecomes
<1>7. RunCI => UNCHANGED <<branch, main, base, current>> /\ Green
  BY DEF RunCI
<1>8. \/ Commit \/ Update \/ LandMerge \/ LandSquash \/ RunCI \/ OthersLand
      \/ UNCHANGED <<branch, main, base, current, passed>>
  BY DEF Next, EditDoc, EditIndex, Edited, BumpStamp, RemovePage, RunBuildPages, RunBuildSourcePack,
         RunBuildSitemap, Built, Tick, pull
<1> QED BY <1>1, <1>2, <1>3, <1>4, <1>5, <1>6, <1>7, <1>8

\* How main moves where the host is Strict: to a tree that passes every check, whose
\* sitemap holds the dates of the commits, some of them then moved to today.
Moves == LandMerge \/ LandSquash \/ OthersLand

LEMMA MainStep ==
  ASSUME TypeOK, DatesArePast, CurrentIsChecked, Strict, Moves
  PROVE  /\ MainBecomes(main')
         /\ checkPages(main'.tree) /\ checkPack(main'.tree) /\ checkStamp(main.tree, main'.tree)
         /\ \A f \in ROUTES :
              /\ f \notin restamped' => main'.tree[Sitemap][f] = main'.touched[f]
              /\ f \in restamped' => main'.tree[Sitemap][f] < main'.touched[f]
<1>1. ASSUME NEW head \in {Merged, Squashed}, Land(head)
      PROVE  /\ MainBecomes(main') /\ main' = head /\ OwnGreen /\ head.tree = branch.tree
             /\ Merged.tree = branch.tree
             /\ \A f \in ROUTES : f \in File /\ branch.tree[Sitemap][f] = Merged.touched[f]
  <2>1. base = main.tree /\ OwnGreen
    BY <1>1 DEF Land, CurrentIsChecked
  <2>2. Merged.tree = branch.tree /\ \A f \in File : Merged.touched[f] = OwnDate(f)
    BY <2>1, CurrentMerge
  <2>3. head.tree = branch.tree
    BY <2>2, MergedIsHead
  <2>4. MainBecomes(head)
    BY <1>1 DEF Land
  <2>5. main' = head
    BY <2>4 DEF MainBecomes
  <2> QED BY <2>1, <2>2, <2>3, <2>4, <2>5, Paths DEF OwnGreen
<1>2. CASE LandMerge
  <2>1. Land(Merged) /\ restamped' = {}
    BY <1>2 DEF LandMerge
  <2>2. main' = Merged
    BY <1>1, <2>1
  <2> QED BY <1>1, <2>1, <2>2 DEF OwnGreen
<1>3. CASE LandSquash
  <2>1. Land(Squashed) /\ restamped' = {f \in File : Squashed.touched[f] # Merged.touched[f]}
    BY <1>3 DEF LandSquash
  <2>2. main' = Squashed
    BY <1>1, <2>1
  <2>3. ASSUME NEW f \in ROUTES
        PROVE  /\ f \notin restamped' => Squashed.tree[Sitemap][f] = Squashed.touched[f]
               /\ f \in restamped' => Squashed.tree[Sitemap][f] < Squashed.touched[f]
    <3>1. /\ f \in File /\ branch.tree[Sitemap][f] = Merged.touched[f]
          /\ Squashed.tree = branch.tree /\ Merged.tree = branch.tree
          /\ Squashed.touched[f] = IF branch.tree[f] = main.tree[f] THEN main.touched[f] ELSE day
      BY <1>1, <2>1, MergedIsHead
    <3>2. branch.tree[f] = main.tree[f] => Merged.touched[f] = main.touched[f]
      BY <3>1 DEF Merged, MergedDate
    <3>3. Merged.touched[f] \in Nat /\ day \in Nat /\ Merged.touched[f] <= day
      <4>0. Day \subseteq Nat
        BY PathAssumption DEF Day
      <4>1. day \in Nat /\ main.touched[f] \in Nat /\ branch.touched[f] \in Nat
        BY <3>1, <4>0 DEF TypeOK, IsHead
      <4>2. Merged.touched[f] \in {main.touched[f], branch.touched[f], day}
        BY <3>1 DEF Merged, MergedDate
      <4>3. main.touched[f] <= day /\ branch.touched[f] <= day
        BY <3>1 DEF DatesArePast
      <4> QED BY <4>1, <4>2, <4>3
    <3> QED BY <2>1, <3>1, <3>2, <3>3
  <2> QED BY <1>1, <2>1, <2>2, <2>3 DEF OwnGreen
<1>4. CASE OthersLand
  <2>1. PICK head : OthersHead(head)
    BY <1>4, OthersMove
  <2>2. main' = head /\ restamped' = {}
    BY <1>4, <2>1 DEF OthersLand, OthersHead, MainBecomes
  <2> QED BY <2>1, <2>2 DEF OthersHead
<1> QED BY <1>2, <1>3, <1>4 DEF Moves

LEMMA MainStays ==
  ASSUME Next, ~Moves
  PROVE  UNCHANGED <<main, seen>>
BY DEF Moves, Next, EditDoc, EditIndex, Edited, BumpStamp, RemovePage, RunBuildPages,
       RunBuildSourcePack, RunBuildSitemap, Built, Commit, Tick, RunCI, Update, seen

\* A move of main that changes what the specification says moves the stamp; while
\* stamps only move forward, the new announcement is later than every other.
LEMMA AnnouncedStep ==
  ASSUME TypeOK, DatesArePast, CurrentIsChecked, Strict, Next, forward',
         LatestIsShown, StampNamesOneText
  PROVE  (LatestIsShown /\ StampNamesOneText)'
<1> DEFINE old == main.tree[Index].stamp
           new == main'.tree[Index].stamp
           text == Specification(main'.tree)
<1>1. CASE Moves
  <2>1. /\ MainBecomes(main') /\ checkStamp(main.tree, main'.tree)
        /\ announced' = announced \cup {[stamp |-> new, spec |-> text]}
    BY <1>1, MainStep DEF MainBecomes
  <2>2. text # Specification(main.tree) => old # new
    BY <2>1 DEF checkStamp, contentChanged
  <2>3. old \in Nat /\ new \in Nat /\ old <= new /\ \A a \in announced : a.stamp \in Nat
    <3>1. TypeOK'
      BY TypeStep
    <3>2. old \in Day /\ new \in Day /\ \A a \in announced : a.stamp \in Day
      BY <3>1 DEF TypeOK, IsHead, IsTree, IndexType
    <3>3. Day \subseteq Nat
      BY PathAssumption DEF Day
    <3> QED BY <2>1, <3>2, <3>3 DEF MainBecomes
  <2>4. \A a \in announced : a.stamp <= new /\ (a.stamp = new => a.spec = text)
    BY <2>2, <2>3 DEF LatestIsShown
  <2>5. \A a \in announced' : a.stamp <= new /\ (a.stamp = new => a.spec = text)
    BY <2>1, <2>3, <2>4
  <2>6. LatestIsShown'
    <3>1. Specification(main.tree)' = text
      BY DEF Specification, Says
    <3> QED BY <2>5, <3>1 DEF LatestIsShown
  <2>7. StampNamesOneText'
    BY <2>1, <2>4, <2>5 DEF StampNamesOneText
  <2> QED BY <2>6, <2>7
<1>2. CASE ~Moves
  <2>1. UNCHANGED <<main, announced>>
    BY <1>2, MainStays DEF seen
  <2> QED BY <2>1 DEF LatestIsShown, StampNamesOneText, Specification, Says
<1> QED BY <1>1, <1>2

\* Main's sitemap holds the dates of its commits, but for those a squash then moved.
LEMMA DatesStep ==
  ASSUME TypeOK, DatesArePast, CurrentIsChecked, Strict, Next, DatesAreMains
  PROVE  DatesAreMains'
<1>1. CASE Moves
  BY <1>1, MainStep DEF DatesAreMains
<1>2. CASE ~Moves
  <2>1. UNCHANGED <<main, restamped>>
    BY <1>2, MainStays DEF seen
  <2> QED BY <2>1 DEF DatesAreMains
<1> QED BY <1>1, <1>2

\* What a stage has written stays what it would write: only edits, main taken in, a day
\* over uncommitted files and a merge that moves a date take it out of fresh.
LEMMA FreshStep ==
  ASSUME TypeOK, NothingToWrite, Next
  PROVE  NothingToWrite'
<1>0. /\ IsTree(work) /\ IsTree(branch.tree) /\ DOMAIN work = File \cup {Sitemap}
      /\ IsHead(branch) /\ day \in Day
  BY DEF TypeOK, IsHead, IsTree
<1>a. ASSUME fresh' = {} PROVE NothingToWrite'
  BY <1>a DEF NothingToWrite
<1>1. ASSUME NEW d \in Doc, EditDoc(d) PROVE NothingToWrite'
  BY <1>1, <1>a DEF EditDoc, Edited
<1>2. ASSUME EditIndex PROVE NothingToWrite'
  BY <1>2, <1>a DEF EditIndex, Edited
<1>3. ASSUME BumpStamp PROVE NothingToWrite'
  BY <1>3, <1>a DEF BumpStamp, Edited
<1>b. ASSUME \A f \in (File \cup {Sitemap}) \ Page : work'[f] = work[f],
             UNCHANGED <<branch, day>>,
             \A d \in sourceFiles(work) :
               "pages" \in fresh' => work'[outputPathFor[d]] = renderPage(d, work),
             fresh' \ {"pages"} \subseteq fresh
      PROVE  NothingToWrite'
  <2>1. /\ \A d \in Doc : work'[d] = work[d]
        /\ work'[Index] = work[Index] /\ work'[Pack] = work[Pack] /\ work'[Sitemap] = work[Sitemap]
        /\ \A f \in ROUTES : work'[f] = work[f]
    BY <1>b, Paths
  <2>2. sourceFiles(work') = sourceFiles(work) /\ \A d \in Doc : renderPage(d, work') = renderPage(d, work)
    BY <2>1 DEF sourceFiles, renderPage
  <2>3. checkPack(work) => checkPack(work')
    BY <2>1, PathAssumption DEF checkPack, packBuilds, buildPack
  <2>4. checkSitemap(work, branch, day) => checkSitemap(work', branch', day')
    BY <1>b, <2>1, PathAssumption DEF checkSitemap, sitemapBuilds, buildSitemap, lastmod
  <2>5. "pages" \in fresh' =>
          \A d \in sourceFiles(work') : work'[outputPathFor[d]] = renderPage(d, work')
    BY <1>b, <2>2 DEF sourceFiles
  <2>6. ("pack" \in fresh' => "pack" \in fresh) /\ ("sitemap" \in fresh' => "sitemap" \in fresh)
    BY <1>b
  <2>7. "pack" \in fresh' => checkPack(work)'
    BY <2>3, <2>6 DEF NothingToWrite, checkPack, packBuilds, buildPack
  <2>8. "sitemap" \in fresh' => checkSitemap(work, branch, day)'
    BY <2>4, <2>6 DEF NothingToWrite, checkSitemap, sitemapBuilds, buildSitemap, lastmod
  <2> QED BY <2>5, <2>7, <2>8 DEF NothingToWrite, sourceFiles, renderPage
<1>4. ASSUME NEW d \in Doc, RemovePage(d) PROVE NothingToWrite'
  <2>1. \A f \in (File \cup {Sitemap}) \ {outputPathFor[d]} : work'[f] = work[f]
    BY <1>0, <1>4 DEF RemovePage, Put
  <2>2. \A c \in sourceFiles(work) : work'[outputPathFor[c]] = work[outputPathFor[c]]
    BY <1>4, <2>1, Paths, PathAssumption DEF RemovePage, sourceFiles
  <2> QED BY <1>b, <1>4, <2>1, <2>2, Paths DEF RemovePage, NothingToWrite
<1>5. ASSUME RunBuildPages PROVE NothingToWrite'
  BY <1>0, <1>5, <1>b, BuildPagesIsTree DEF RunBuildPages, Built
<1>6. ASSUME RunBuildSourcePack PROVE NothingToWrite'
  <2>1. /\ work'[Pack] = buildPack(work) /\ packBuilds(work)
        /\ \A f \in (File \cup {Sitemap}) \ {Pack} : work'[f] = work[f]
        /\ fresh' = (fresh \ {"sitemap"}) \cup {"pack"}
    BY <1>0, <1>6, Paths DEF RunBuildSourcePack, Put, Built
  <2>2. (\A d \in Doc : work'[d] = work[d] /\ work'[outputPathFor[d]] = work[outputPathFor[d]])
        /\ work'[Index] = work[Index]
    BY <2>1, Paths
  <2>3. checkPack(work)'
    BY <2>1, <2>2, PathAssumption DEF checkPack, packBuilds, buildPack
  <2>4. "pages" \in fresh' => \A d \in sourceFiles(work)' : work'[outputPathFor[d]] = renderPage(d, work)'
    BY <2>1, <2>2 DEF NothingToWrite, sourceFiles, renderPage
  <2> QED BY <2>1, <2>3, <2>4 DEF NothingToWrite
<1>7. ASSUME RunBuildSitemap PROVE NothingToWrite'
  <2>1. /\ work'[Sitemap] = buildSitemap(work, branch, day) /\ sitemapBuilds(work)
        /\ \A f \in File : work'[f] = work[f]
        /\ fresh' = fresh \cup {"sitemap"} /\ UNCHANGED <<branch, day>>
    BY <1>0, <1>7, Paths DEF RunBuildSitemap, Put, Built
  <2>2. (\A d \in Doc : work'[d] = work[d] /\ work'[outputPathFor[d]] = work[outputPathFor[d]])
        /\ work'[Index] = work[Index] /\ work'[Pack] = work[Pack]
        /\ \A f \in ROUTES : work'[f] = work[f]
    BY <2>1, Paths
  <2>3. checkSitemap(work, branch, day)'
    BY <2>1, <2>2, PathAssumption DEF checkSitemap, sitemapBuilds, buildSitemap, lastmod
  <2>4. "pages" \in fresh' => \A d \in sourceFiles(work)' : work'[outputPathFor[d]] = renderPage(d, work)'
    BY <2>1, <2>2 DEF NothingToWrite, sourceFiles, renderPage
  <2>5. "pack" \in fresh' => checkPack(work)'
    BY <2>1, <2>2, PathAssumption DEF NothingToWrite, checkPack, packBuilds, buildPack
  <2> QED BY <2>3, <2>4, <2>5 DEF NothingToWrite
<1>c. ASSUME UNCHANGED <<work, day>>, fresh' \subseteq fresh,
             "sitemap" \in fresh' => \A f \in ROUTES : lastmod(f, work, branch', day) = lastmod(f, work, branch, day)
      PROVE  NothingToWrite'
  <2>1. "sitemap" \in fresh' => checkSitemap(work, branch', day)
    BY <1>c DEF NothingToWrite, checkSitemap, buildSitemap
  <2> QED BY <1>c, <2>1 DEF NothingToWrite, checkSitemap, sitemapBuilds, buildSitemap, lastmod,
                            checkPack, packBuilds, buildPack, sourceFiles, renderPage
<1>8. ASSUME Commit PROVE NothingToWrite'
  <2>1. \A f \in ROUTES : lastmod(f, work, branch', day) = lastmod(f, work, branch, day)
    BY <1>8, Paths DEF Commit, lastmod
  <2> QED BY <1>8, <1>c, <2>1 DEF Commit
<1>9. ASSUME Tick PROVE NothingToWrite'
  <2>1. "sitemap" \in fresh' => \A f \in ROUTES : work[f] = branch.tree[f]
    BY <1>9 DEF Tick
  <2>2. "sitemap" \in fresh' => checkSitemap(work, branch, day')
    BY <1>9, <2>1 DEF Tick, NothingToWrite, checkSitemap, buildSitemap, lastmod
  <2> QED BY <1>9, <2>2 DEF Tick, NothingToWrite, checkSitemap, sitemapBuilds, buildSitemap, lastmod,
                            checkPack, packBuilds, buildPack, sourceFiles, renderPage
<1>10. ASSUME RunCI PROVE NothingToWrite'
  BY <1>10, <1>c DEF RunCI
<1>11. ASSUME OthersLand PROVE NothingToWrite'
  BY <1>11, <1>c DEF OthersLand
<1>12. ASSUME Update PROVE NothingToWrite'
  BY <1>12, <1>a DEF Update
<1>13. ASSUME NEW head \in {Merged, Squashed}, Land(head) PROVE NothingToWrite'
  <2>1. /\ work = branch.tree /\ branch' = head /\ work' = head.tree /\ day' = day
        /\ fresh' = IF head = branch THEN fresh
                    ELSE IF head.tree = branch.tree THEN fresh \ {"sitemap"} ELSE {}
    BY <1>13 DEF Land
  <2>2. CASE head = branch
    BY <1>c, <2>1, <2>2
  <2>3. CASE head # branch /\ head.tree = branch.tree
    BY <1>c, <2>1, <2>3
  <2>4. CASE head # branch /\ head.tree # branch.tree
    BY <1>a, <2>1, <2>4
  <2> QED BY <2>2, <2>3, <2>4
<1>14. ASSUME LandMerge PROVE NothingToWrite'
  BY <1>14, <1>13 DEF LandMerge
<1>15. ASSUME LandSquash PROVE NothingToWrite'
  BY <1>15, <1>13 DEF LandSquash
<1> QED BY <1>1, <1>2, <1>3, <1>4, <1>5, <1>6, <1>7, <1>8, <1>9, <1>10, <1>11, <1>12, <1>14, <1>15 DEF Next

-----------------------------------------------------------------------------
\* The inductive invariant: typed trees, dates in order, fresh stages with nothing to
\* write, current branches as CI saw them and, where the host is Strict, what main
\* dates and has announced.
THEOREM Invariant == Spec => []IInv
<1>1. Init => IInv
  <2> SUFFICES ASSUME Init PROVE IInv
    OBVIOUS
  <2>1. 0 \in Day /\ 0 \in 0 .. MaxEdits
    BY PathAssumption DEF Day
  <2>2. IsTree(FirstTree) /\ FirstTree[Index] = FirstIndex /\ FirstIndex.stamp = 0
    BY FirstTreeIsBuilt, PathAssumption
  <2>3. IsHead(FirstHead) /\ FirstHead.tree = FirstTree /\ FirstHead.touched = [f \in File |-> 0]
    BY <2>1, <2>2 DEF IsHead, FirstHead
  <2>4. TypeOK
    <3>1. IsTree(work) /\ IsHead(branch) /\ IsHead(main) /\ IsTree(base)
      BY <2>2, <2>3 DEF Init
    <3>2. \A a \in announced : a.stamp \in Day
      BY <2>1 DEF Init
    <3> QED BY <2>1, <3>1, <3>2 DEF Init, TypeOK
  <2>5. DatesArePast /\ CurrentIsChecked
    BY <2>2, <2>3 DEF Init, DatesArePast, CurrentIsChecked
  <2>6. LatestIsShown /\ StampNamesOneText
    BY <2>2, <2>3 DEF Init, LatestIsShown, StampNamesOneText
  <2>7. packBuilds(FirstTree) /\ sitemapBuilds(FirstTree)
    <3>1. \A d \in MANIFEST \cup Routed : FirstTree[d] # Absent
      BY FirstTreeIsBuilt, PathAssumption
    <3> QED BY <3>1 DEF packBuilds, sitemapBuilds
  <2>8. NothingToWrite
    <3>1. checkPack(work)
      BY <2>7, FirstTreeIsBuilt DEF Init, checkPack
    <3>2. checkSitemap(work, branch, day)
      BY <2>3, <2>7, FirstTreeIsBuilt, Paths DEF Init, checkSitemap, buildSitemap, lastmod
    <3> QED BY <3>1, <3>2, FirstTreeIsBuilt DEF Init, NothingToWrite
  <2>9. DatesAreMains
    BY <2>3, FirstTreeIsBuilt, Paths DEF Init, DatesAreMains
  <2> QED BY <2>4, <2>5, <2>6, <2>8, <2>9 DEF IInv
<1>2. IInv /\ [Next]_vars => IInv'
  <2>1. ASSUME IInv, Next PROVE IInv'
    <3>1. TypeOK /\ DatesArePast /\ CurrentIsChecked /\ NothingToWrite
      BY <2>1 DEF IInv
    <3>2. TypeOK' /\ DatesArePast' /\ CurrentIsChecked' /\ NothingToWrite'
      BY <2>1, <3>1, TypeStep, PastStep, CheckedStep, FreshStep
    <3>3. Strict => DatesAreMains'
      BY <2>1, <3>1, DatesStep DEF IInv
    <3>4. ASSUME Strict, forward' PROVE (LatestIsShown /\ StampNamesOneText)'
      <4>1. forward
        <5>1. CASE Moves
          BY <3>1, <3>4, <5>1, MainStep DEF MainBecomes
        <5>2. CASE ~Moves
          BY <2>1, <3>4, <5>2, MainStays DEF seen
        <5> QED BY <5>1, <5>2
      <4> QED BY <2>1, <3>1, <3>4, <4>1, AnnouncedStep DEF IInv
    <3> QED BY <3>2, <3>3, <3>4 DEF IInv
  <2>2. ASSUME IInv, UNCHANGED vars PROVE IInv'
    <3>1. UNCHANGED <<work, branch, main, base, current, passed, day, edits, fresh, restamped, announced, forward>>
      BY <2>2 DEF vars, pull, seen
    <3>2. TypeOK' /\ DatesArePast'
      BY <2>2, <3>1 DEF IInv, TypeOK, DatesArePast, IsTree, IsHead
    <3>3. NothingToWrite'
      BY <2>2, <3>1 DEF IInv, NothingToWrite, checkPack, packBuilds, buildPack, checkSitemap, sitemapBuilds,
                        buildSitemap, lastmod, sourceFiles, renderPage
    <3>4. CurrentIsChecked'
      BY <2>2, <3>1 DEF IInv, CurrentIsChecked, OwnGreen, OwnDate, checkPages, sourceFiles, renderPage,
                        checkPack, packBuilds, buildPack, checkStamp, contentChanged, Specification, Says
    <3>5. Strict => DatesAreMains'
      BY <2>2, <3>1 DEF IInv, DatesAreMains
    <3>6. Strict /\ forward' => (LatestIsShown /\ StampNamesOneText)'
      BY <2>2, <3>1 DEF IInv, LatestIsShown, StampNamesOneText, Specification, Says
    <3> QED BY <3>2, <3>3, <3>4, <3>5, <3>6 DEF IInv
  <2> QED BY <2>1, <2>2
<1> QED BY <1>1, <1>2, PTL DEF Spec

\* Trees, histories and dates keep their types.
THEOREM Typing == Spec => []TypeOK
BY Invariant, PTL DEF IInv

\* Where the host merges only branches that hold all of main, main never shows two
\* texts of the specification under one stamp, for any documents and any number of days,
\* authors and edits, as long as no stamp goes back to an earlier date.
THEOREM ForwardText == ASSUME Strict PROVE Spec => []ForwardStampNamesOneText
<1>1. IInv => ForwardStampNamesOneText
  BY DEF IInv, ForwardStampNamesOneText
<1> QED BY <1>1, Invariant, PTL

\* Where the host merges only branches that hold all of main, the dates main publishes
\* are those of its commits, and earlier where a squash restamped the file.
THEOREM Dates == ASSUME Strict PROVE Spec => []DatesAreMains
<1>1. IInv => DatesAreMains
  BY DEF IInv
<1> QED BY <1>1, Invariant, PTL

\* The scripts' recipe makes every check pass on the author's tree, whatever lands.
THEOREM Recipe == Spec => []RecipeIsEnough
<1>1. IInv => RecipeIsEnough
  BY DEF IInv, NothingToWrite, RecipeIsEnough, checkPages, Swept, sourceFiles
<1> QED BY <1>1, Invariant, PTL

\* Where the host merges only branches that hold all of main, Publishing implements
\* PublishedSite: main starts as the rendering of its documents, and every step of it,
\* of this author's or another's making, publishes documents and renderings together.
THEOREM Refinement == ASSUME Strict PROVE Spec => PublishesWhole
<1> DEFINE docs(t) == [doc |-> [d \in Doc |-> t[d]], nav |-> t[Index].nav]
           views(t) == [page |-> [d \in Doc |-> t[outputPathFor[d]]], pack |-> t[Pack]]
<1>1. ASSUME NEW t, IsTree(t), checkPages(t), checkPack(t)
      PROVE  docs(t) \in Site!Source /\ views(t) = Site!Rendering(docs(t))
  <2>1. docs(t) \in Site!Source
    BY <1>1 DEF IsTree, IndexType, Site!Source
  <2>2. views(t).page = [d \in Doc |-> IF t[d] = Absent THEN Absent
                                       ELSE [doc |-> t[d], nav |-> t[Index].nav]]
    BY <1>1 DEF checkPages, sourceFiles, renderPage
  <2>3. views(t).pack = [d \in MANIFEST |-> t[d]]
    BY <1>1 DEF checkPack, buildPack
  <2> QED BY <2>1, <2>2, <2>3, PathAssumption DEF Site!Rendering
<1>2. Init => Site!Init
  <2> SUFFICES ASSUME Init PROVE Site!Init
    OBVIOUS
  <2>1. main.tree = FirstTree
    BY DEF Init, FirstHead
  <2>2. checkPages(FirstTree)
    BY FirstTreeIsBuilt DEF checkPages, sourceFiles
  <2>3. checkPack(FirstTree)
    BY FirstTreeIsBuilt, PathAssumption DEF checkPack, packBuilds
  <2> QED BY <1>1, <2>1, <2>2, <2>3, FirstTreeIsBuilt DEF Site!Init
<1>3. IInv /\ [Next]_vars => [Site!Publish]_<<docs(main.tree), views(main.tree)>>
  <2>1. ASSUME IInv, Next, Moves PROVE Site!Publish
    <3>1. TypeOK /\ DatesArePast /\ CurrentIsChecked
      BY <2>1 DEF IInv
    <3>2. checkPages(main'.tree) /\ checkPack(main'.tree)
      BY <2>1, <3>1, MainStep
    <3>3. IsTree(main'.tree)
      BY <2>1, <3>1, TypeStep DEF TypeOK, IsHead
    <3> QED BY <1>1, <3>2, <3>3 DEF Site!Publish
  <2>2. ASSUME Next, ~Moves PROVE UNCHANGED main
    BY <2>2, MainStays
  <2> QED BY <2>1, <2>2 DEF vars
<1> QED BY <1>2, <1>3, Invariant, PTL DEF Spec, PublishesWhole, Site!Spec
=============================================================================
