------------------------------ MODULE MCLibrary ------------------------------
(***************************************************************************)
(* The libraries and scripts whose work is a function of their input, on   *)
(* every small input: a behaviour picks a subject and builds one input for *)
(* it step by step.  One subject, the transparency log, has a life of its  *)
(* own, and its behaviours are those of TransparencyLog.                   *)
(***************************************************************************)
EXTENDS Library, MCMerkleTree, MCHostName, MCVerifiers, MCSite

MCIssuer == {<<"villa", "com">>, <<"log", "org">>}
MCLogId  == [didWeb |-> TRUE, host |-> LogHost(<<"www", "log", "org">>, FALSE, FALSE)]
Symmetry == Permutations(Artifact) \cup Permutations(SigningKey)

\* What the inputs are built from is of their types, so that they are InputOK; and the
\* claims called good by hand are those the general definition calls good.
ASSUME InputsAssumption ==
  /\ \A c \in InclusionClaim \cup ConsistencyClaim :
       /\ c.tree \in Seq(Int) /\ Len(c.tree) <= TwoTo[Width - 1]
       /\ c.kind = "inclusion"   => c.size \in Nat /\ c.index \in 0 .. c.size - 1
       /\ c.kind = "consistency" => c.first \in Seq(Int) /\ Len(c.first) \in 1 .. Len(c.tree) - 1
  /\ MCLabel \subseteq STRING
  /\ MCJws \subseteq JwsType /\ MCEntry \subseteq EntryType
  /\ MCReceipt \subseteq ReceiptType /\ MCAttestation \subseteq AttestationType
  /\ MCFixture \subseteq FixtureType
  /\ \A b \in OtherBundles(GoodBundle) \cup {GoodBundle} :
       /\ b.bundle \in BundleType /\ b.examples \in ExamplesType
       /\ b.did \in Seq(EntryType) /\ b.otherKey \in Key \ {AttestationKey}
       /\ GoodExamples(b.examples) <=> b.examples \in MCGoodExamples
  /\ MCLine \subseteq LineType
  /\ \A f \in SUBSET MCFile, rw \in MCRewrite, h \in MCHeader, r \in MCRoute :
       [files |-> f, dirs |-> {r}, rewrites |-> <<rw>>, headers |-> <<h>>,
        sitemap |-> {r}, llms |-> {r}, hrefs |-> {r}] \in SiteType

-----------------------------------------------------------------------------
\* The inputs of a subject to begin with, and those one step larger.
Start(s) ==
  CASE s = "claim"    -> {<<c, <<>>>> : c \in InclusionClaim \cup ConsistencyClaim}
    [] s = "name"     -> {<<>>}
    [] s = "log"      -> {<<>>}
    [] s = "jws"      -> {<<j, <<>>>> : j \in MCJws}
    [] s = "receipt"  -> {<<r, now>> : r \in MCReceipt, now \in 0 .. 3}
    [] s = "fixture"  -> {<<f, at>> : f \in MCFixture, at \in 0 .. 3}
    [] s = "bundle"   -> {GoodBundle}
    [] s = "document" -> {<<>>}
    [] s = "site"     -> {<<"files", EmptySite>>}

Subjects ==
  {"claim", "name", "log", "jws", "receipt", "fixture", "bundle", "document", "site"}

Larger(s, i) ==
  CASE s = "claim" /\ Len(i[2]) < Longest(i[1]) -> {<<i[1], Append(i[2], h)>> : h \in Pool(i[1])}
    [] s = "name" /\ Len(i) < MaxLabels    -> {<<l>> \o i : l \in Label}
    [] s = "jws" /\ Len(i[2]) < MaxKeys    -> {<<i[1], Append(i[2], e)>> : e \in MCEntry}
    [] s = "receipt" /\ Len(i[1].attestations) < MaxAttestations ->
         {<<[i[1] EXCEPT !.attestations = Append(@, a)], i[2]>> : a \in MCAttestation}
    [] s = "bundle" /\ i.left > 0          -> {[b EXCEPT !.left = @ - 1] : b \in OtherBundles(i)}
    [] s = "document" /\ Len(i) < MaxLines -> {Append(i, l) : l \in MCLine}
    [] s = "site" /\ i[1] = "files"        -> {<<"files", t>> : t \in LargerSites(i[2])} \cup
                                              {<<"lists", t>> : t \in Listed(i[2])}
    [] OTHER                               -> {}

LibraryInit == Init /\ subject = "none" /\ input = <<>>

Pick ==
  /\ subject = "none"
  /\ subject' \in Subjects /\ input' \in Start(subject')
  /\ UNCHANGED vars

Build ==
  /\ input' \in Larger(subject, input)
  /\ UNCHANGED <<vars, subject>>

LogStep == subject = "log" /\ Next /\ UNCHANGED <<subject, input>>

LibraryNext == Pick \/ Build \/ LogStep

LibrarySpec == LibraryInit /\ [][LibraryNext]_<<vars, subject, input>>

=============================================================================
