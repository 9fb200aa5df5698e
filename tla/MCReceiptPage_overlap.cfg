\* Two calls of run() may be in flight at once; a call that has the page to itself
\* sees every receipt, proof and key set.  No symmetry, since a liveness property
\* is checked.
CONSTANTS
  r1 = r1
  r2 = r2
  k1 = k1
  k2 = k2
  kl = kl
  Run = {r1, r2}
  NoOne = NoOne
  Key = {k1, k2, kl}
  NoKey = NoKey
  NoName = NoName
  OtherId = OtherId
  Malformed = Malformed
  NoProof = NoProof
  ALabel <- MCALabel
  Rules <- MCRules
  BrandTlds <- MCBrandTlds
  Domain <- MCDomain
  Receipt <- MCReceipt
  Proof <- MCProof
  Served <- MCServed
SPECIFICATION PageSpec
INVARIANTS
  TypeOK
  VerdictsAreSigned
  VerifiedIsAnchored
  AnchorIsForeign
  VerdictAndFactsAgree
  ListsAreRetried
  SoloVerdictIsExact
  SoloReferenceIsItsOwn
PROPERTY EveryPressConcludes
