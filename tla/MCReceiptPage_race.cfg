\* Two calls of run() may be in flight at once.
CONSTANTS
  r1 = r1
  r2 = r2
  k1 = k1
  k2 = k2
  kl = kl
  Run = {r1, r2}
  NoOne = NoOne
  Key = {k1, k2, kl}
  NoKey = NoKey
  NoName = NoName
  OtherId = OtherId
  Malformed = Malformed
  NoProof = NoProof
  ALabel <- MCALabel
  Rules <- MCRules
  BrandTlds <- MCBrandTlds
  Domain <- MCDomain
  Receipt <- MCFewReceipts
  Proof <- MCFewProofs
  Served <- MCFewServed
SPECIFICATION HSpec
SYMMETRY Symmetry
INVARIANT VerifiedMeansEveryCheckHeld
