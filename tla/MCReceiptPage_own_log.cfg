\* One call, and proofs from the issuer's own log, named with a final dot or a port.
CONSTANTS
  r1 = r1
  r2 = r2
  k1 = k1
  k2 = k2
  kl = kl
  Run = {r1}
  NoOne = NoOne
  Key = {k1, k2, kl}
  NoKey = NoKey
  NoName = NoName
  OtherId = OtherId
  Malformed = Malformed
  NoProof = NoProof
  ALabel <- MCALabel
  Rules <- MCRules
  BrandTlds <- MCBrandTlds
  Domain <- MCDomain
  Receipt <- MCFewReceipts
  Proof <- MCOwnLogProofs
  Served <- MCFewServed
SPECIFICATION HSpec
INVARIANT AnchorIsForeignHoweverWritten
