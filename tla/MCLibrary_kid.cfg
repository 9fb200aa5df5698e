\* Every small input of the libraries and scripts; see the MC modules for the sets.
CONSTANTS
  \* claims about trees: numbers of 4 bits, so stated sizes of 8 and 9 overflow
  Width = 4
  MaxTree = 5
  MaxClaim = 9
  MaxPath = 3
  MaxProof = 4
  \* names
  Rules <- MCRules
  Label <- MCLabel
  ALabel <- MCALabel
  BrandTlds <- MCBrandTlds
  MaxLabels = 3
  \* the log
  Artifact = {a1, a2, a3}
  SigningKey = {s1, s2}
  None = None
  MaxSize = 3
  MaxHeads = 2
  Issuer <- MCIssuer
  LogId <- MCLogId
  \* signatures, receipts, fixtures, credentials
  k1 = k1
  k2 = k2
  n1 = n1
  n2 = n2
  p1 = p1
  Key = {k1, k2}
  Name = {n1, n2}
  Payload = {p1}
  Broken = Broken
  Scalar = Scalar
  NoKid = NoKid
  NoJws = NoJws
  MaxKeys = 2
  Absent = Absent
  MaxAttestations = 3
  TestKey = k1
  TestName = n1
  IssuerDid = IssuerDid
  AttestationKey = k1
  AttestationName = n1
  \* times of offers, in seconds of 4 a day
  Millisecond = 1
  MaxLifetime = 2
  ClockSkew = 1
  Day = 4
  Malformed = Malformed
  NoRequest = NoRequest
  NoStay = NoStay
  \* documents and sites
  MaxLines = 4
  Dir = {"", "spec"}
  Documents = {"spec"}
  FileName = {"a", "b"}
  Slug = Slug
  NoPath = NoPath
  MaxFiles = 3
  MaxRules = 2
SPECIFICATION LibrarySpec
SYMMETRY Symmetry
INVARIANT UnknownKidVerifiesNothing
CHECK_DEADLOCK FALSE
