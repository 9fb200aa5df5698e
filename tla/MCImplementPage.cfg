\* Two hosts, up to three calls at once, three keys in a session.
CONSTANTS
  Call = {c1, c2, c3}
  Host = {h1, h2}
  None = None
  MaxKeys = 3
SPECIFICATION FairSpec
INVARIANT PanelIsOneKey
PROPERTIES
  SameKeyMeansSame
  EveryCallEnds
