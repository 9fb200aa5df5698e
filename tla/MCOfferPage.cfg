\* One live and one pasted call at a time, over every offer of the instance.
CONSTANTS
  k1 = k1
  k2 = k2
  Key = {k1, k2}
  NoKey = NoKey
  NoName = NoName
  NoUrl = NoUrl
  NoCopy = NoCopy
  Null = Null
  NoJws = NoJws
  None = None
  Malformed = Malformed
  NoRequest = NoRequest
  NoStay = NoStay
  Millisecond = 2
  MaxLifetime = 4
  ClockSkew = 2
  Day = 16
  ALabel <- MCALabel
  Rules <- MCRules
  BrandTlds <- MCBrandTlds
  Domain <- MCDomain
  Payload <- MCPayload
  Envelope <- MCEnvelope
  Pasted <- MCPasted
  Document <- MCDocument
  Served <- MCServed
  Asked <- MCAsked
  Clock <- MCClock
SPECIFICATION FairSpec
INVARIANTS
  TypeOK
  PastedIsNeverQuoted
  LawBeforePaste
PROPERTIES
  QuoteIsSafe
  SafeIsQuoted
  UnknownIsNotNegated
  QuoteExpiresSoon
  EveryCallEnds
