SPECIFICATION Spec
CONSTANTS
  Payloads <- MCPayloads
  Raised <- MCRaised
  Buf = 4
  Ahead = 1
  MaxSends = 1
INVARIANT ErrorsSurvive
