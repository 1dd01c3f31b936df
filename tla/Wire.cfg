SPECIFICATION LiveSpec
CONSTANTS
  Payloads <- MCPayloads
  Raised <- MCRaised
  Buf = 4
  Ahead = 2
  MaxSends = 2
INVARIANTS WireTypeOK PlainErrorsSurvive
PROPERTIES ChannelSpec ReadsCatchUp
