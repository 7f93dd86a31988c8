CONSTANTS
  PayloadLens <- MCLens
  MaxPayload = 256
  MaxSteps = 3
  NameOctets <- MCOctets
  QDCounts <- MCQDCounts
  ANCounts <- MCANCounts
  QTypes <- MCQTypes
  RTypes <- MCRTypes
  RDLengths <- MCRDLengths
  TTLs <- MCTTLs
SPECIFICATION FairSpec
INVARIANTS TypeOK InMessage NameAgrees MinimumTTL
PROPERTY Terminates
CHECK_DEADLOCK FALSE
