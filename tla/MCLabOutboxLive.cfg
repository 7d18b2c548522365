CONSTANTS
  e1 = e1
  e2 = e2
  s1 = s1
  s2 = s2
  Event <- MCEvent
  Legacy <- OneLegacy
  Sender <- OneSender
  OldReplica = TRUE
SPECIFICATION FairSpec
PROPERTIES EventuallyBilled
