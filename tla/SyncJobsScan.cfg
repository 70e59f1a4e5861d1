\* What a scan covers: every range mode, one chat, three messages, one fault or lost answer, one crash.
CONSTANTS
  Job = {j1, j2}
  c1 = c1
  d1 = d1
  d2 = d2
  Chat = {c1}
  Request = {r1}
  Domain = {d1, d2}
  Modes = {"ALL_HISTORY", "CUSTOM", "LAST_7_DAYS", "SINCE_LAST"}
  MaxMsg = 3
  DomainsOf <- MCDomainsOf
  Dialogs <- MCDialogs
  MaxFaults = 1
  MaxCrashes = 1
  LostReplies = TRUE
  NoJob = NoJob
  NoChat = NoChat
SPECIFICATION Spec
SYMMETRY Rows
INVARIANTS
  TypeOK
  SucceededChatIsScanned
  WatermarkIsGreatestProcessed
  CountersAreTrue
  NoGapBelowWatermark
PROPERTY
  WatermarkMonotone
