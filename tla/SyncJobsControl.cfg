\* Who may run, and that it ends: two requests, two jobs, two chats, a fault, a crash.
CONSTANTS
  Job = {j1, j2}
  c1 = c1
  d1 = d1
  d2 = d2
  Chat = {c1, c2}
  Request = {r1, r2}
  Domain = {d1, d2}
  Modes = {"SINCE_LAST"}
  MaxMsg = 0
  DomainsOf <- MCDomainsOf
  Dialogs <- MCDialogs
  MaxFaults = 1
  MaxCrashes = 1
  LostReplies = FALSE
  NoJob = NoJob
  NoChat = NoChat
SPECIFICATION FairSpec
INVARIANTS
  OneJobAtATime
  NoAbandonedJob
  VerdictMatchesChats
  ProgressIsHonest
PROPERTIES
  ProgressMonotone
  RefinesLifecycle
  JobEnds
  CreatingIsReleased
