SPECIFICATION FairSpec
CONSTANTS
  Researcher = researcher
  Risk = risk
  Executor = executor
  Roles = {researcher, risk, executor}
  NKeys = 2
  OnChain <- MCOnChain
  Shown = {researcher}
  Readers = {poll}
  Polls = {poll}
  Writers = {c1, c2}
  Senders = {c1, c2}
  MaxAttempts = 2
  EventsMax = 2
INVARIANTS
  CacheIsCurrent
  OneRegistry
  EventsFollowSends
PROPERTIES
  AnnouncementsReturn
  ProfilesReturn
