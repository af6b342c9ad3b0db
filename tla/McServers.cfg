SPECIFICATION FairSpec
CONSTANTS
  Servers = {s1, s2}
  None = None
  Menus <- McMenus
  StoredKeys <- StoredAB
  SourceText <- Text
  DocOrder <- TwoDocs
  d1 = d1
  d2 = d2
  t1 = t1
  t2 = t2
  DocTexts = {t1, t2}
  ArchiveLimit = 0
  MaxClock = 1
CHECK_DEADLOCK FALSE
INVARIANTS TypeOK ExtractedWereWritten InboxOnce NothingLost ConsolidationsKeepMemory CachedAreStored
PROPERTY ObservationsReachInbox
