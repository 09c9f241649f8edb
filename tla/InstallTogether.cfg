CONSTANTS
  p1 = p1
  p2 = p2
  Proc <- Procs
  NoFile = NoFile
  MaxInt = 3
  Min <- MinVersions
  Lists <- ConfigLists
  Sites <- Machines
  Replies <- Answers
  Packaged <- Packages
  Latest <- Newest
SPECIFICATION Spec
INVARIANTS TypeOK GitAfterSuccess ExtractedWasVerified TempAccounted
PROPERTIES AcceptsOnlyRecent EndsOrWaits
CHECK_DEADLOCK FALSE
