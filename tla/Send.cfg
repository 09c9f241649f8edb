CONSTANTS
  Edit = {e1, e2}
  Outside = {e1}
  Branch = {b1, b2}
  Proc = {p1}
  Under <- InSubdirectory
  UserOps = {"stage", "unstage", "commit", "switch", "reset", "pull", "publish", "track", "teammate"}
SPECIFICATION FairSpec
INVARIANTS
  TypeOK
  CommitKept
  SentCommitArrives
  NothingLeftBehind
  EditRecordedOnce
PROPERTIES
  RemoteNeverLoses
  RefinesDelivery
  ReturnsOrAsks
