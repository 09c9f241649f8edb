CONSTANTS
  Commit = {c1, c2}
  Repo = {r1, r2}
  Remote = {o1}
  RemoteOf <- SharedRemote
  Proc = {p1, p2}
  Args <- OneWay
  UserOps = {"commit", "reset", "push", "remove"}
  NoCommit = NoCommit
SPECIFICATION FairSpec
INVARIANTS
  TornOnlyByUnfinishedSave
PROPERTIES
  SuccessMeansSaved
  RunReturns
