CONSTANTS
  Commit = {c1, c2, c3}
  Repo = {r1, r2}
  Remote = {o1}
  RemoteOf <- SharedRemote
  Proc = {p1}
  Args <- OneWay
  UserOps = {"commit", "merge", "gc", "reset", "push", "fetch"}
  NoCommit = NoCommit
SPECIFICATION Spec
SYMMETRY CommitSymmetry
INVARIANTS
  TypeOK
  FirstRunVerdictExact
  VerdictExactOnTrueBase
PROPERTIES
  SaveOnlyOneSidedAdvance
