CONSTANTS
  Commit = {c1, c2, c3}
  Repo = {r1, r2}
  Remote = {o1}
  RemoteOf <- SharedRemote
  Proc = {p1}
  Args <- DistinctArgs
  UserOps = {"commit", "reset", "fetch", "push"}
  NoCommit = NoCommit
SPECIFICATION Spec
SYMMETRY Symmetric
INVARIANTS
  DivergenceReported
