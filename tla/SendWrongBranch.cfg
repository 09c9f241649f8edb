CONSTANTS
  Edit = {e1, e2}
  Outside = {}
  Branch = {b1, b2}
  Proc = {p1}
  Under <- AllInRoot
  UserOps = {"switch", "publish", "track"}
SPECIFICATION Spec
INVARIANTS
  SentMeansPushed
