------------------------------ MODULE Delivery ------------------------------
(***************************************************************************)
(* What the git_ops module promises, without an index, a prompt or steps   *)
(* that fail: edits wait until they are recorded, an edit is recorded once *)
(* and in one step, a run records one commit at most, settles on a branch  *)
(* only after that, and says "sent" only in the step in which this branch  *)
(* of the remote becomes what the clone has under its name, the commit of  *)
(* the run included if it was recorded there.                              *)
(***************************************************************************)
CONSTANTS
  Edit,     \* edits, each made once
  Branch,   \* branch names, in the clone and in the remote
  Proc,     \* runs of phgit
  None      \* no branch

VARIABLES
  used,     \* edits made so far
  pending,  \* edits that no commit has recorded
  history,  \* history[b]: the commits on the branch b of the clone
  remote,   \* remote[b]: the commits on the branch b of the remote
  mine,     \* mine[p]: the commit that run p recorded, {} before
  on,       \* on[p]: the branch that owes run p its commit, or None
  goal,     \* goal[p]: the branch that run p goes on to send, or None
  claim     \* claim[p]: what run p told its user last

runVars == <<mine, on, goal, claim>>
vars    == <<used, pending, history, remote, runVars>>

Claim   == {"nothing", "sent", "clean", "changes"}
Commits == (SUBSET used) \ {{}}

TypeOK ==
  /\ used \subseteq Edit
  /\ pending \subseteq used
  /\ history \in [Branch -> SUBSET Commits]
  /\ remote \in [Branch -> SUBSET Commits]
  /\ mine \in [Proc -> SUBSET used]
  /\ on \in [Proc -> Branch \cup {None}]
  /\ goal \in [Proc -> Branch \cup {None}]
  /\ claim \in [Proc -> Claim]

Init ==
  /\ used = {}
  /\ pending = {}
  /\ history = [b \in Branch |-> {}]
  /\ remote = [b \in Branch |-> {}]
  /\ mine = [p \in Proc |-> {}]
  /\ on = [p \in Proc |-> None]
  /\ goal = [p \in Proc |-> None]
  /\ claim = [p \in Proc |-> "nothing"]
-----------------------------------------------------------------------------
(***************************************************************************)
(* The users and their team                                                *)
(***************************************************************************)
Change ==
  /\ \E e \in Edit \ used : used' = used \cup {e} /\ pending' = pending \cup {e}
  /\ UNCHANGED <<history, remote, runVars>>

\* Some of the waiting edits become one commit on b, and no longer wait.
Record(c, b) ==
  /\ c \in (SUBSET pending) \ {{}}
  /\ pending' = pending \ c
  /\ history' = [history EXCEPT ![b] = @ \cup {c}]
  /\ UNCHANGED <<used, remote>>

RecordByUser == UNCHANGED runVars /\ \E c \in SUBSET pending, b \in Branch : Record(c, b)

\* The histories that there are.
Known == UNION {{history[b], remote[b]} : b \in Branch}

\* A branch of the clone is created from another, or pulls.
Join ==
  /\ \E b \in Branch, h \in Known : history' = [history EXCEPT ![b] = @ \cup h]
  /\ UNCHANGED <<used, pending, remote, runVars>>

\* A branch is moved to another history, and owes nobody a commit any more.
Rewrite ==
  /\ \E b \in Branch, h \in Known :
       /\ history' = [history EXCEPT ![b] = h]
       /\ on' = [p \in Proc |-> IF on[p] = b THEN None ELSE on[p]]
  /\ UNCHANGED <<used, pending, remote, mine, goal, claim>>

Teammate ==
  /\ \E b \in Branch, e \in Edit \ used :
       /\ used' = used \cup {e}
       /\ remote' = [remote EXCEPT ![b] = @ \cup {{e}}]
  /\ UNCHANGED <<pending, history, runVars>>

\* Branch b of the remote becomes what c is in the clone, and loses nothing.
Advance(b, c) ==
  /\ history[c] # {}
  /\ remote[b] \subseteq history[c]
  /\ remote' = [remote EXCEPT ![b] = history[c]]
  /\ UNCHANGED <<used, pending, history>>

Publish == UNCHANGED runVars /\ \E b, c \in Branch : Advance(b, c)
-----------------------------------------------------------------------------
(***************************************************************************)
(* The runs                                                                *)
(***************************************************************************)

\* Run p begins, or ends at once, and says what.
Begin(p, what) ==
  /\ mine' = [mine EXCEPT ![p] = {}]
  /\ on' = [on EXCEPT ![p] = None]
  /\ goal' = [goal EXCEPT ![p] = None]
  /\ claim' = [claim EXCEPT ![p] = what]
  /\ UNCHANGED <<used, pending, history, remote>>

\* The state of the clone is reported as it is.
Look(p) == Begin(p, IF pending = {} THEN "clean" ELSE "changes")

\* Run p records its only commit.
RecordByRun(p) ==
  /\ mine[p] = {}
  /\ \E c \in SUBSET pending, b \in Branch :
       /\ Record(c, b)
       /\ mine' = [mine EXCEPT ![p] = c]
       /\ on' = [on EXCEPT ![p] = b]
  /\ UNCHANGED <<goal, claim>>

\* Run p, which has its commit, will send branch b.
Settle(p) ==
  /\ mine[p] # {}
  /\ goal[p] = None
  /\ \E b \in Branch : goal' = [goal EXCEPT ![p] = b]
  /\ UNCHANGED <<used, pending, history, remote, mine, on, claim>>

\* The push of run p: if its commit was recorded on the branch that it sends,
\* and nobody moved this branch back, the commit is on the remote now.
Push(p) ==
  /\ goal[p] \in Branch
  /\ Advance(goal[p], goal[p])
  /\ on[p] = goal[p] => mine[p] \in remote'[goal[p]]
  /\ goal' = [goal EXCEPT ![p] = None]
  /\ UNCHANGED <<mine, on>>

Send(p) == Push(p) /\ claim' = [claim EXCEPT ![p] = "sent"]

\* The branch was sent, but run p does not learn of it.
SendUnnoticed(p) == Push(p) /\ UNCHANGED claim

\* Run p ends without having sent anything, and claims nothing.
GiveUp(p) ==
  /\ goal' = [goal EXCEPT ![p] = None]
  /\ UNCHANGED <<used, pending, history, remote, mine, on, claim>>

RunStep(p) ==
  \/ Begin(p, "nothing") \/ Look(p)
  \/ RecordByRun(p) \/ Settle(p)
  \/ Send(p) \/ SendUnnoticed(p) \/ GiveUp(p)

UserStep ==
  Change \/ RecordByUser \/ Join \/ Rewrite \/ Teammate \/ Publish

Next == UserStep \/ \E p \in Proc : RunStep(p)

Spec == Init /\ [][Next]_vars
=============================================================================
