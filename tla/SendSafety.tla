----------------------------- MODULE SendSafety -----------------------------
(***************************************************************************)
(* What SND must and must not do: the properties of GitSend.               *)
(***************************************************************************)
EXTENDS GitSend

\* The run made a commit and no user moved the branch of it back since.
Committed(p) == madeOn[p] \in Branch

(***************************************************************************)
(* Properties the code has.                                                *)
(***************************************************************************)

\* However a run ends after its commit (no upstream, a declined prompt, a push
\* that is rejected, a crash), the commit stays on the branch it was made on,
\* also while other runs commit to the same branch: steps 4 to 6 of
\* handle_send undo nothing.
CommitKept ==
  \A p \in Proc : Committed(p) => made[p] \in local[madeOn[p]]

\* A run that made a commit and returns Success to the core has its commit on
\* the remote, unless the user declined the push: whoever switched branches,
\* pushed or committed while the prompt was waiting, and whatever went wrong
\* (handle_send steps 3 to 6, and the statuses that module_exec gives to its
\* errors).  The branch pushed has to be the one the commit was made on.
SentCommitArrives ==
  \A p \in Proc :
    /\ Committed(p)
    /\ ExitStatus(result[p]) = "Success"
    /\ result[p] # "aborted"
    => /\ target[p] \in Branch
       /\ target[p] = madeOn[p] => made[p] \in remote[target[p]]

\* A run that made a commit leaves none of the edits that it found below its
\* directory uncommitted, but for those that a user unstaged between its git add
\* and its git commit: they are in its commit, or in one that another run or the
\* user made meanwhile.
NothingLeftBehind ==
  \A p \in Proc :
    made[p] # {} => found[p] \cap (worktree \cup index) = {}

\* Every commit that is, or was made by a run.
AllCommits ==
  {c \in Commit :
     \/ \E b \in Branch : c \in local[b] \cup remote[b]
     \/ \E p \in Proc : c = made[p]}

\* Runs and users that stage and commit in turn share one index, but never
\* record an edit twice: an edit is in at most one commit, and a commit that
\* happens takes its edits out of the index (git_add and git_commit of
\* handle_send).
EditRecordedOnce ==
  \A c, d \in AllCommits : c # d => c \cap d = {}

\* A push never removes a commit from the remote, even one that a teammate
\* pushed after the run looked its upstream up: the push is not forced.
RemoteNeverLoses ==
  [][\A b \in Branch : remote[b] \subseteq remote'[b]]_vars

\* What the users of the clone see of it: the edits that wait for a commit, the
\* branch that a run goes on to push once its prompt is answered, and what a run
\* told them.
Pending == worktree \cup index
Goal    == [p \in Proc |-> IF pc[p] = "push" THEN target[p] ELSE NoUpstream]
Claimed ==
  [p \in Proc |-> IF result[p] \in {"sent", "clean", "changes"}
                  THEN result[p] ELSE "nothing"]

Promise == INSTANCE Delivery
             WITH None <- NoUpstream, pending <- Pending, history <- local,
                  mine <- made, on <- madeOn, goal <- Goal, claim <- Claimed

\* The module keeps its promise: it records waiting edits in whole commits and
\* each edit once, makes one commit per run, pushes only after that and only
\* the branch it asked about, says "sent" in no other step than the one that
\* makes this branch of the remote equal to the clone's, with the commit of
\* the run if it was made there, and reports the clone as it is (handle_send
\* and handle_status).
RefinesDelivery == Promise!Spec

\* A started run returns or waits at its prompt; no other step waits for
\* another run or for the user.
ReturnsOrAsks ==
  \A p \in Proc : pc[p] # "idle" ~> pc[p] \in {"idle", "prompt"}

(***************************************************************************)
(* The inductive invariant behind the safety properties.                   *)
(***************************************************************************)

\* Uncommitted edits are in one place and in no commit.
EditsApart ==
  /\ worktree \cap index = {}
  /\ \A c \in AllCommits : c \subseteq used /\ c \cap (worktree \cup index) = {}
  /\ worktree \cup index \subseteq used

\* What a run knows at each of its steps.
RunOK(p) ==
  /\ pc[p] # "idle" => result[p] = "none"
  /\ pc[p] \in {"add", "commit"} => made[p] = {}
  /\ pc[p] = "commit" => found[p] \cap worktree = {}
  /\ madeOn[p] \in Branch => made[p] # {}
  /\ pc[p] \in {"upstream", "prompt", "push"} => made[p] # {}
  /\ pc[p] \in {"prompt", "push"} => target[p] \in Branch
  /\ found[p] \subseteq used \cap Under[p]
  /\ result[p] \in {"clean", "changes", "no_changes"} => made[p] = {}

\* Everything the safety proofs need of a reachable state.
IndInv ==
  /\ TypeOK
  /\ EditsApart
  /\ EditRecordedOnce
  /\ \A p \in Proc : RunOK(p)
  /\ CommitKept
  /\ SentCommitArrives
  /\ NothingLeftBehind

(***************************************************************************)
(* What the documentation and the tests say, and the code does not do.     *)
(***************************************************************************)

\* docs/user-guide/getting-started.md on SND: "It pushes the commit to the
\* configured upstream branch."  Here with the branch of the commit still
\* current and the pushed branch still its upstream.
SentMeansPushed ==
  \A p \in Proc :
    /\ Committed(p)
    /\ result[p] = "sent"
    /\ head = madeOn[p]
    /\ upstream[head] = target[p]
    => made[p] \in remote[target[p]]
=============================================================================
