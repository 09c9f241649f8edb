------------------------------ MODULE GitSend ------------------------------
(***************************************************************************)
(* The commands of the git_ops module (src/modules/git_ops/src/commands.rs,*)
(* git_wrapper.rs and lib.rs): `SND <message>` stages everything under the *)
(* current directory, commits, looks the upstream up, asks and pushes;     *)
(* `status` asks git what is uncommitted.  Each step is one call of the    *)
(* external program git.                                                   *)
(*                                                                         *)
(* A process is one run of phgit.  Several runs work in the same clone,    *)
(* from the same or different directories, while its user edits, stages,   *)
(* commits, switches branches, resets, pulls and publishes with git        *)
(* itself, and while teammates push to the remote.  The prompt may stay    *)
(* unanswered for any time in between.                                     *)
(*                                                                         *)
(* An edit is one change of one file, made once.  A commit is the non-empty*)
(* set of the edits it records, and a branch is the set of the commits in  *)
(* its history: {} is a branch that does not exist.  A branch can be       *)
(* fast-forwarded to another exactly when its history is a subset.         *)
(***************************************************************************)
EXTENDS FiniteSets

CONSTANTS
  Edit,     \* edits: bounds how many are ever made, by anybody
  Branch,   \* branch names, the same in the clone and in the remote
  Proc,     \* concurrent executions of SND
  Under,    \* Under[p]: the edits below the working directory of p
  UserOps   \* what users do with git, of AllUserOps: bounds the environment

ASSUME UnderAssumption == Under \in [Proc -> SUBSET Edit]

AllUserOps == {"stage", "unstage", "commit", "switch", "reset", "pull",
               "publish", "track", "teammate"}
ASSUME UserOpsAssumption == UserOps \subseteq AllUserOps

NoUpstream    == "no upstream"     \* rev-parse @{u} fails
LocalUpstream == "local upstream"  \* @{u} is a local branch: no "/" in its name
ASSUME UpstreamAssumption == {NoUpstream, LocalUpstream} \cap Branch = {}

VARIABLES
  used,      \* edits made so far
  worktree,  \* edits that are only in the working tree
  index,     \* edits that are staged and not committed
  head,      \* the current branch
  local,     \* local[b]: history of the local branch b
  upstream,  \* upstream[b]: the remote branch that b tracks
  remote,    \* remote[b]: history of the branch b of the remote
  pc,        \* pc[p]: the next step of run p
  target,    \* target[p]: the branch that run p asks about and pushes
  result,    \* result[p]: how run p ended
  found,     \* history: the edits under the directory of p when it started, but
             \*   for those that a user unstaged between its git add and commit
  made,      \* history: the commit that p made, {} before
  madeOn     \* history: the branch that was current then; none before, and
             \*   after a user moved that branch back

gitVars  == <<used, worktree, index, head, local, upstream, remote>>
histVars == <<found, made, madeOn>>
runVars  == <<pc, target, result, histVars>>
vars     == <<gitVars, runVars>>

Commit   == (SUBSET Edit) \ {{}}
Upstream == Branch \cup {NoUpstream, LocalUpstream}

Step    == {"add", "commit", "upstream", "prompt", "push"}
Outcome == {"none", "missing_message", "add_error", "no_changes", "commit_error",
            "no_upstream", "bad_upstream", "aborted", "push_error", "sent", "crashed",
            "clean", "changes", "status_error"}

TypeOK ==
  /\ used \subseteq Edit
  /\ worktree \subseteq Edit
  /\ index \subseteq Edit
  /\ head \in Branch
  /\ local \in [Branch -> SUBSET Commit]
  /\ upstream \in [Branch -> Upstream]
  /\ remote \in [Branch -> SUBSET Commit]
  /\ pc \in [Proc -> Step \cup {"idle"}]
  /\ target \in [Proc -> Upstream]
  /\ result \in [Proc -> Outcome]
  /\ found \in [Proc -> SUBSET Edit]
  /\ made \in [Proc -> SUBSET Edit]
  /\ madeOn \in [Proc -> Branch \cup {NoUpstream}]

\* A new clone of an empty remote.
Init ==
  /\ used = {}
  /\ worktree = {}
  /\ index = {}
  /\ head \in Branch
  /\ local = [b \in Branch |-> {}]
  /\ upstream = [b \in Branch |-> NoUpstream]
  /\ remote = [b \in Branch |-> {}]
  /\ pc = [p \in Proc |-> "idle"]
  /\ target = [p \in Proc |-> NoUpstream]
  /\ result = [p \in Proc |-> "none"]
  /\ found = [p \in Proc |-> {}]
  /\ made = [p \in Proc |-> {}]
  /\ madeOn = [p \in Proc |-> NoUpstream]
-----------------------------------------------------------------------------
(***************************************************************************)
(* The external program git, as handle_send uses it.                       *)
(***************************************************************************)

\* git commit on branch b.
CommitOn(b, c) == local' = [local EXCEPT ![b] = @ \cup {c}]

\* Mutant of FastForward: the push is forced.
Forced(b) == local[b] # {}

\* git push accepts a fast-forward of an existing local branch only.
FastForward(b) == local[b] # {} /\ remote[b] \subseteq local[b]

\* The stream on which git commit explains a refusal.
GitCommitPrints ==
  [nothing_to_commit |-> "stdout", failure |-> "stderr"]

\* execute_git_command returns only what a failing git printed on stderr.
FailureText(why) == IF GitCommitPrints[why] = "stderr" THEN why ELSE "empty"
-----------------------------------------------------------------------------
(***************************************************************************)
(* handle_send, called by module_exec.                                     *)
(***************************************************************************)
Goto(p, from, to) == pc[p] = from /\ pc' = [pc EXCEPT ![p] = to]

Return(p, res) ==
  /\ pc' = [pc EXCEPT ![p] = "idle"]
  /\ result' = [result EXCEPT ![p] = res]

\* Outcomes that are no error: a command that had nothing to do is one of them,
\* and so is a push that the user declined.
Succeeded == {"sent", "clean", "changes", "no_changes", "aborted"}

\* Mutant of ExitStatus: a branch without upstream counts as nothing to do.
LenientStatus(res) ==
  IF res \in Succeeded \cup {"no_upstream"} THEN "Success" ELSE "ErrorExecFailed"

\* The phgitStatus that module_exec makes of the result of a command; a run
\* that has not ended, or was ended, returns none.
ExitStatus(res) ==
  IF res \in Succeeded THEN "Success"
  ELSE IF res = "missing_message" THEN "ErrorInvalidArgs"
  ELSE IF res \in {"none", "crashed"} THEN "none"
  ELSE "ErrorExecFailed"

Start(p) ==
  /\ pc[p] = "idle"
  /\ target' = [target EXCEPT ![p] = NoUpstream]
  /\ found' = [found EXCEPT ![p] = (worktree \cup index) \cap Under[p]]
  /\ made' = [made EXCEPT ![p] = {}]
  /\ madeOn' = [madeOn EXCEPT ![p] = NoUpstream]
  /\ \/ /\ pc' = [pc EXCEPT ![p] = "add"]
        /\ result' = [result EXCEPT ![p] = "none"]
     \/ Return(p, "missing_message")
  /\ UNCHANGED gitVars

\* Mutant of GitAdd: new files are not staged, as with git commit -a.
GitAddSkipped(p) ==
  /\ Goto(p, "add", "commit")
  /\ UNCHANGED <<gitVars, target, result, histVars>>

\* git add . stages what is below the working directory, and only that.
GitAdd(p) ==
  /\ Goto(p, "add", "commit")
  /\ index' = index \cup (worktree \cap Under[p])
  /\ worktree' = worktree \ Under[p]
  /\ UNCHANGED <<used, head, local, upstream, remote, target, result, histVars>>

\* git is not installed, or the index is locked by another git.
AddFails(p) ==
  /\ pc[p] = "add"
  /\ Return(p, "add_error")
  /\ UNCHANGED <<gitVars, target, histVars>>

\* Mutant of GitCommit: the commit is allowed to be empty.
GitCommitAllowEmpty(p) ==
  /\ Goto(p, "commit", "upstream")
  /\ CommitOn(head, index)
  /\ index' = {}
  /\ made' = [made EXCEPT ![p] = index]
  /\ madeOn' = [madeOn EXCEPT ![p] = head]
  /\ UNCHANGED <<used, worktree, head, upstream, remote, target, result, found>>

\* Mutant of GitCommit: the index is not the one of the clone but a copy.
GitCommitKeepsIndex(p) ==
  /\ Goto(p, "commit", "upstream")
  /\ index # {}
  /\ CommitOn(head, index)
  /\ made' = [made EXCEPT ![p] = index]
  /\ madeOn' = [madeOn EXCEPT ![p] = head]
  /\ UNCHANGED <<used, worktree, index, head, upstream, remote, target, result, found>>

\* git commit records the whole index, whoever staged it and wherever.
GitCommit(p) ==
  /\ Goto(p, "commit", "upstream")
  /\ index # {}
  /\ CommitOn(head, index)
  /\ index' = {}
  /\ made' = [made EXCEPT ![p] = index]
  /\ madeOn' = [madeOn EXCEPT ![p] = head]
  /\ UNCHANGED <<used, worktree, head, upstream, remote, target, result, found>>

\* The match on the error text of git_commit.
CommitOutcome(why) ==
  IF FailureText(why) = "nothing_to_commit" THEN "no_changes" ELSE "commit_error"

CommitNothing(p) ==
  /\ pc[p] = "commit"
  /\ index = {}
  /\ Return(p, CommitOutcome("nothing_to_commit"))
  /\ UNCHANGED <<gitVars, target, histVars>>

\* A hook refuses, the identity of the user is unknown, the index is locked.
CommitFails(p) ==
  /\ pc[p] = "commit"
  /\ index # {}
  /\ Return(p, CommitOutcome("failure"))
  /\ UNCHANGED <<gitVars, target, histVars>>

\* The upstream is that of the branch which is current now.
FindUpstream(p) ==
  /\ Goto(p, "upstream", "prompt")
  /\ upstream[head] \in Branch
  /\ target' = [target EXCEPT ![p] = upstream[head]]
  /\ UNCHANGED <<gitVars, result, histVars>>

\* Mutant of FindUpstreamFails: the run polls until there is an upstream.
WaitForUpstream(p) ==
  /\ pc[p] = "upstream"
  /\ upstream[head] \notin Branch
  /\ UNCHANGED vars

FindUpstreamFails(p) ==
  /\ pc[p] = "upstream"
  /\ \/ upstream[head] = NoUpstream /\ Return(p, "no_upstream")
     \/ upstream[head] = LocalUpstream /\ Return(p, "bad_upstream")
  /\ UNCHANGED <<gitVars, target, histVars>>

\* The user answers the prompt: "y", or anything else, end of input included.
Confirm(p) ==
  /\ Goto(p, "prompt", "push")
  /\ UNCHANGED <<gitVars, target, result, histVars>>

Decline(p) ==
  /\ pc[p] = "prompt"
  /\ Return(p, "aborted")
  /\ UNCHANGED <<gitVars, target, histVars>>

\* git push <remote> <branch>: the argument names the local branch as well as
\* the remote one, whatever branch is current.
GitPush(p) ==
  /\ pc[p] = "push"
  /\ FastForward(target[p])
  /\ remote' = [remote EXCEPT ![target[p]] = local[target[p]]]
  /\ \/ Return(p, "sent")
     \/ Return(p, "push_error")   \* the connection is lost after the update
  /\ UNCHANGED <<used, worktree, index, head, local, upstream, target, histVars>>

\* Mutant of PushFails: the exit status of git push is not looked at.
PushStatusIgnored(p) ==
  /\ pc[p] = "push"
  /\ Return(p, "sent")
  /\ UNCHANGED <<gitVars, target, histVars>>

\* Mutant of PushFails: the run takes its commit back.
PushFailsUndo(p) ==
  /\ pc[p] = "push"
  /\ Return(p, "push_error")
  /\ local' = [local EXCEPT ![madeOn[p]] = @ \ {made[p]}]
  /\ UNCHANGED <<used, worktree, index, head, upstream, remote, target, histVars>>

\* Not a fast-forward, no such local branch, no connection.
PushFails(p) ==
  /\ pc[p] = "push"
  /\ Return(p, "push_error")
  /\ UNCHANGED <<gitVars, target, histVars>>

\* Ctrl-C at the prompt, a panic on unreadable input, a kill.
Crash(p) ==
  /\ pc[p] # "idle"
  /\ Return(p, "crashed")
  /\ UNCHANGED <<gitVars, target, histVars>>

\* handle_status: git status lists what is not committed in the whole clone,
\* wherever the run was started, or fails; nothing is changed.
HandleStatus(p) ==
  /\ pc[p] = "idle"
  /\ \/ worktree \cup index = {} /\ Return(p, "clean")
     \/ worktree \cup index # {} /\ Return(p, "changes")
     \/ Return(p, "status_error")
  /\ target' = [target EXCEPT ![p] = NoUpstream]
  /\ found' = [found EXCEPT ![p] = {}]
  /\ made' = [made EXCEPT ![p] = {}]
  /\ madeOn' = [madeOn EXCEPT ![p] = NoUpstream]
  /\ UNCHANGED gitVars

RunStep(p) ==
  \/ GitAdd(p) \/ AddFails(p)
  \/ GitCommit(p) \/ CommitNothing(p) \/ CommitFails(p)
  \/ FindUpstream(p) \/ FindUpstreamFails(p)
  \/ GitPush(p) \/ PushFails(p)
-----------------------------------------------------------------------------
(***************************************************************************)
(* The users, through git itself.                                          *)
(***************************************************************************)
UserEdit ==
  /\ \E e \in Edit \ used :
       /\ used' = used \cup {e}
       /\ worktree' = worktree \cup {e}
  /\ UNCHANGED <<index, head, local, upstream, remote, runVars>>

UserStage ==
  /\ "stage" \in UserOps
  /\ \E e \in worktree :
       /\ worktree' = worktree \ {e}
       /\ index' = index \cup {e}
  /\ UNCHANGED <<used, head, local, upstream, remote, runVars>>

UserUnstage ==
  /\ "unstage" \in UserOps
  /\ index # {}
  /\ worktree' = worktree \cup index
  /\ index' = {}
  /\ found' = [p \in Proc |-> IF pc[p] = "commit" THEN found[p] \ index ELSE found[p]]
  /\ UNCHANGED <<used, head, local, upstream, remote, pc, target, result, made, madeOn>>

UserCommit ==
  /\ "commit" \in UserOps
  /\ index # {}
  /\ CommitOn(head, index)
  /\ index' = {}
  /\ UNCHANGED <<used, worktree, head, upstream, remote, runVars>>

\* git switch, or git switch -c at the current commit.
UserSwitch ==
  /\ "switch" \in UserOps
  /\ \E b \in Branch \ {head} :
       /\ head' = b
       /\ local' = [local EXCEPT ![b] = IF @ = {} THEN local[head] ELSE @]
  /\ UNCHANGED <<used, worktree, index, upstream, remote, runVars>>

\* git reset or git rebase: the current branch leaves its own commits behind.
UserReset ==
  /\ "reset" \in UserOps
  /\ \E b \in Branch :
       \E h \in {local[b], remote[b]} \ {{}} :
         local' = [local EXCEPT ![head] = h]
  /\ madeOn' = [p \in Proc |-> IF madeOn[p] = head THEN NoUpstream ELSE madeOn[p]]
  /\ UNCHANGED <<used, worktree, index, head, upstream, remote, pc, target, result,
                 found, made>>

\* git pull: the histories are joined; a merge commit records no edit.
UserPull ==
  /\ "pull" \in UserOps
  /\ upstream[head] \in Branch
  /\ local' = [local EXCEPT ![head] = @ \cup remote[upstream[head]]]
  /\ UNCHANGED <<used, worktree, index, head, upstream, remote, runVars>>

\* git push -u origin HEAD:b
UserPublish ==
  /\ "publish" \in UserOps
  /\ local[head] # {}
  /\ \E b \in Branch :
       /\ remote[b] \subseteq local[head]
       /\ remote' = [remote EXCEPT ![b] = local[head]]
       /\ upstream' = [upstream EXCEPT ![head] = b]
  /\ UNCHANGED <<used, worktree, index, head, local, runVars>>

\* git branch -u, to a branch of the remote or to a local one
UserTrack ==
  /\ "track" \in UserOps
  /\ \E u \in {b \in Branch : remote[b] # {}} \cup {LocalUpstream} :
       upstream' = [upstream EXCEPT ![head] = u]
  /\ UNCHANGED <<used, worktree, index, head, local, remote, runVars>>

TeammatePush ==
  /\ "teammate" \in UserOps
  /\ \E b \in Branch, e \in Edit \ used :
       /\ used' = used \cup {e}
       /\ remote' = [remote EXCEPT ![b] = @ \cup {{e}}]
  /\ UNCHANGED <<worktree, index, head, local, upstream, runVars>>

UserStep ==
  \/ UserEdit \/ UserStage \/ UserUnstage \/ UserCommit \/ UserSwitch
  \/ UserReset \/ UserPull \/ UserPublish \/ UserTrack \/ TeammatePush
-----------------------------------------------------------------------------
Next ==
  \/ \E p \in Proc : Start(p) \/ HandleStatus(p)
  \/ \E p \in Proc : RunStep(p) \/ Confirm(p) \/ Decline(p) \/ Crash(p)
  \/ UserStep

Spec == Init /\ [][Next]_vars

\* git returns from every call.  Nothing obliges the user to answer.
FairSpec == Spec /\ \A p \in Proc : WF_vars(RunStep(p))
=============================================================================
