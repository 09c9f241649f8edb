----------------------------- MODULE SendProofs -----------------------------
(***************************************************************************)
(* Proofs about SND for any number of edits, branches and concurrent runs. *)
(***************************************************************************)
EXTENDS SendSafety, Naturals, TLAPS

\* A step of Next is a step of one run, or of the users.
ProcStep(p) ==
  \/ Start(p) \/ HandleStatus(p) \/ RunStep(p) \/ Confirm(p) \/ Decline(p) \/ Crash(p)

(***************************************************************************)
(* Type correctness                                                        *)
(***************************************************************************)
\* The initial states are well typed.
LEMMA TypeInit == Init => TypeOK
BY DEF Init, TypeOK, Upstream, Outcome

\* What a failing git commit is reported as is an outcome.
LEMMA OutcomeType ==
  \A why \in {"nothing_to_commit", "failure"} : CommitOutcome(why) \in Outcome
BY DEF CommitOutcome, Outcome

\* Every step of a run keeps the types.
LEMMA ProcStepType ==
  ASSUME TypeOK, NEW p \in Proc, RunOK(p), ProcStep(p)
  PROVE  TypeOK'
<1> USE DEF TypeOK, Step, Outcome, Goto, Return, gitVars, histVars
<1>1. CASE Start(p)
  BY <1>1 DEF Start, Upstream
<1>2. CASE GitAdd(p)
  BY <1>2 DEF GitAdd
<1>3. CASE AddFails(p)
  BY <1>3 DEF AddFails
<1>4. CASE GitCommit(p)
  <2>1. index \in Commit
    BY <1>4 DEF GitCommit, Commit
  <2>2. local' \in [Branch -> SUBSET Commit]
    BY <1>4, <2>1 DEF GitCommit, CommitOn
  <2>3. QED
    BY <1>4, <2>2 DEF GitCommit
<1>5. CASE CommitNothing(p)
  BY <1>5, OutcomeType DEF CommitNothing
<1>6. CASE CommitFails(p)
  BY <1>6, OutcomeType DEF CommitFails
<1>7. CASE FindUpstream(p)
  BY <1>7 DEF FindUpstream, Upstream
<1>8. CASE FindUpstreamFails(p)
  BY <1>8 DEF FindUpstreamFails
<1>9. CASE Confirm(p)
  BY <1>9 DEF Confirm
<1>10. CASE Decline(p)
  BY <1>10 DEF Decline
<1>11. CASE GitPush(p)
  <2>1. target[p] \in Branch
    BY <1>11 DEF GitPush, RunOK
  <2>2. remote' \in [Branch -> SUBSET Commit]
    BY <1>11, <2>1 DEF GitPush
  <2>3. QED
    BY <1>11, <2>2 DEF GitPush
<1>12. CASE PushFails(p)
  BY <1>12 DEF PushFails
<1>13. CASE Crash(p)
  BY <1>13 DEF Crash
<1>14. CASE HandleStatus(p)
  BY <1>14 DEF HandleStatus, Upstream
<1>15. QED
  BY <1>1, <1>2, <1>3, <1>4, <1>5, <1>6, <1>7, <1>8, <1>9, <1>10, <1>11,
     <1>12, <1>13, <1>14 DEF ProcStep, RunStep

\* Every step of the users keeps the types.
LEMMA UserStepType ==
  ASSUME TypeOK, UserStep
  PROVE  TypeOK'
<1> USE DEF TypeOK, runVars, histVars
<1>1. CASE UserEdit
  BY <1>1 DEF UserEdit
<1>2. CASE UserStage
  BY <1>2 DEF UserStage
<1>3. CASE UserUnstage
  BY <1>3 DEF UserUnstage
<1>4. CASE UserCommit
  <2>1. index \in Commit
    BY <1>4 DEF UserCommit, Commit
  <2>2. local' \in [Branch -> SUBSET Commit]
    BY <1>4, <2>1 DEF UserCommit, CommitOn
  <2>3. QED
    BY <1>4, <2>2 DEF UserCommit
<1>5. CASE UserSwitch
  BY <1>5 DEF UserSwitch
<1>6. CASE UserReset
  BY <1>6 DEF UserReset
<1>7. CASE UserPull
  BY <1>7 DEF UserPull
<1>8. CASE UserPublish
  BY <1>8 DEF UserPublish, Upstream
<1>9. CASE UserTrack
  BY <1>9 DEF UserTrack, Upstream
<1>10. CASE TeammatePush
  <2>1. PICK b \in Branch, e \in Edit \ used :
          /\ used' = used \cup {e}
          /\ remote' = [remote EXCEPT ![b] = @ \cup {{e}}]
    BY <1>10 DEF TeammatePush
  <2>2. {e} \in Commit
    BY DEF Commit
  <2>3. remote' \in [Branch -> SUBSET Commit]
    BY <2>1, <2>2
  <2>4. QED
    BY <1>10, <2>1, <2>3 DEF TeammatePush
<1>11. QED
  BY <1>1, <1>2, <1>3, <1>4, <1>5, <1>6, <1>7, <1>8, <1>9, <1>10 DEF UserStep

\* Every step keeps the types.
LEMMA NextType ==
  ASSUME IndInv, [Next]_vars
  PROVE  TypeOK'
<1>1. CASE Next
  BY <1>1, ProcStepType, UserStepType DEF IndInv, Next, ProcStep
<1>2. CASE UNCHANGED vars
  BY <1>2 DEF IndInv, TypeOK, vars, gitVars, runVars, histVars
<1>3. QED
  BY <1>1, <1>2
-----------------------------------------------------------------------------
(***************************************************************************)
(* What a run knows                                                        *)
(***************************************************************************)
\* A step of one run keeps what every run knows.
LEMMA ProcStepRunOK ==
  ASSUME IndInv, NEW p \in Proc, ProcStep(p), NEW q \in Proc
  PROVE  RunOK(q)'
<1> USE DEF RunOK, Goto, Return, gitVars, histVars
<1>0. TypeOK /\ RunOK(p) /\ RunOK(q) /\ worktree \cup index \subseteq used
  BY DEF IndInv, EditsApart
<1>1. CASE Start(p)
  <2>1. CASE q = p
    BY <1>0, <1>1, <2>1, UpstreamAssumption DEF TypeOK, Start
  <2>2. CASE q # p
    BY <1>0, <1>1, <2>2 DEF TypeOK, Start
  <2>3. QED
    BY <2>1, <2>2
<1>2. CASE GitAdd(p)
  BY <1>0, <1>2 DEF TypeOK, GitAdd
<1>3. CASE AddFails(p)
  BY <1>0, <1>3 DEF TypeOK, AddFails
<1>4. CASE GitCommit(p)
  BY <1>0, <1>4 DEF TypeOK, GitCommit
<1>5. CASE CommitNothing(p)
  BY <1>0, <1>5 DEF TypeOK, CommitNothing
<1>6. CASE CommitFails(p)
  BY <1>0, <1>6 DEF TypeOK, CommitFails
<1>7. CASE FindUpstream(p)
  BY <1>0, <1>7 DEF TypeOK, FindUpstream
<1>8. CASE FindUpstreamFails(p)
  BY <1>0, <1>8 DEF TypeOK, FindUpstreamFails
<1>9. CASE Confirm(p)
  BY <1>0, <1>9 DEF TypeOK, Confirm
<1>10. CASE Decline(p)
  BY <1>0, <1>10 DEF TypeOK, Decline
<1>11. CASE GitPush(p)
  BY <1>0, <1>11 DEF TypeOK, GitPush
<1>12. CASE PushFails(p)
  BY <1>0, <1>12 DEF TypeOK, PushFails
<1>13. CASE Crash(p)
  BY <1>0, <1>13 DEF TypeOK, Crash
<1>14. CASE HandleStatus(p)
  <2>1. CASE q = p
    BY <1>0, <1>14, <2>1, UpstreamAssumption DEF TypeOK, HandleStatus
  <2>2. CASE q # p
    BY <1>0, <1>14, <2>2 DEF TypeOK, HandleStatus
  <2>3. QED
    BY <2>1, <2>2
<1>15. QED
  BY <1>1, <1>2, <1>3, <1>4, <1>5, <1>6, <1>7, <1>8, <1>9, <1>10, <1>11,
     <1>12, <1>13, <1>14 DEF ProcStep, RunStep

\* A step of the users keeps what every run knows.
LEMMA UserStepRunOK ==
  ASSUME IndInv, UserStep, NEW q \in Proc
  PROVE  RunOK(q)'
<1> USE DEF RunOK, runVars, histVars
<1>0. TypeOK /\ RunOK(q)
  BY DEF IndInv
<1>1. CASE UserEdit
  BY <1>0, <1>1 DEF TypeOK, UserEdit
<1>2. CASE UserStage
  BY <1>0, <1>2 DEF TypeOK, UserStage
<1>3. CASE UserUnstage
  BY <1>0, <1>3 DEF TypeOK, UserUnstage
<1>4. CASE UserCommit \/ UserSwitch \/ UserPull \/ UserPublish \/ UserTrack
  BY <1>0, <1>4 DEF UserCommit, UserSwitch, UserPull, UserPublish, UserTrack
<1>5. CASE UserReset
  BY <1>0, <1>5 DEF TypeOK, UserReset
<1>6. CASE TeammatePush
  BY <1>0, <1>6 DEF TypeOK, TeammatePush
<1>7. QED
  BY <1>1, <1>2, <1>3, <1>4, <1>5, <1>6 DEF UserStep
-----------------------------------------------------------------------------
(***************************************************************************)
(* No edit is recorded twice                                               *)
(***************************************************************************)

\* A commit enters the histories once, out of the index or as a teammate's.
NewCommits ==
  \/ /\ AllCommits' \subseteq AllCommits
     /\ worktree' \cup index' = worktree \cup index
     /\ worktree' \cap index' = {}
     /\ used' = used
  \/ /\ AllCommits' \subseteq AllCommits \cup {index}
     /\ index' = {} /\ worktree' = worktree
     /\ used' = used
  \/ \E e \in Edit \ used :
       /\ used' = used \cup {e}
       /\ \/ /\ AllCommits' \subseteq AllCommits
             /\ worktree' = worktree \cup {e} /\ index' = index
          \/ /\ AllCommits' \subseteq AllCommits \cup {{e}}
             /\ worktree' = worktree /\ index' = index

\* A step of a run makes no commit but one of the whole index.
LEMMA ProcStepCommits ==
  ASSUME IndInv, NEW p \in Proc, ProcStep(p)
  PROVE  NewCommits
<1> USE DEF Goto, Return, gitVars, histVars
<1>0. TypeOK /\ RunOK(p) /\ worktree \cap index = {}
  BY DEF IndInv, EditsApart
<1>1. CASE GitCommit(p)
  <2>1. AllCommits' \subseteq AllCommits \cup {index}
    BY <1>0, <1>1 DEF AllCommits, TypeOK, GitCommit, CommitOn
  <2>2. QED
    BY <1>0, <1>1, <2>1 DEF GitCommit, NewCommits
<1>2. CASE GitPush(p)
  <2>1. target[p] \in Branch
    BY <1>0, <1>2 DEF GitPush, RunOK
  <2>2. AllCommits' \subseteq AllCommits
    BY <1>0, <1>2, <2>1 DEF AllCommits, TypeOK, GitPush
  <2>3. QED
    BY <1>0, <1>2, <2>2 DEF GitPush, NewCommits
<1>3. CASE Start(p)
  <2>1. AllCommits' \subseteq AllCommits
    BY <1>0, <1>3 DEF AllCommits, TypeOK, Start, Commit
  <2>2. QED
    BY <1>0, <1>3, <2>1 DEF Start, NewCommits
<1>4. CASE GitAdd(p)
  <2>1. AllCommits' \subseteq AllCommits
    BY <1>4 DEF AllCommits, GitAdd
  <2>2. /\ worktree' \cup index' = worktree \cup index
      /\ worktree' \cap index' = {} /\ used' = used
    BY <1>0, <1>4 DEF GitAdd
  <2>3. QED
    BY <1>0, <2>1, <2>2 DEF NewCommits
<1>5. CASE HandleStatus(p)
  <2>1. AllCommits' \subseteq AllCommits
    BY <1>0, <1>5 DEF AllCommits, TypeOK, HandleStatus, Commit
  <2>2. QED
    BY <1>0, <1>5, <2>1 DEF HandleStatus, NewCommits
<1>6. CASE ~(\/ GitCommit(p) \/ GitPush(p) \/ Start(p) \/ GitAdd(p)
             \/ HandleStatus(p))
  <2>1. UNCHANGED gitVars /\ UNCHANGED made
    BY <1>6 DEF ProcStep, RunStep, AddFails, CommitNothing, CommitFails,
       FindUpstream, FindUpstreamFails, Confirm, Decline, PushFails, Crash
  <2>2. AllCommits' \subseteq AllCommits
    BY <2>1 DEF AllCommits
  <2>3. QED
    BY <1>0, <2>1, <2>2 DEF NewCommits
<1>7. QED
  BY <1>1, <1>2, <1>3, <1>4, <1>5, <1>6

\* Neither does a step of the users, or one of a single new edit.
LEMMA UserStepCommits ==
  ASSUME IndInv, UserStep
  PROVE  NewCommits
<1> USE DEF runVars, histVars
<1>0. TypeOK /\ worktree \cap index = {}
  BY DEF IndInv, EditsApart
<1>1. CASE UserEdit
  <2>1. AllCommits' \subseteq AllCommits
    BY <1>1 DEF AllCommits, UserEdit
  <2>2. QED
    BY <1>0, <1>1, <2>1 DEF UserEdit, NewCommits
<1>2. CASE UserStage
  <2>1. AllCommits' \subseteq AllCommits
    BY <1>2 DEF AllCommits, UserStage
  <2>2. /\ worktree' \cup index' = worktree \cup index
      /\ worktree' \cap index' = {} /\ used' = used
    BY <1>0, <1>2 DEF UserStage
  <2>3. QED
    BY <1>0, <2>1, <2>2 DEF NewCommits
<1>3. CASE UserUnstage
  <2>1. AllCommits' \subseteq AllCommits
    BY <1>3 DEF AllCommits, UserUnstage
  <2>2. /\ worktree' \cup index' = worktree \cup index
      /\ worktree' \cap index' = {} /\ used' = used
    BY <1>0, <1>3 DEF UserUnstage
  <2>3. QED
    BY <1>0, <2>1, <2>2 DEF NewCommits
<1>4. CASE UserCommit
  <2>1. AllCommits' \subseteq AllCommits \cup {index}
    BY <1>0, <1>4 DEF AllCommits, TypeOK, UserCommit, CommitOn
  <2>2. QED
    BY <1>0, <1>4, <2>1 DEF UserCommit, NewCommits
<1>5. CASE UserSwitch
  <2>1. AllCommits' \subseteq AllCommits
    BY <1>0, <1>5 DEF AllCommits, TypeOK, UserSwitch
  <2>2. QED
    BY <1>0, <1>5, <2>1 DEF UserSwitch, NewCommits
<1>6. CASE UserReset
  <2>1. AllCommits' \subseteq AllCommits
    BY <1>0, <1>6 DEF AllCommits, TypeOK, UserReset
  <2>2. QED
    BY <1>0, <1>6, <2>1 DEF UserReset, NewCommits
<1>7. CASE UserPull
  <2>1. AllCommits' \subseteq AllCommits
    BY <1>0, <1>7 DEF AllCommits, TypeOK, UserPull
  <2>2. QED
    BY <1>0, <1>7, <2>1 DEF UserPull, NewCommits
<1>8. CASE UserPublish
  <2>1. AllCommits' \subseteq AllCommits
    BY <1>0, <1>8 DEF AllCommits, TypeOK, UserPublish
  <2>2. QED
    BY <1>0, <1>8, <2>1 DEF UserPublish, NewCommits
<1>9. CASE UserTrack
  <2>1. AllCommits' \subseteq AllCommits
    BY <1>9 DEF AllCommits, UserTrack
  <2>2. QED
    BY <1>0, <1>9, <2>1 DEF UserTrack, NewCommits
<1>10. CASE TeammatePush
  <2>1. PICK b \in Branch, e \in Edit \ used :
          /\ used' = used \cup {e}
          /\ remote' = [remote EXCEPT ![b] = @ \cup {{e}}]
    BY <1>10 DEF TeammatePush
  <2>2. AllCommits' \subseteq AllCommits \cup {{e}}
    BY <1>0, <1>10, <2>1 DEF AllCommits, TypeOK, TeammatePush
  <2>3. QED
    BY <1>10, <2>1, <2>2 DEF TeammatePush, NewCommits
<1>11. QED
  BY <1>1, <1>2, <1>3, <1>4, <1>5, <1>6, <1>7, <1>8, <1>9, <1>10 DEF UserStep

\* Such steps record no edit twice and keep uncommitted edits out of commits.
LEMMA NewCommitsApart ==
  ASSUME IndInv, NewCommits
  PROVE  EditsApart' /\ EditRecordedOnce'
<1>0. /\ worktree \cup index \subseteq used /\ worktree \cap index = {}
      /\ \A c \in AllCommits : c \subseteq used /\ c \cap (worktree \cup index) = {}
      /\ \A c, d \in AllCommits : c # d => c \cap d = {}
  BY DEF IndInv, EditsApart, EditRecordedOnce
<1> USE DEF EditsApart, EditRecordedOnce
<1>1. CASE /\ AllCommits' \subseteq AllCommits
           /\ worktree' \cup index' = worktree \cup index
           /\ worktree' \cap index' = {}
           /\ used' = used
  BY <1>0, <1>1
<1>2. CASE /\ AllCommits' \subseteq AllCommits \cup {index}
           /\ index' = {} /\ worktree' = worktree
           /\ used' = used
  <2>1. \A c \in AllCommits' : c \in AllCommits \/ c = index
    BY <1>2
  <2>2. \A c \in AllCommits' : c \subseteq used
    BY <1>0, <2>1
  <2>3. \A c \in AllCommits' : c = index \/ c \cap index = {}
    BY <1>0, <2>1
  <2>4. ASSUME NEW c \in AllCommits' PROVE c \cap worktree = {}
    <3>1. CASE c \in AllCommits
      BY <1>0, <3>1
    <3>2. CASE c = index
      BY <3>2, <1>0
    <3>3. QED
      BY <2>1, <3>1, <3>2
  <2>5. EditRecordedOnce'
    BY <1>0, <2>1, <2>3
  <2>6. QED
    BY <1>0, <1>2, <2>2, <2>4, <2>5
<1>3. ASSUME NEW e \in Edit \ used,
             used' = used \cup {e},
             AllCommits' \subseteq AllCommits,
             worktree' = worktree \cup {e}, index' = index
      PROVE  EditsApart' /\ EditRecordedOnce'
  <2>1. \A c \in AllCommits' : c \in AllCommits /\ e \notin c
    BY <1>0, <1>3
  <2>2. \A c \in AllCommits' : c \cap (worktree' \cup index') = {}
    BY <1>0, <1>3, <2>1
  <2>3. QED
    BY <1>0, <1>3, <2>1, <2>2
<1>4. ASSUME NEW e \in Edit \ used,
             used' = used \cup {e},
             AllCommits' \subseteq AllCommits \cup {{e}},
             worktree' = worktree, index' = index
      PROVE  EditsApart' /\ EditRecordedOnce'
  <2>1. \A c \in AllCommits' : c = {e} \/ c \in AllCommits
    BY <1>4
  <2>2. \A c \in AllCommits : c \cap {e} = {}
    BY <1>0
  <2>3. {e} \cap (worktree \cup index) = {}
    BY <1>0
  <2>4. EditRecordedOnce'
    BY <1>0, <2>1, <2>2
  <2>5. \A c \in AllCommits' : c \subseteq used' /\ c \cap (worktree' \cup index') = {}
    BY <1>0, <1>4, <2>1, <2>3
  <2>6. QED
    BY <1>0, <1>4, <2>4, <2>5
<1>5. QED
  BY <1>1, <1>2, <1>3, <1>4 DEF NewCommits
-----------------------------------------------------------------------------
(***************************************************************************)
(* The commit of a run stays where it was made, and arrives                *)
(***************************************************************************)

\* The run q, which made a commit, is not the one that steps, or its commit
\* and what it recorded of it stay the same.
LEMMA RecordStable ==
  ASSUME IndInv, NEW p \in Proc, ProcStep(p), ~GitCommit(p), NEW q \in Proc,
         Committed(q)' \/ made'[q] # {}
  PROVE  /\ made'[q] = made[q] /\ madeOn'[q] = madeOn[q]
         /\ Committed(q)' => Committed(q)
         /\ found'[q] = found[q] /\ used' = used
<1> USE DEF Committed, gitVars, histVars
<1>0. TypeOK
  BY DEF IndInv
<1>1. CASE Start(p) \/ HandleStatus(p)
  BY <1>0, <1>1, UpstreamAssumption DEF TypeOK, Start, HandleStatus
<1>2. CASE ~Start(p) /\ ~HandleStatus(p)
  BY <1>2 DEF ProcStep, RunStep, GitAdd, AddFails, CommitNothing, CommitFails,
     FindUpstream, FindUpstreamFails, GitPush, Confirm, Decline, PushFails, Crash
<1>3. QED
  BY <1>1, <1>2

\* No user step touches what a run knows, but for its branch, when that is moved
\* back, and its edits, when they are unstaged before the commit.
LEMMA UserRecordStable ==
  ASSUME IndInv, UserStep, NEW q \in Proc
  PROVE  /\ UNCHANGED <<pc, target, result, made>>
         /\ Committed(q)' => /\ Committed(q) /\ madeOn'[q] = madeOn[q]
                             /\ UserReset => madeOn[q] # head
         /\ ~UserUnstage \/ pc[q] # "commit" => found'[q] = found[q]
<1>0. TypeOK
  BY DEF IndInv
<1>1. CASE UserReset
  <2>1. UNCHANGED <<pc, target, result, made, found>>
    BY <1>1 DEF UserReset
  <2>2. madeOn'[q] = IF madeOn[q] = head THEN NoUpstream ELSE madeOn[q]
    BY <1>0, <1>1 DEF TypeOK, UserReset
  <2>3. QED
    BY <2>1, <2>2, UpstreamAssumption DEF Committed
<1>2. CASE UserUnstage
  <2>1. UNCHANGED <<pc, target, result, made, madeOn>> /\ ~UserReset
    BY <1>2 DEF UserUnstage, UserReset
  <2>2. pc[q] # "commit" => found'[q] = found[q]
    BY <1>0, <1>2 DEF TypeOK, UserUnstage
  <2>3. QED
    BY <1>2, <2>1, <2>2 DEF Committed
<1>3. CASE ~UserReset /\ ~UserUnstage
  <2>1. UNCHANGED runVars
    BY <1>3 DEF UserStep, UserEdit, UserStage, UserCommit, UserSwitch,
       UserPull, UserPublish, UserTrack, TeammatePush
  <2>2. QED
    BY <1>3, <2>1 DEF runVars, histVars, Committed
<1>4. QED
  BY <1>1, <1>2, <1>3

\* No step of a run takes a commit off its branch.
LEMMA ProcStepKept ==
  ASSUME IndInv, NEW p \in Proc, ProcStep(p)
  PROVE  CommitKept'
<1> SUFFICES ASSUME NEW q \in Proc, Committed(q)'
             PROVE  (made[q] \in local[madeOn[q]])'
  BY DEF CommitKept
<1>0. TypeOK /\ CommitKept /\ RunOK(p)
  BY DEF IndInv
<1>1. CASE GitCommit(p)
  <2>1. CASE q = p
    BY <1>0, <1>1, <2>1 DEF TypeOK, GitCommit, CommitOn
  <2>2. CASE q # p
    BY <1>0, <1>1, <2>2 DEF TypeOK, GitCommit, CommitOn, CommitKept, Committed
  <2>3. QED
    BY <2>1, <2>2
<1>2. CASE ~GitCommit(p)
  <2>1. UNCHANGED local
    BY <1>2 DEF ProcStep, RunStep, GitAdd, AddFails, CommitNothing, CommitFails,
       FindUpstream, FindUpstreamFails, GitPush, Confirm, Decline, PushFails,
       Start, HandleStatus, Crash, gitVars
  <2>2. QED
    BY <1>0, <1>2, <2>1, RecordStable DEF CommitKept
<1>3. QED
  BY <1>1, <1>2

\* Nor does a step of the users, unless it moves this branch back.
LEMMA UserStepKept ==
  ASSUME IndInv, UserStep
  PROVE  CommitKept'
<1> SUFFICES ASSUME NEW q \in Proc, Committed(q)'
             PROVE  (made[q] \in local[madeOn[q]])'
  BY DEF CommitKept
<1>1. /\ made'[q] = made[q] /\ madeOn'[q] = madeOn[q]
      /\ Committed(q) /\ (UserReset => madeOn[q] # head)
  BY UserRecordStable
<1>0. TypeOK /\ made[q] \in local[madeOn[q]] /\ madeOn[q] \in Branch
  BY <1>1 DEF IndInv, CommitKept, Committed
<1>2. local[madeOn[q]] \subseteq local'[madeOn[q]]
  <2>1. CASE UserCommit
    BY <1>0, <2>1 DEF TypeOK, UserCommit, CommitOn
  <2>2. CASE UserSwitch
    BY <1>0, <2>2 DEF TypeOK, UserSwitch
  <2>3. CASE UserPull
    BY <1>0, <2>3 DEF TypeOK, UserPull
  <2>4. CASE UserReset
    BY <1>0, <1>1, <2>4 DEF TypeOK, UserReset
  <2>5. QED
    BY <2>1, <2>2, <2>3, <2>4 DEF UserStep, UserEdit, UserStage, UserUnstage,
       UserPublish, UserTrack, TeammatePush
<1>3. QED
  BY <1>0, <1>1, <1>2

\* Every step leaves the commits of the remote there.
LEMMA RemoteGrows ==
  ASSUME IndInv, [Next]_vars
  PROVE  \A b \in Branch : remote[b] \subseteq remote'[b]
<1>0. TypeOK /\ \A p \in Proc : RunOK(p)
  BY DEF IndInv
<1>1. ASSUME NEW p \in Proc, ProcStep(p)
      PROVE  \A b \in Branch : remote[b] \subseteq remote'[b]
  <2>1. CASE GitPush(p)
    BY <1>0, <2>1 DEF TypeOK, RunOK, GitPush, FastForward
  <2>2. CASE ~GitPush(p)
    BY <1>1, <2>2 DEF ProcStep, RunStep, GitAdd, AddFails, GitCommit,
       CommitNothing, CommitFails, FindUpstream, FindUpstreamFails, Confirm,
       Decline, PushFails, Start, HandleStatus, Crash, gitVars
  <2>3. QED
    BY <2>1, <2>2
<1>2. CASE UserStep
  <2>1. CASE UserPublish
    BY <1>0, <2>1 DEF TypeOK, UserPublish
  <2>2. CASE TeammatePush
    BY <1>0, <2>2 DEF TypeOK, TeammatePush
  <2>3. QED
    BY <1>2, <2>1, <2>2 DEF UserStep, UserEdit, UserStage, UserUnstage,
       UserCommit, UserSwitch, UserReset, UserPull, UserTrack
<1>3. CASE UNCHANGED vars
  BY <1>3 DEF vars, gitVars
<1>4. QED
  BY <1>1, <1>2, <1>3 DEF Next, ProcStep

\* The only success of a run that made a commit, and was not declined, is
\* "sent": SentCommitArrives with the statuses of module_exec taken out.
LEMMA ArrivesFromSent ==
  ASSUME \A q \in Proc : RunOK(q)',
         \A q \in Proc :
           Committed(q)' /\ result'[q] = "sent"
             => /\ target'[q] \in Branch
                /\ target'[q] = madeOn'[q] => made'[q] \in remote'[target'[q]]
  PROVE  SentCommitArrives'
BY DEF SentCommitArrives, RunOK, Committed, ExitStatus, Succeeded

\* A run that reports "sent" has just pushed the branch it committed on.
LEMMA ProcStepArrives ==
  ASSUME IndInv, NEW p \in Proc, ProcStep(p),
         NEW q \in Proc, Committed(q)', result'[q] = "sent"
  PROVE  /\ target'[q] \in Branch
         /\ target'[q] = madeOn'[q] => made'[q] \in remote'[target'[q]]
<1>0. /\ TypeOK /\ CommitKept /\ SentCommitArrives
      /\ RunOK(p) /\ RunOK(q)
      /\ TypeOK'
  BY NextType DEF IndInv, Next, ProcStep
<1>1. \A b \in Branch : remote[b] \subseteq remote'[b]
  BY RemoteGrows DEF Next, ProcStep
<1>2. CASE GitPush(p) /\ q = p
  <2>1. /\ Committed(p) /\ made'[p] = made[p] /\ madeOn'[p] = madeOn[p]
        /\ target'[p] = target[p]
    BY <1>2 DEF GitPush, Committed, histVars
  <2>2. target[p] \in Branch
    BY <1>0, <1>2 DEF GitPush, RunOK
  <2>3. target[p] = madeOn[p] => made[p] \in local[target[p]]
    BY <1>0, <2>1 DEF CommitKept
  <2>4. remote'[target[p]] = local[target[p]]
    BY <1>0, <1>2, <2>2 DEF TypeOK, GitPush
  <2>5. QED
    BY <1>2, <2>1, <2>2, <2>3, <2>4
<1>3. CASE ~(GitPush(p) /\ q = p)
  <2>1. result[q] = "sent" /\ target'[q] = target[q] /\ ~(GitCommit(p) /\ q = p)
    <3>1. CASE q # p
      BY <1>0, <3>1 DEF TypeOK, ProcStep, RunStep, GitAdd, AddFails, GitCommit,
         CommitNothing, CommitFails, FindUpstream, FindUpstreamFails, GitPush,
         Confirm, Decline, PushFails, Start, HandleStatus, Crash, Goto, Return
    <3>2. CASE q = p
      BY <1>0, <1>3, <3>2 DEF TypeOK, RunOK, ProcStep, RunStep, GitAdd, AddFails,
         GitCommit, CommitNothing, CommitFails, CommitOutcome, FindUpstream,
         FindUpstreamFails, Confirm, Decline, PushFails, Start, HandleStatus,
         Crash, Goto, Return
    <3>3. QED
      BY <3>1, <3>2
  <2>2. Committed(q) /\ made'[q] = made[q] /\ madeOn'[q] = madeOn[q]
    <3>1. CASE GitCommit(p)
      BY <1>0, <2>1, <3>1 DEF TypeOK, GitCommit, Committed
    <3>2. CASE ~GitCommit(p)
      BY <3>2, RecordStable
    <3>3. QED
      BY <3>1, <3>2
  <2>3. /\ target[q] \in Branch
        /\ target[q] = madeOn[q] => made[q] \in remote[target[q]]
    BY <1>0, <2>1, <2>2 DEF SentCommitArrives, ExitStatus, Succeeded
  <2>4. QED
    BY <1>1, <2>1, <2>2, <2>3
<1>4. QED
  BY <1>2, <1>3

\* The users take no commit off the remote.
LEMMA UserStepArrives ==
  ASSUME IndInv, UserStep,
         NEW q \in Proc, Committed(q)', result'[q] = "sent"
  PROVE  /\ target'[q] \in Branch
         /\ target'[q] = madeOn'[q] => made'[q] \in remote'[target'[q]]
<1>1. /\ Committed(q) /\ UNCHANGED <<result, target, made>>
      /\ madeOn'[q] = madeOn[q]
  BY UserRecordStable
<1>2. /\ target[q] \in Branch
      /\ target[q] = madeOn[q] => made[q] \in remote[target[q]]
  BY <1>1 DEF IndInv, SentCommitArrives, ExitStatus, Succeeded
<1>3. \A b \in Branch : remote[b] \subseteq remote'[b]
  BY RemoteGrows DEF Next
<1>4. QED
  BY <1>1, <1>2, <1>3
-----------------------------------------------------------------------------
(***************************************************************************)
(* Nothing is left behind                                                  *)
(***************************************************************************)
\* No step of a run puts an edit back that a commit has recorded.
LEMMA ProcStepLeft ==
  ASSUME IndInv, NEW p \in Proc, ProcStep(p)
  PROVE  NothingLeftBehind'
<1> SUFFICES ASSUME NEW q \in Proc, made'[q] # {}
             PROVE  (found[q] \cap (worktree \cup index) = {})'
  BY DEF NothingLeftBehind
<1>0. TypeOK /\ NothingLeftBehind /\ RunOK(p)
  BY DEF IndInv
<1>1. CASE GitCommit(p)
  <2>1. CASE q = p
    BY <1>0, <1>1, <2>1 DEF GitCommit, RunOK, Goto
  <2>2. CASE q # p
    <3>1. /\ made[q] # {} /\ found'[q] = found[q]
          /\ worktree' = worktree /\ index' = {}
      BY <1>0, <1>1, <2>2 DEF TypeOK, GitCommit
    <3>2. QED
      BY <1>0, <3>1 DEF NothingLeftBehind
  <2>3. QED
    BY <2>1, <2>2
<1>2. CASE ~GitCommit(p)
  <2>1. found'[q] = found[q] /\ found[q] \cap (worktree \cup index) = {}
    BY <1>0, <1>2, RecordStable DEF NothingLeftBehind
  <2>2. worktree' \cup index' \subseteq worktree \cup index
    <3>1. CASE GitAdd(p)
      BY <3>1 DEF GitAdd
    <3>2. CASE ~GitAdd(p)
      BY <1>2, <3>2 DEF ProcStep, RunStep, AddFails, CommitNothing, CommitFails,
         FindUpstream, FindUpstreamFails, GitPush, Confirm, Decline, PushFails,
         Start, HandleStatus, Crash, gitVars
    <3>3. QED
      BY <3>1, <3>2
  <2>3. QED
    BY <2>1, <2>2
<1>3. QED
  BY <1>1, <1>2

\* Nor does a step of the users, once the commit is made.
LEMMA UserStepLeft ==
  ASSUME IndInv, UserStep
  PROVE  NothingLeftBehind'
<1> SUFFICES ASSUME NEW q \in Proc, made'[q] # {}
             PROVE  (found[q] \cap (worktree \cup index) = {})'
  BY DEF NothingLeftBehind
<1>0. made[q] # {} /\ pc[q] # "commit"
  BY UserRecordStable DEF IndInv, RunOK
<1>1. found'[q] = found[q] /\ found[q] \cap (worktree \cup index) = {}
  BY <1>0, UserRecordStable DEF IndInv, NothingLeftBehind
<1>2. found[q] \subseteq used
  BY DEF IndInv, RunOK
<1>3. CASE UserEdit
  BY <1>1, <1>2, <1>3 DEF UserEdit
<1>4. CASE UserStage
  BY <1>1, <1>4 DEF UserStage
<1>5. CASE UserUnstage
  BY <1>1, <1>5 DEF UserUnstage
<1>6. CASE UserCommit
  BY <1>1, <1>6 DEF UserCommit
<1>7. QED
  BY <1>1, <1>3, <1>4, <1>5, <1>6 DEF UserStep, UserSwitch, UserReset, UserPull,
     UserPublish, UserTrack, TeammatePush
-----------------------------------------------------------------------------
(***************************************************************************)
(* The theorems                                                            *)
(***************************************************************************)
\* The initial states satisfy the inductive invariant.
LEMMA InitInv == Init => IndInv
<1> SUFFICES ASSUME Init PROVE IndInv
  OBVIOUS
<1>1. TypeOK
  BY TypeInit
<1>2. AllCommits = {}
  BY DEF Init, AllCommits, Commit
<1>3. EditsApart /\ EditRecordedOnce
  BY <1>2 DEF Init, EditsApart, EditRecordedOnce
<1>4. \A p \in Proc : RunOK(p) /\ ~Committed(p)
  BY UpstreamAssumption DEF Init, RunOK, Committed
<1>5. QED
  BY <1>1, <1>3, <1>4 DEF Init, IndInv, CommitKept, SentCommitArrives, NothingLeftBehind

\* Every step keeps the inductive invariant.
LEMMA NextInv == IndInv /\ [Next]_vars => IndInv'
<1>1. ASSUME IndInv, NEW p \in Proc, ProcStep(p)
      PROVE  IndInv'
  <2>1. TypeOK'
    BY <1>1, NextType DEF Next, ProcStep
  <2>2. EditsApart' /\ EditRecordedOnce'
    BY <1>1, ProcStepCommits, NewCommitsApart
  <2>3. \A q \in Proc : RunOK(q)'
    BY <1>1, ProcStepRunOK
  <2>4. CommitKept' /\ NothingLeftBehind'
    BY <1>1, ProcStepKept, ProcStepLeft
  <2>5. \A q \in Proc :
          Committed(q)' /\ result'[q] = "sent"
            => /\ target'[q] \in Branch
               /\ target'[q] = madeOn'[q] => made'[q] \in remote'[target'[q]]
    BY <1>1, ProcStepArrives
  <2>6. SentCommitArrives'
    BY <2>3, <2>5, ArrivesFromSent
  <2>7. QED
    BY <2>1, <2>2, <2>3, <2>4, <2>6 DEF IndInv
<1>2. ASSUME IndInv, UserStep
      PROVE  IndInv'
  <2>1. TypeOK'
    BY <1>2, NextType DEF Next
  <2>2. EditsApart' /\ EditRecordedOnce'
    BY <1>2, UserStepCommits, NewCommitsApart
  <2>3. \A q \in Proc : RunOK(q)'
    BY <1>2, UserStepRunOK
  <2>4. CommitKept' /\ NothingLeftBehind'
    BY <1>2, UserStepKept, UserStepLeft
  <2>5. \A q \in Proc :
          Committed(q)' /\ result'[q] = "sent"
            => /\ target'[q] \in Branch
               /\ target'[q] = madeOn'[q] => made'[q] \in remote'[target'[q]]
    BY <1>2, UserStepArrives
  <2>6. SentCommitArrives'
    BY <2>3, <2>5, ArrivesFromSent
  <2>7. QED
    BY <2>1, <2>2, <2>3, <2>4, <2>6 DEF IndInv
<1>3. ASSUME IndInv, UNCHANGED vars
      PROVE  IndInv'
  BY <1>3 DEF vars, gitVars, runVars, histVars, IndInv, TypeOK, EditsApart,
     EditRecordedOnce, AllCommits, RunOK, CommitKept, SentCommitArrives,
     NothingLeftBehind, Committed
<1>4. QED
  BY <1>1, <1>2, <1>3 DEF Next, ProcStep

\* The inductive invariant holds in every reachable state, with any number of
\* edits, branches and concurrent runs.
THEOREM Invariant == Spec => []IndInv
BY InitInv, NextInv, PTL DEF Spec

\* Type correctness: every variable of GitSend keeps its type.
THEOREM TypeCorrect == Spec => []TypeOK
<1>1. IndInv => TypeOK
  BY DEF IndInv
<1>2. QED
  BY <1>1, Invariant, PTL

\* handle_send, steps 4 to 6: whatever happens after the commit of a run, the
\* branch it was made on keeps it, unless a user moves that branch back.
THEOREM KeepsCommit == Spec => []CommitKept
<1>1. IndInv => CommitKept
  BY DEF IndInv
<1>2. QED
  BY <1>1, Invariant, PTL

\* handle_send and module_exec: a run that made a commit and returns Success
\* has delivered it to the branch it pushed, unless its user declined.
THEOREM Delivers == Spec => []SentCommitArrives
<1>1. IndInv => SentCommitArrives
  BY DEF IndInv
<1>2. QED
  BY <1>1, Invariant, PTL

\* git_add and git_commit of handle_send: the edits a run found below its
\* directory are committed once it has made its commit.
THEOREM LeavesNothing == Spec => []NothingLeftBehind
<1>1. IndInv => NothingLeftBehind
  BY DEF IndInv
<1>2. QED
  BY <1>1, Invariant, PTL

\* Runs that share the index record every edit in one commit at most.
THEOREM RecordsOnce == Spec => []EditRecordedOnce
<1>1. IndInv => EditRecordedOnce
  BY DEF IndInv
<1>2. QED
  BY <1>1, Invariant, PTL

\* git_push of handle_send: no step, of any number of runs with stale prompts,
\* takes a commit away from the remote.
THEOREM NoRemoteLoss == Spec => RemoteNeverLoses
<1>1. IndInv /\ [Next]_vars => [\A b \in Branch : remote[b] \subseteq remote'[b]]_vars
  BY RemoteGrows
<1>2. QED
  BY <1>1, Invariant, PTL DEF Spec, RemoteNeverLoses
-----------------------------------------------------------------------------
(***************************************************************************)
(* The module keeps the promise of Delivery                                *)
(***************************************************************************)

\* The initial states are initial states of the promise.
LEMMA PromiseInit == Init => Promise!Init
<1> SUFFICES ASSUME Init PROVE Promise!Init
  OBVIOUS
<1>1. Pending = {}
  BY DEF Init, Pending
<1>2. /\ Claimed = [p \in Proc |-> "nothing"]
      /\ Goal = [p \in Proc |-> NoUpstream]
  BY DEF Init, Claimed, Goal
<1>3. QED
  BY <1>1, <1>2 DEF Init, Promise!Init

\* A run that is elsewhere than before its push has nothing in view, and the
\* others have what they had.
LEMMA GoalDrops ==
  ASSUME TypeOK, NEW p \in Proc, NEW to, to # "push",
         pc' = [pc EXCEPT ![p] = to],
         \A q \in Proc \ {p} : target'[q] = target[q]
  PROVE  /\ Goal' = [Goal EXCEPT ![p] = NoUpstream]
         /\ pc[p] # "push" => UNCHANGED Goal
<1>1. \A q \in Proc \ {p} : Goal'[q] = Goal[q]
  BY DEF TypeOK, Goal
<1>2. /\ Goal'[p] = NoUpstream
      /\ pc[p] # "push" => Goal[p] = NoUpstream
  BY DEF TypeOK, Goal
<1>3. DOMAIN Goal = Proc /\ DOMAIN Goal' = Proc
  BY DEF Goal
<1>4. QED
  BY <1>1, <1>2, <1>3 DEF Goal

\* A run that returns tells its user something, or nothing.
LEMMA ReturnTells ==
  ASSUME TypeOK, NEW p \in Proc, NEW res \in Outcome,
         result' = [result EXCEPT ![p] = res]
  PROVE  Claimed' = [Claimed EXCEPT ![p] = IF res \in {"sent", "clean", "changes"}
                                            THEN res ELSE "nothing"]
BY DEF TypeOK, Claimed

\* A run that ends without a claim has made none before.
LEMMA FailureTells ==
  ASSUME TypeOK, NEW p \in Proc, result[p] = "none",
         NEW res \in Outcome \ {"sent", "clean", "changes"},
         result' = [result EXCEPT ![p] = res]
  PROVE  UNCHANGED Claimed
BY DEF TypeOK, Claimed

\* Every way in which a run gives up leaves the clone and the remote alone.
LEMMA ReturnGivesUp ==
  ASSUME IndInv, NEW p \in Proc, pc[p] # "idle",
         NEW res \in Outcome \ {"sent", "clean", "changes"}, Return(p, res),
         UNCHANGED <<gitVars, target, histVars>>
  PROVE  Promise!GiveUp(p)
<1>1. TypeOK /\ result[p] = "none"
  BY DEF IndInv, RunOK
<1>2. Goal' = [Goal EXCEPT ![p] = NoUpstream]
  BY <1>1, GoalDrops DEF Return
<1>3. UNCHANGED Claimed
  BY <1>1, FailureTells DEF Return
<1>4. QED
  BY <1>2, <1>3 DEF gitVars, histVars, Pending, Promise!GiveUp

\* A commit of the whole index on the current branch is one Record.
LEMMA CommitRecords ==
  ASSUME IndInv, index # {}, CommitOn(head, index), index' = {},
         UNCHANGED <<used, worktree, remote>>
  PROVE  Promise!Record(index, head) /\ index \in SUBSET Pending /\ head \in Branch
<1>0. TypeOK /\ worktree \cap index = {}
  BY DEF IndInv, EditsApart
<1>1. Pending' = Pending \ index /\ index \in (SUBSET Pending) \ {{}}
  BY <1>0 DEF Pending
<1>2. QED
  BY <1>0, <1>1 DEF TypeOK, CommitOn, Promise!Record

\* A push of a branch that a run goes on to send is the push of the promise.
LEMMA PushKeepsWord ==
  ASSUME IndInv, NEW p \in Proc, GitPush(p)
  PROVE  Promise!Push(p)
<1> USE DEF histVars
<1>0. TypeOK /\ target[p] \in Branch /\ pc[p] = "push"
  BY DEF IndInv, RunOK, GitPush
<1>1. Goal[p] = target[p] /\ Goal' = [Goal EXCEPT ![p] = NoUpstream]
  <2>1. pc' = [pc EXCEPT ![p] = "idle"]
    BY DEF GitPush, Return
  <2>2. UNCHANGED target
    BY DEF GitPush
  <2>3. QED
    BY <1>0, <2>1, <2>2, GoalDrops DEF Goal
<1>2. Promise!Advance(target[p], target[p])
  BY DEF GitPush, FastForward, Pending, Promise!Advance
<1>3. remote'[target[p]] = local[target[p]]
  BY <1>0 DEF TypeOK, GitPush
<1>4. madeOn[p] = target[p] => made[p] \in remote'[target[p]]
  BY <1>0, <1>3 DEF IndInv, CommitKept, Committed
<1>5. QED
  BY <1>0, <1>1, <1>2, <1>4 DEF GitPush, Promise!Push

\* The report of the clone is what the promise allows a run to say of it.
LEMMA StatusLooks ==
  ASSUME IndInv, NEW p \in Proc, HandleStatus(p)
  PROVE  Promise!RunStep(p)
<1>0. TypeOK
  BY DEF IndInv
<1>1. Goal' = [Goal EXCEPT ![p] = NoUpstream]
  <2>1. pc' = [pc EXCEPT ![p] = "idle"] /\ \A q \in Proc \ {p} : target'[q] = target[q]
    BY <1>0 DEF TypeOK, HandleStatus, Return
  <2>2. QED
    BY <1>0, <2>1, GoalDrops
<1>2. /\ made' = [made EXCEPT ![p] = {}]
      /\ madeOn' = [madeOn EXCEPT ![p] = NoUpstream]
      /\ UNCHANGED <<used, Pending, local, remote>>
  BY DEF HandleStatus, gitVars, Pending
<1>3. CASE Pending = {} /\ Return(p, "clean")
  <2>1. Claimed' = [Claimed EXCEPT ![p] = "clean"]
    BY <1>0, <1>3, ReturnTells DEF Return, Outcome
  <2>2. QED
    BY <1>1, <1>2, <1>3, <2>1 DEF Promise!Begin, Promise!Look, Promise!RunStep
<1>4. CASE Pending # {} /\ Return(p, "changes")
  <2>1. Claimed' = [Claimed EXCEPT ![p] = "changes"]
    BY <1>0, <1>4, ReturnTells DEF Return, Outcome
  <2>2. QED
    BY <1>1, <1>2, <1>4, <2>1 DEF Promise!Begin, Promise!Look, Promise!RunStep
<1>5. CASE Return(p, "status_error")
  <2>1. Claimed' = [Claimed EXCEPT ![p] = "nothing"]
    BY <1>0, <1>5, ReturnTells DEF Return, Outcome
  <2>2. QED
    BY <1>1, <1>2, <2>1 DEF Promise!Begin, Promise!RunStep
<1>6. QED
  BY <1>3, <1>4, <1>5 DEF HandleStatus, Pending

\* Every step of a run is a step of the promise, or changes nothing of it.
LEMMA ProcStepPromise ==
  ASSUME IndInv, NEW p \in Proc, ProcStep(p)
  PROVE  Promise!RunStep(p) \/ UNCHANGED Promise!vars
<1> USE DEF histVars
<1>0. TypeOK /\ RunOK(p)
  BY DEF IndInv
<1>1. CASE Start(p)
  <2>1. PICK to \in {"add", "idle"}, res \in {"none", "missing_message"} :
          pc' = [pc EXCEPT ![p] = to] /\ result' = [result EXCEPT ![p] = res]
    BY <1>1 DEF Start, Return
  <2>2. Goal' = [Goal EXCEPT ![p] = NoUpstream]
    BY <1>0, <1>1, <2>1, GoalDrops DEF TypeOK, Start
  <2>3. Claimed' = [Claimed EXCEPT ![p] = "nothing"]
    BY <1>0, <2>1, ReturnTells DEF Outcome
  <2>4. QED
    BY <1>1, <2>2, <2>3 DEF Start, gitVars, Pending, Promise!Begin, Promise!RunStep
<1>2. CASE GitAdd(p) \/ FindUpstream(p)
  <2>1. UNCHANGED <<used, Pending, local, remote, made, madeOn, Claimed>>
    BY <1>2 DEF GitAdd, FindUpstream, gitVars, Pending, Claimed
  <2>2. UNCHANGED Goal
    BY <1>0, <1>2, GoalDrops DEF TypeOK, GitAdd, FindUpstream, Goto
  <2>3. QED
    BY <2>1, <2>2 DEF Promise!vars, Promise!runVars
<1>3. CASE GitCommit(p)
  <2>1. Promise!Record(index, head) /\ index \in SUBSET Pending /\ head \in Branch
    BY <1>3, CommitRecords DEF GitCommit
  <2>2. made[p] = {}
    BY <1>0, <1>3 DEF RunOK, GitCommit, Goto
  <2>3. UNCHANGED Goal /\ UNCHANGED Claimed
    BY <1>0, <1>3, GoalDrops DEF TypeOK, GitCommit, Goto, Claimed
  <2>4. QED
    BY <1>3, <2>1, <2>2, <2>3 DEF GitCommit, Promise!RecordByRun, Promise!RunStep
<1>4. CASE Confirm(p)
  <2>1. made[p] # {} /\ target[p] \in Branch
    BY <1>0, <1>4 DEF RunOK, Confirm, Goto
  <2>2. Goal[p] = NoUpstream /\ Goal' = [Goal EXCEPT ![p] = target[p]]
    BY <1>0, <1>4 DEF TypeOK, Confirm, Goto, Goal
  <2>3. QED
    BY <1>4, <2>1, <2>2 DEF Confirm, gitVars, Pending, Claimed, Promise!Settle,
       Promise!RunStep
<1>5. CASE GitPush(p)
  <2>1. Promise!Push(p)
    BY <1>5, PushKeepsWord
  <2>2. CASE Return(p, "sent")
    <3>1. Claimed' = [Claimed EXCEPT ![p] = "sent"]
      BY <1>0, <2>2, ReturnTells DEF Return, Outcome
    <3>2. QED
      BY <2>1, <3>1 DEF Promise!Send, Promise!RunStep
  <2>3. CASE Return(p, "push_error")
    <3>1. UNCHANGED Claimed
      BY <1>0, <1>5, <2>3, FailureTells DEF GitPush, RunOK, Return, Outcome
    <3>2. QED
      BY <2>1, <3>1 DEF Promise!SendUnnoticed, Promise!RunStep
  <2>4. QED
    BY <1>5, <2>2, <2>3 DEF GitPush
<1>6. CASE \/ AddFails(p) \/ CommitNothing(p) \/ CommitFails(p)
           \/ FindUpstreamFails(p) \/ Decline(p) \/ PushFails(p) \/ Crash(p)
  <2>1. PICK res \in Outcome \ {"sent", "clean", "changes"} : Return(p, res)
    BY <1>6 DEF AddFails, CommitNothing, CommitFails, CommitOutcome,
       FindUpstreamFails, Decline, PushFails, Crash, Outcome
  <2>2. UNCHANGED <<gitVars, target, histVars>> /\ pc[p] # "idle"
    BY <1>6 DEF AddFails, CommitNothing, CommitFails, FindUpstreamFails, Decline,
       PushFails, Crash
  <2>3. Promise!GiveUp(p)
    BY <2>1, <2>2, ReturnGivesUp
  <2>4. QED
    BY <2>3 DEF Promise!RunStep
<1>7. QED
  BY <1>1, <1>2, <1>3, <1>4, <1>5, <1>6, StatusLooks DEF ProcStep, RunStep

\* Every step of the users is a step of the promise, or changes nothing of it.
LEMMA UserStepPromise ==
  ASSUME IndInv, UserStep
  PROVE  Promise!UserStep \/ UNCHANGED Promise!vars
<1> USE DEF runVars, histVars, Promise!runVars
<1>0. TypeOK
  BY DEF IndInv
<1>1. UNCHANGED <<made, Goal, Claimed>>
  <2>1. UNCHANGED <<pc, target, result, made>>
    BY DEF UserStep, UserEdit, UserStage, UserUnstage, UserCommit, UserSwitch,
       UserReset, UserPull, UserPublish, UserTrack, TeammatePush
  <2>2. QED
    BY <2>1 DEF Goal, Claimed
<1>2. CASE UserEdit
  <2>1. PICK e \in Edit \ used :
          used' = used \cup {e} /\ worktree' = worktree \cup {e}
    BY <1>2 DEF UserEdit
  <2>2. Pending' = Pending \cup {e}
    BY <1>2, <2>1 DEF UserEdit, Pending
  <2>3. QED
    BY <1>1, <1>2, <2>1, <2>2 DEF UserEdit, Promise!Change, Promise!UserStep
<1>3. CASE UserStage \/ UserUnstage \/ UserTrack
  <2>1. UNCHANGED <<used, Pending, local, remote, madeOn>>
    BY <1>3 DEF UserStage, UserUnstage, UserTrack, Pending
  <2>2. QED
    BY <1>1, <2>1 DEF Promise!vars
<1>4. CASE UserCommit
  <2>1. Promise!Record(index, head) /\ index \in SUBSET Pending /\ head \in Branch
    BY <1>4, CommitRecords DEF UserCommit
  <2>2. QED
    BY <1>1, <1>4, <2>1 DEF UserCommit, Promise!RecordByUser, Promise!UserStep
<1>5. CASE UserSwitch \/ UserPull
  <2>1. PICK b \in Branch, h \in Promise!Known : local' = [local EXCEPT ![b] = @ \cup h]
    <3>1. CASE UserPull
      <4>1. remote[upstream[head]] \in Promise!Known /\ head \in Branch
        BY <1>0, <3>1 DEF UserPull, TypeOK, Promise!Known
      <4>2. local' = [local EXCEPT ![head] = @ \cup remote[upstream[head]]]
        BY <3>1 DEF UserPull
      <4>3. QED
        BY <4>1, <4>2
    <3>2. CASE UserSwitch
      <4>1. PICK b \in Branch \ {head} :
              local' = [local EXCEPT ![b] = IF @ = {} THEN local[head] ELSE @]
        BY <3>2 DEF UserSwitch
      <4>2. local[head] \in Promise!Known /\ local[b] \in Promise!Known
        BY <1>0 DEF TypeOK, Promise!Known
      <4>3. CASE local[b] = {}
        <5>1. local' = [local EXCEPT ![b] = @ \cup local[head]]
          BY <1>0, <4>1, <4>3 DEF TypeOK
        <5>2. QED
          BY <4>2, <5>1
      <4>4. CASE local[b] # {}
        <5>1. local' = [local EXCEPT ![b] = @ \cup local[b]]
          BY <1>0, <4>1, <4>4 DEF TypeOK
        <5>2. QED
          BY <4>2, <5>1
      <4>5. QED
        BY <4>3, <4>4
    <3>3. QED
      BY <1>5, <3>1, <3>2
  <2>2. UNCHANGED <<used, Pending, remote, madeOn>>
    BY <1>5 DEF UserSwitch, UserPull, Pending
  <2>3. QED
    BY <1>1, <2>1, <2>2 DEF Promise!Join, Promise!UserStep
<1>6. CASE UserReset
  <2>1. PICK b \in Branch :
          \E h \in {local[b], remote[b]} : local' = [local EXCEPT ![head] = h]
    BY <1>6 DEF UserReset
  <2>2. PICK h \in Promise!Known : local' = [local EXCEPT ![head] = h]
    BY <2>1 DEF Promise!Known
  <2>3. /\ madeOn' = [p \in Proc |-> IF madeOn[p] = head THEN NoUpstream ELSE madeOn[p]]
        /\ UNCHANGED <<used, Pending, remote>>
    BY <1>6 DEF UserReset, Pending
  <2>4. QED
    BY <1>0, <1>1, <2>2, <2>3 DEF TypeOK, Promise!Rewrite, Promise!UserStep
<1>7. CASE UserPublish
  <2>1. PICK b \in Branch :
          /\ remote[b] \subseteq local[head]
          /\ remote' = [remote EXCEPT ![b] = local[head]]
    BY <1>7 DEF UserPublish
  <2>2. Promise!Advance(b, head) /\ head \in Branch /\ UNCHANGED madeOn
    BY <1>0, <1>7, <2>1 DEF UserPublish, TypeOK, Pending, Promise!Advance
  <2>3. QED
    BY <1>1, <2>2 DEF Promise!Publish, Promise!UserStep
<1>8. CASE TeammatePush
  BY <1>1, <1>8 DEF TeammatePush, Pending, Promise!Teammate, Promise!UserStep
<1>9. QED
  BY <1>2, <1>3, <1>4, <1>5, <1>6, <1>7, <1>8 DEF UserStep

\* What the users see is well typed: only edits that were made wait or are
\* recorded, in the clone as on the remote.
LEMMA PromiseTyped == Spec => []Promise!TypeOK
<1>1. ASSUME IndInv PROVE Promise!TypeOK
  <2>1. TypeOK /\ EditsApart /\ \A p \in Proc : RunOK(p)
    BY <1>1 DEF IndInv
  <2>2. used \subseteq Edit /\ Pending \subseteq used
    BY <2>1 DEF TypeOK, EditsApart, Pending
  <2>3. \A b \in Branch : local[b] \cup remote[b] \subseteq AllCommits
    BY <2>1 DEF TypeOK, AllCommits
  <2>4. AllCommits \subseteq Promise!Commits
    BY <2>1 DEF EditsApart, AllCommits, Commit, Promise!Commits
  <2>5. /\ local \in [Branch -> SUBSET Promise!Commits]
        /\ remote \in [Branch -> SUBSET Promise!Commits]
    BY <2>1, <2>3, <2>4 DEF TypeOK
  <2>6. made \in [Proc -> SUBSET used]
    <3>1. ASSUME NEW p \in Proc PROVE made[p] \subseteq used
      <4>1. made[p] # {} => made[p] \in AllCommits
        BY <2>1 DEF TypeOK, AllCommits, Commit
      <4>2. QED
        BY <2>1, <4>1 DEF EditsApart
    <3>2. QED
      BY <2>1, <3>1 DEF TypeOK
  <2>7. Goal \in [Proc -> Branch \cup {NoUpstream}]
    BY <2>1 DEF Goal, RunOK
  <2>8. Claimed \in [Proc -> Promise!Claim]
    BY DEF Claimed, Promise!Claim
  <2>9. QED
    BY <2>1, <2>2, <2>5, <2>6, <2>7, <2>8 DEF TypeOK, Promise!TypeOK
<1>2. QED
  BY <1>1, Invariant, PTL

\* handle_send and handle_status keep the promise of Delivery, with any number
\* of edits, branches and runs, and whatever the users do with git meanwhile:
\* a run says "sent" in no other step than the one that makes the branch it
\* asked about the same on the remote as in the clone, with its own commit if
\* that was made there.
THEOREM KeepsPromise == Spec => RefinesDelivery
<1>1. IndInv /\ [Next]_vars => [Promise!Next]_(Promise!vars)
  <2>1. ASSUME IndInv, UNCHANGED vars
        PROVE  UNCHANGED Promise!vars
    BY <2>1 DEF vars, gitVars, runVars, histVars, Promise!vars, Promise!runVars,
       Pending, Goal, Claimed
  <2>2. ASSUME IndInv, NEW p \in Proc, ProcStep(p)
        PROVE  [Promise!Next]_(Promise!vars)
    BY <2>2, ProcStepPromise DEF Promise!Next
  <2>3. ASSUME IndInv, UserStep
        PROVE  [Promise!Next]_(Promise!vars)
    BY <2>3, UserStepPromise DEF Promise!Next
  <2>4. QED
    BY <2>1, <2>2, <2>3 DEF Next, ProcStep
<1>2. QED
  BY <1>1, PromiseInit, Invariant, PTL DEF Spec, RefinesDelivery, Promise!Spec
-----------------------------------------------------------------------------
(***************************************************************************)
(* A run is finite                                                         *)
(***************************************************************************)
\* The calls of git and the answer that a run still has before it.
Left ==
  [idle |-> 0, push |-> 1, prompt |-> 2, upstream |-> 3, commit |-> 4, add |-> 5]

\* A step of a run that has started brings its end nearer, and no step of
\* anybody else moves it: without the fairness that ReturnsOrAsks assumes, a run
\* can stop, but it cannot go round in circles.
EndComesNearer ==
  [][\A p \in Proc :
       /\ RunStep(p) => Left[pc'[p]] < Left[pc[p]]
       /\ pc[p] # "idle" /\ pc'[p] # pc[p] => Left[pc'[p]] < Left[pc[p]]]_vars

\* The steps of one run.
LEMMA ProcStepNearer ==
  ASSUME TypeOK, NEW p \in Proc, ProcStep(p), NEW q \in Proc
  PROVE  /\ RunStep(p) => Left[pc'[p]] < Left[pc[p]]
         /\ pc[q] # "idle" /\ pc'[q] # pc[q] => Left[pc'[q]] < Left[pc[q]]
<1>1. pc[p] \in Step \cup {"idle"}
  BY DEF TypeOK
<1>2. RunStep(p) \/ Confirm(p) \/ Decline(p)
        => pc[p] # "idle" /\ Left[pc'[p]] < Left[pc[p]]
  BY <1>1 DEF TypeOK, Step, Left, RunStep, GitAdd, AddFails, GitCommit,
     CommitNothing, CommitFails, FindUpstream, FindUpstreamFails, GitPush,
     PushFails, Confirm, Decline, Goto, Return
<1>3. pc[p] # "idle" /\ Crash(p) => Left[pc'[p]] < Left[pc[p]]
  BY <1>1 DEF TypeOK, Step, Left, Crash, Return
<1>4. Start(p) \/ HandleStatus(p) => pc[p] = "idle"
  BY DEF Start, HandleStatus
<1>5. \A r \in Proc : r # p => pc'[r] = pc[r]
  BY DEF TypeOK, ProcStep, RunStep, GitAdd, AddFails, GitCommit, CommitNothing,
     CommitFails, FindUpstream, FindUpstreamFails, GitPush, PushFails, Confirm,
     Decline, Start, HandleStatus, Crash, Goto, Return
<1>6. QED
  BY <1>2, <1>3, <1>4, <1>5 DEF ProcStep

\* The safety half of ReturnsOrAsks, for any number of runs and users: each of
\* the at most five steps of a run (handle_send) leaves fewer to be done.
THEOREM Finite == Spec => EndComesNearer
<1>1. ASSUME IndInv, [Next]_vars
      PROVE  [\A p \in Proc :
                /\ RunStep(p) => Left[pc'[p]] < Left[pc[p]]
                /\ pc[p] # "idle" /\ pc'[p] # pc[p]
                     => Left[pc'[p]] < Left[pc[p]]]_vars
  <2>1. TypeOK
    BY <1>1 DEF IndInv
  <2>2. ASSUME NEW p \in Proc, RunStep(p)
        PROVE  Left[pc'[p]] < Left[pc[p]]
    BY <2>1, <2>2, ProcStepNearer DEF ProcStep
  <2>3. ASSUME UserStep \/ UNCHANGED vars
        PROVE  UNCHANGED pc
    BY <2>3 DEF vars, runVars, UserStep, UserEdit, UserStage, UserUnstage,
       UserCommit, UserSwitch, UserReset, UserPull, UserPublish, UserTrack,
       TeammatePush
  <2>4. ASSUME NEW q \in Proc, pc[q] # "idle", pc'[q] # pc[q]
        PROVE  Left[pc'[q]] < Left[pc[q]]
    BY <1>1, <2>1, <2>3, <2>4, ProcStepNearer DEF Next, ProcStep
  <2>5. QED
    BY <2>2, <2>4
<1>2. QED
  BY <1>1, Invariant, PTL DEF Spec, EndComesNearer
=============================================================================
