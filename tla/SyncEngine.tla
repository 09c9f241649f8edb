----------------------------- MODULE SyncEngine -----------------------------
(***************************************************************************)
(* The bi-directional synchronisation of two git repositories: the command *)
(* `sync-run <source> <target>` of the sync_engine module                  *)
(* (src/modules/sync_engine/src/sync.rs).                                  *)
(*                                                                         *)
(* A process is one run of phgit executing `sync-run`.  It fetches both    *)
(* repositories, reads the head of the local branch main in each, finds a  *)
(* base commit (the pair saved by an earlier run, or the merge base of the *)
(* two heads), compares each head with the base, and on a one-sided        *)
(* advance records the advanced head in the state file of the source.  The *)
(* propagation of commits itself is a TODO in the code: no head moves.     *)
(*                                                                         *)
(* Around the processes are the users of the repositories, who commit,     *)
(* merge, reset, fetch, push and collect garbage at any time, and the      *)
(* operating system, which can end a process between any two steps.        *)
(*                                                                         *)
(* A commit is an abstract identifier.  The commit graph is kept as the    *)
(* reflexive ancestor set of every commit, which is fixed when the commit  *)
(* is created, so that no definition needs recursion over the graph.       *)
(***************************************************************************)
EXTENDS FiniteSets

CONSTANTS
  Commit,     \* identifiers of commits: bounds how many are ever created
  Repo,       \* local repositories
  Remote,     \* the repositories behind the remotes called "origin"
  RemoteOf,   \* RemoteOf[r] is the origin of the local repository r
  Proc,       \* concurrent executions of `sync-run`
  Args,       \* the pairs <<source, target>> that runs are started with
  UserOps,    \* what the users do, of AllUserOps: bounds the environment
  NoCommit    \* the value of a branch that does not exist

ASSUME RemoteAssumption == RemoteOf \in [Repo -> Remote]
ASSUME ArgsAssumption == Args \subseteq Repo \X Repo
ASSUME NoCommitAssumption == NoCommit \notin Commit

AllUserOps == {"commit", "merge", "reset", "fetch", "push", "gc", "remove"}
ASSUME UserOpsAssumption == UserOps \subseteq AllUserOps

VARIABLES
  anc,          \* anc[c]: c and all its ancestors, {} when c is not created
  odb,          \* odb[r]: commits in the object database of repository r
  main,         \* main[r]: head of the local branch main of r
  tracking,     \* tracking[r]: refs/remotes/origin/main of r
  origin,       \* origin[o]: branch main of the remote o
  file,         \* file[r]: r/.git/phgit_sync_state.json
  interrupted,  \* history: since the last write to file[r], a writer stopped half-way
  pc,           \* pc[p]: what process p does next
  src, dst,     \* src[p], dst[p]: the two arguments of the run
  saved,        \* saved[p]: SyncEngine.state as loaded
  sHead, tHead, \* source_head and target_head
  base,         \* base_oid
  result        \* the outcome of the run, once it is known

repoVars == <<anc, odb, main, tracking, origin>>
fileVars == <<file, interrupted>>
argVars  == <<src, dst, saved>>
headVars == <<sHead, tHead>>
vars == <<repoVars, fileVars, pc, argVars, headVars, base, result>>

(***************************************************************************)
(* The commit graph                                                        *)
(***************************************************************************)
Created == {c \in Commit : anc[c] # {}}
Fresh   == Commit \ Created

Tip == Commit \cup {NoCommit}

\* Ancestors of a branch tip; a branch that does not exist has none.
History(c) == IF c = NoCommit THEN {} ELSE anc[c]

\* The best common ancestors of c and d: git2's merge_base returns one of them.
MergeBases(c, d) ==
  {b \in anc[c] \cap anc[d] :
     \A x \in anc[c] \cap anc[d] : b \in anc[x] => x = b}

\* Commits of c that are not in the history of b: the first component of
\* git2's graph_ahead_behind(c, b) is their number.
Ahead(c, b) == anc[c] \ anc[b]

(***************************************************************************)
(* The state file: SyncState as JSON.  "torn" is a file that was truncated *)
(* and not (completely) written, which serde_json refuses.                 *)
(***************************************************************************)
SyncState(kind, s, t) == [kind |-> kind, s |-> s, t |-> t]
DefaultState == SyncState("absent", NoCommit, NoCommit)
TornState    == SyncState("torn", NoCommit, NoCommit)
StateFile    == [kind : {"absent", "torn", "valid"}, s : Tip, t : Tip]

Verdict == {"in_sync", "source_ahead", "target_ahead", "diverged"}
Failure == {"rejected", "bad_state", "fetch_error", "no_main", "no_base",
            "missing_base", "save_error", "crashed"}
Step    == {"fetch_source", "fetch_target", "read_source", "read_target",
            "find_base", "compare", "truncate", "write"}

TypeOK ==
  /\ anc \in [Commit -> SUBSET Commit]
  /\ odb \in [Repo -> SUBSET Commit]
  /\ main \in [Repo -> Tip]
  /\ tracking \in [Repo -> Tip]
  /\ origin \in [Remote -> Tip]
  /\ file \in [Repo -> StateFile]
  /\ interrupted \in [Repo -> BOOLEAN]
  /\ pc \in [Proc -> Step \cup {"idle"}]
  /\ src \in [Proc -> Repo]
  /\ dst \in [Proc -> Repo]
  /\ saved \in [Proc -> StateFile]
  /\ sHead \in [Proc -> Tip]
  /\ tHead \in [Proc -> Tip]
  /\ base \in [Proc -> Tip]
  /\ result \in [Proc -> Verdict \cup Failure \cup {"none"}]

Init ==
  /\ anc = [c \in Commit |-> {}]
  /\ odb = [r \in Repo |-> {}]
  /\ main = [r \in Repo |-> NoCommit]
  /\ tracking = [r \in Repo |-> NoCommit]
  /\ origin = [o \in Remote |-> NoCommit]
  /\ file = [r \in Repo |-> DefaultState]
  /\ interrupted = [r \in Repo |-> FALSE]
  /\ pc = [p \in Proc |-> "idle"]
  /\ src \in [Proc -> Repo]
  /\ dst = src
  /\ saved = [p \in Proc |-> DefaultState]
  /\ sHead = [p \in Proc |-> NoCommit]
  /\ tHead = [p \in Proc |-> NoCommit]
  /\ base = [p \in Proc |-> NoCommit]
  /\ result = [p \in Proc |-> "none"]
-----------------------------------------------------------------------------
(***************************************************************************)
(* The run of one process.                                                 *)
(***************************************************************************)
Goto(p, from, to) == pc[p] = from /\ pc' = [pc EXCEPT ![p] = to]

\* The run ends with outcome res.
Return(p, res) ==
  /\ pc' = [pc EXCEPT ![p] = "idle"]
  /\ result' = [result EXCEPT ![p] = res]

\* The phgitStatus that module_exec makes of the Result of the command: the run
\* that finds a divergence returns it as an error.
ExitStatus(res) ==
  IF res \in Verdict \ {"diverged"} THEN "Success"
  ELSE IF res \in {"none", "crashed"} THEN "none"
  ELSE "ErrorExecFailed"

\* handle_run_sync and SyncEngine::new: both repositories open and the state
\* file, if there is one, is read and parsed.
New(p, s, t) ==
  /\ pc[p] = "idle"
  /\ src' = [src EXCEPT ![p] = s]
  /\ dst' = [dst EXCEPT ![p] = t]
  /\ saved' = [saved EXCEPT ![p] = file[s]]
  /\ sHead' = [sHead EXCEPT ![p] = NoCommit]
  /\ tHead' = [tHead EXCEPT ![p] = NoCommit]
  /\ base' = [base EXCEPT ![p] = NoCommit]
  /\ \/ /\ file[s].kind # "torn"
        /\ pc' = [pc EXCEPT ![p] = "fetch_source"]
        /\ result' = [result EXCEPT ![p] = "none"]
     \/ file[s].kind = "torn" /\ Return(p, "bad_state")
     \/ Return(p, "rejected")    \* wrong arguments, or a repository does not open
  /\ UNCHANGED <<repoVars, fileVars>>

\* fetch_repo: the remote's main and its history enter the object database and
\* the remote-tracking branch follows; the local branch main does not move.  A
\* remote without main has nothing to fetch.
FetchRepo(p, from, r, to) ==
  /\ Goto(p, from, to)
  /\ odb' = [odb EXCEPT ![r] = @ \cup History(origin[RemoteOf[r]])]
  /\ tracking' = [tracking EXCEPT ![r] = IF origin[RemoteOf[r]] = NoCommit THEN @
                                        ELSE origin[RemoteOf[r]]]
  /\ UNCHANGED <<anc, main, origin, fileVars, argVars, headVars, base, result>>

FetchSource(p) == FetchRepo(p, "fetch_source", src[p], "fetch_target")
FetchTarget(p) == FetchRepo(p, "fetch_target", dst[p], "read_source")

\* No remote called origin, or the fetch fails: the run ends at the `?`.
FetchFails(p) ==
  /\ pc[p] \in {"fetch_source", "fetch_target"}
  /\ Return(p, "fetch_error")
  /\ UNCHANGED <<repoVars, fileVars, argVars, headVars, base>>

ReadSource(p) ==
  /\ main[src[p]] # NoCommit
  /\ Goto(p, "read_source", "read_target")
  /\ sHead' = [sHead EXCEPT ![p] = main[src[p]]]
  /\ UNCHANGED <<repoVars, fileVars, argVars, tHead, base, result>>

ReadTarget(p) ==
  /\ main[dst[p]] # NoCommit
  /\ Goto(p, "read_target", "find_base")
  /\ tHead' = [tHead EXCEPT ![p] = main[dst[p]]]
  /\ UNCHANGED <<repoVars, fileVars, argVars, sHead, base, result>>

\* find_branch("main") fails: the branch does not exist.
ReadFails(p) ==
  /\ \/ pc[p] = "read_source" /\ main[src[p]] = NoCommit
     \/ pc[p] = "read_target" /\ main[dst[p]] = NoCommit
  /\ Return(p, "no_main")
  /\ UNCHANGED <<repoVars, fileVars, argVars, headVars, base>>

\* Mutant of MergeBaseIn: any common ancestor is taken for a merge base.
AnyCommonAncestor(r, c, d) ==
  IF {c, d} \subseteq odb[r] THEN anc[c] \cap anc[d] ELSE {}

\* What git2's merge_base(c, d) can return in repository r.  Two equal
\* arguments are their own merge base and are not looked up; otherwise both
\* must be in the object database.  No result is an error.
MergeBaseIn(r, c, d) ==
  IF c = d THEN {c}
  ELSE IF {c, d} \subseteq odb[r] THEN MergeBases(c, d) ELSE {}

\* find_sync_base: the saved pair when there is one, else the two heads;
\* either way the lookup is made in the source repository.
SyncBases(p) ==
  IF saved[p].kind = "valid"
  THEN MergeBaseIn(src[p], saved[p].s, saved[p].t)
  ELSE MergeBaseIn(src[p], sHead[p], tHead[p])

FindSyncBase(p) ==
  /\ Goto(p, "find_base", "compare")
  /\ \E b \in SyncBases(p) : base' = [base EXCEPT ![p] = b]
  /\ UNCHANGED <<repoVars, fileVars, argVars, headVars, result>>

FindSyncBaseFails(p) ==
  /\ pc[p] = "find_base"
  /\ SyncBases(p) = {}
  /\ Return(p, "no_base")
  /\ UNCHANGED <<repoVars, fileVars, argVars, headVars, base>>

\* graph_ahead_behind(head, base) in repository r needs both commits there,
\* unless they are the same commit.
Comparable(r, head, b) == head = b \/ {head, b} \subseteq odb[r]

CanCompare(p) ==
  /\ Comparable(src[p], sHead[p], base[p])
  /\ Comparable(dst[p], tHead[p], base[p])

\* Mutant of TargetAhead: the two components of the answer are swapped.
TargetBehind(p) == Ahead(base[p], tHead[p]) # {}

SourceAhead(p) == Ahead(sHead[p], base[p]) # {}
TargetAhead(p) == Ahead(tHead[p], base[p]) # {}

\* The four branches of the decision; the two one-sided ones go on to save
\* the advanced head, without having applied any commit.
Decision(p) ==
  IF SourceAhead(p) /\ TargetAhead(p) THEN "diverged"
  ELSE IF SourceAhead(p) THEN "source_ahead"
  ELSE IF TargetAhead(p) THEN "target_ahead"
  ELSE "in_sync"

\* Mutant of OneSided: the warning about divergence does not end the run.
NotInSync == {"source_ahead", "target_ahead", "diverged"}

OneSided == {"source_ahead", "target_ahead"}

Compare(p) ==
  /\ pc[p] = "compare"
  /\ CanCompare(p)
  /\ result' = [result EXCEPT ![p] = Decision(p)]
  /\ pc' = [pc EXCEPT ![p] = IF Decision(p) \in OneSided THEN "truncate" ELSE "idle"]
  /\ UNCHANGED <<repoVars, fileVars, argVars, headVars, base>>

\* Mutant of CompareFails: the run fetches again, in the hope of the base.
FetchAgain(p) ==
  /\ Goto(p, "compare", "fetch_source")
  /\ ~CanCompare(p)
  /\ UNCHANGED <<repoVars, fileVars, argVars, headVars, base, result>>

CompareFails(p) ==
  /\ pc[p] = "compare"
  /\ ~CanCompare(p)
  /\ Return(p, "missing_base")
  /\ UNCHANGED <<repoVars, fileVars, argVars, headVars, base>>

\* Mutant of NewHead: the outcome is saved in place of the head.
OutcomeAsHead(p) == result[p]

\* The head that both components of the new state are set to.
NewHead(p) == IF result[p] = "source_ahead" THEN sHead[p] ELSE tHead[p]

\* save_state is fs::write: the file is created or truncated, then written.
Truncate(p) ==
  /\ Goto(p, "truncate", "write")
  /\ file' = [file EXCEPT ![src[p]] = TornState]
  /\ interrupted' = [interrupted EXCEPT ![src[p]] = FALSE]
  /\ UNCHANGED <<repoVars, argVars, headVars, base, result>>

\* Mutant of Write: the buffered content is never flushed.
WriteNothing(p) ==
  /\ Goto(p, "write", "idle")
  /\ UNCHANGED <<repoVars, fileVars, argVars, headVars, base, result>>

Write(p) ==
  /\ Goto(p, "write", "idle")
  /\ file' = [file EXCEPT ![src[p]] = SyncState("valid", NewHead(p), NewHead(p))]
  /\ interrupted' = [interrupted EXCEPT ![src[p]] = FALSE]
  /\ UNCHANGED <<repoVars, argVars, headVars, base, result>>

\* Mutant of SaveFails: the Result of save_state is dropped.
SaveErrorDropped(p) ==
  /\ pc[p] \in {"truncate", "write"}
  /\ interrupted' =
       [interrupted EXCEPT ![src[p]] = @ \/ pc[p] = "write"]
  /\ Return(p, result[p])
  /\ UNCHANGED <<repoVars, file, argVars, headVars, base>>

\* The file cannot be opened, or the write fails after the truncation.
SaveFails(p) ==
  /\ pc[p] \in {"truncate", "write"}
  /\ interrupted' =
       [interrupted EXCEPT ![src[p]] = @ \/ pc[p] = "write"]
  /\ Return(p, "save_error")
  /\ UNCHANGED <<repoVars, file, argVars, headVars, base>>

\* The process is killed or the machine stops.
Crash(p) ==
  /\ pc[p] # "idle"
  /\ interrupted' =
       [interrupted EXCEPT ![src[p]] = @ \/ pc[p] = "write"]
  /\ Return(p, "crashed")
  /\ UNCHANGED <<repoVars, file, argVars, headVars, base>>

\* One step of a run that was started.
RunStep(p) ==
  \/ FetchSource(p) \/ FetchTarget(p) \/ FetchFails(p)
  \/ ReadSource(p) \/ ReadTarget(p) \/ ReadFails(p)
  \/ FindSyncBase(p) \/ FindSyncBaseFails(p)
  \/ Compare(p) \/ CompareFails(p)
  \/ Truncate(p) \/ Write(p) \/ SaveFails(p)
-----------------------------------------------------------------------------
(***************************************************************************)
(* The users of the repositories, through git itself.                      *)
(***************************************************************************)
runVars == <<pc, argVars, headVars, base, result>>

\* A new commit with the given history on top of branch main of r.
NewCommit(r, parents) ==
  \E c \in Fresh :
    /\ anc' = [anc EXCEPT ![c] = {c} \cup parents]
    /\ odb' = [odb EXCEPT ![r] = @ \cup {c}]
    /\ main' = [main EXCEPT ![r] = c]
    /\ UNCHANGED <<tracking, origin, fileVars, runVars>>

UserCommit(r) ==
  /\ "commit" \in UserOps
  /\ NewCommit(r, History(main[r]))

UserMerge(r) ==
  /\ "merge" \in UserOps
  /\ \E c \in odb[r] :
       /\ main[r] # NoCommit
       /\ c \notin anc[main[r]]
       /\ main[r] \notin anc[c]
       /\ NewCommit(r, anc[main[r]] \cup anc[c])

\* git reset, a fast-forward pull or a rebase onto an existing commit.
UserReset(r) ==
  /\ "reset" \in UserOps
  /\ \E c \in odb[r] : main' = [main EXCEPT ![r] = c]
  /\ UNCHANGED <<anc, odb, tracking, origin, fileVars, runVars>>

\* git fetch <path of q> main: what a user does to carry commits over by hand.
UserFetch(r, q) ==
  /\ "fetch" \in UserOps
  /\ odb' = [odb EXCEPT ![r] = @ \cup History(main[q])]
  /\ UNCHANGED <<anc, main, tracking, origin, fileVars, runVars>>

\* git push origin main: fast-forward only.
UserPush(r) ==
  /\ "push" \in UserOps
  /\ main[r] # NoCommit
  /\ History(origin[RemoteOf[r]]) \subseteq anc[main[r]]
  /\ origin' = [origin EXCEPT ![RemoteOf[r]] = main[r]]
  /\ tracking' = [tracking EXCEPT ![r] = main[r]]
  /\ UNCHANGED <<anc, odb, main, fileVars, runVars>>

\* git gc after the reflog expired: unreachable commits disappear.
UserGC(r) ==
  /\ "gc" \in UserOps
  /\ odb' = [odb EXCEPT ![r] = History(main[r]) \cup History(tracking[r])]
  /\ UNCHANGED <<anc, main, tracking, origin, fileVars, runVars>>

\* A torn state file is deleted by hand: the only way out of it.
UserRemovesState(r) ==
  /\ "remove" \in UserOps
  /\ file[r].kind = "torn"
  /\ file' = [file EXCEPT ![r] = DefaultState]
  /\ interrupted' = [interrupted EXCEPT ![r] = FALSE]
  /\ UNCHANGED <<repoVars, runVars>>

UserStep(r) ==
  \/ UserCommit(r) \/ UserMerge(r) \/ UserReset(r)
  \/ \E q \in Repo : UserFetch(r, q)
  \/ UserPush(r) \/ UserGC(r) \/ UserRemovesState(r)
-----------------------------------------------------------------------------
Next ==
  \/ \E p \in Proc, a \in Args : New(p, a[1], a[2])
  \/ \E p \in Proc : RunStep(p) \/ Crash(p)
  \/ \E r \in Repo : UserStep(r)

Spec == Init /\ [][Next]_vars

\* A started run is scheduled: libgit2's calls return, with or without error.
FairSpec == Spec /\ \A p \in Proc : WF_vars(RunStep(p))
=============================================================================
