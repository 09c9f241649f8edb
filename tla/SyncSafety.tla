----------------------------- MODULE SyncSafety -----------------------------
(***************************************************************************)
(* What `sync-run` must and must not do: the properties of SyncEngine.     *)
(***************************************************************************)
EXTENDS SyncEngine

HasVerdict(p) == result[p] \in Verdict

\* The relation of two heads in the commit graph, independent of any base.
TrueVerdict(s, t) ==
  IF s = t THEN "in_sync"
  ELSE IF t \in anc[s] THEN "source_ahead"
  ELSE IF s \in anc[t] THEN "target_ahead"
  ELSE "diverged"

BothHaveUniqueCommits(s, t) == Ahead(s, t) # {} /\ Ahead(t, s) # {}

(***************************************************************************)
(* Properties the code has.                                                *)
(***************************************************************************)

\* A first run, which finds no state file, decides exactly as the commit graph
\* says: in sync iff the heads are equal, ahead iff the other head can be
\* fast-forwarded, diverged iff both have commits of their own.  Users may
\* move the branches meanwhile: the verdict is about the heads as read
\* (SyncEngine::run and the merge-base branch of find_sync_base).
FirstRunVerdictExact ==
  \A p \in Proc :
    HasVerdict(p) /\ saved[p].kind = "absent"
      => result[p] = TrueVerdict(sHead[p], tHead[p])

\* The same for every run, resumed ones included, whose base is a merge base
\* of the heads: the comparison of each head with the base alone (the two
\* graph_ahead_behind calls of run) is enough, and only the choice of the base
\* can make a verdict wrong.
VerdictExactOnTrueBase ==
  \A p \in Proc :
    HasVerdict(p) /\ base[p] \in MergeBases(sHead[p], tHead[p])
      => result[p] = TrueVerdict(sHead[p], tHead[p])

\* A state file that does not parse is being written by a run right now, or was
\* left so by a run that crashed or failed in save_state after the file was last
\* truncated.  Concurrent runs that all complete never leave a torn file behind,
\* not even after an earlier crash.
TornOnlyByUnfinishedSave ==
  \A r \in Repo :
    file[r].kind = "torn"
      => \/ interrupted[r]
         \/ \E p \in Proc : src[p] = r /\ pc[p] = "write"

\* This step is one of p saving the head h that advanced alone.
SavesAdvance(p, r) ==
  /\ src[p] = r
  /\ pc[p] \in {"truncate", "write"}
  /\ \E h, other \in {sHead[p], tHead[p]} :
       /\ Ahead(h, base[p]) # {}
       /\ Ahead(other, base[p]) = {}
       /\ file'[r] \in {TornState, SyncState("valid", h, h)}

\* The state file changes only on its way to the head h of a run that has
\* commits since the base, while the other head of that run has none: a run
\* that diverged, is in sync or failed leaves the file as it was.
SaveOnlyOneSidedAdvance ==
  [][\A r \in Repo :
       file'[r] # file[r] => UserRemovesState(r) \/ \E p \in Proc : SavesAdvance(p, r)]_vars

\* A run that returns Success to the core was in sync and leaves the state file
\* alone, or leaves it whole in the very step of its return, holding the head
\* that it found alone ahead, whatever another run wrote or truncated meanwhile;
\* a divergence and every failing step, save_state's included, is an error of
\* module_exec.
SuccessMeansSaved ==
  [][\A p \in Proc :
       pc[p] # "idle" /\ pc'[p] = "idle" /\ ExitStatus(result'[p]) = "Success"
         => \/ ~SourceAhead(p) /\ ~TargetAhead(p) /\ file' = file
            \/ \E h, other \in {sHead[p], tHead[p]} :
                 /\ Ahead(h, base[p]) # {} /\ Ahead(other, base[p]) = {}
                 /\ file'[src[p]] = SyncState("valid", h, h)]_vars

\* Every started run returns: no step of run waits for another process.
RunReturns ==
  \A p \in Proc : pc[p] # "idle" ~> pc[p] = "idle"

(***************************************************************************)
(* The inductive invariant behind the safety properties.                   *)
(***************************************************************************)

\* Ancestor sets are reflexive, closed, and form a partial order.
GraphOK ==
  /\ \A c \in Created : c \in anc[c]
  /\ \A c \in Commit : \A d \in anc[c] : d \in Created /\ anc[d] \subseteq anc[c]
  /\ \A c, d \in Commit : c \in anc[d] /\ d \in anc[c] => c = d

\* Branches and object databases name commits that were created.
RefsOK ==
  \A r \in Repo : odb[r] \subseteq Created /\ main[r] \in Created \cup {NoCommit}

\* A saved pair is one commit twice: save_state is only called after both
\* components were set to the same head.
SavedOnce(f) == f.kind = "valid" => f.s = f.t /\ f.s \in Created

SavedOK ==
  /\ \A r \in Repo : SavedOnce(file[r])
  /\ \A p \in Proc : SavedOnce(saved[p])

\* What a run knows at each of its steps.
HeadsRead(p) == {sHead[p], tHead[p]} \subseteq Created

BaseFound(p) ==
  /\ HeadsRead(p)
  /\ base[p] \in Created
  /\ saved[p].kind = "absent" => base[p] \in MergeBases(sHead[p], tHead[p])

RunOK(p) ==
  /\ pc[p] # "idle" => saved[p].kind # "torn"
  /\ pc[p] \in Step \ {"truncate", "write"} => result[p] = "none"
  /\ pc[p] = "read_target" => sHead[p] \in Created
  /\ pc[p] = "find_base" => HeadsRead(p)
  /\ pc[p] = "compare" => BaseFound(p)
  /\ HasVerdict(p) => BaseFound(p) /\ result[p] = Decision(p)
  /\ pc[p] \in {"truncate", "write"} => result[p] \in OneSided

\* Everything the safety proofs need of a reachable state.
IndInv ==
  /\ TypeOK
  /\ GraphOK
  /\ RefsOK
  /\ SavedOK
  /\ \A p \in Proc : RunOK(p)
  /\ TornOnlyByUnfinishedSave

(***************************************************************************)
(* What the documentation and the comments say, and the code does not do.  *)
(***************************************************************************)

\* docs/user-guide/getting-started.md: sync-run "detects if the branches have
\* diverged (both have unique commits)".
DivergenceReported ==
  \A p \in Proc :
    HasVerdict(p) /\ BothHaveUniqueCommits(sHead[p], tHead[p])
      => result[p] = "diverged"

\* src/modules/sync_engine/src/sync.rs, the comment on find_sync_base: if the
\* saved commits cannot be found, a new merge base is calculated from the
\* current heads.  Each base that a resumed run may take while its saved commit
\* is not in the source repository is then one of the two heads.
FallsBackToHeads ==
  \A p \in Proc :
    pc[p] = "find_base" /\ saved[p].kind = "valid" /\ saved[p].s \notin odb[src[p]]
      => SyncBases(p) \subseteq MergeBaseIn(src[p], sHead[p], tHead[p])
=============================================================================
