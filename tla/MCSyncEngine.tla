---------------------------- MODULE MCSyncEngine ----------------------------
(***************************************************************************)
(* TLC instances of SyncEngine.                                            *)
(***************************************************************************)
EXTENDS SyncSafety, TLC

\* Every repository is a clone of one upstream.
SharedRemote == [r \in Repo |-> CHOOSE o \in Remote : TRUE]

\* Both directions between different repositories.
DistinctArgs == {a \in Repo \X Repo : a[1] # a[2]}

\* All runs have the same source and the same target.
OneWay == {CHOOSE a \in DistinctArgs : TRUE}

\* The identities of commits, repositories and runs do not matter.
\* The roles of the repositories differ where only one of them is a source.
CommitSymmetry == Permutations(Commit) \cup Permutations(Proc)

Symmetric ==
  Permutations(Commit) \cup Permutations(Repo) \cup Permutations(Proc)
=============================================================================
