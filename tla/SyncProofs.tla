----------------------------- MODULE SyncProofs -----------------------------
(***************************************************************************)
(* Proofs about sync-run for any number of commits, repositories and       *)
(* concurrent runs.                                                        *)
(***************************************************************************)
EXTENDS SyncSafety, Naturals, TLAPS

(***************************************************************************)
(* Facts about the commit graph                                            *)
(***************************************************************************)

\* When the base is a merge base of the two heads, comparing each head with
\* the base alone tells the relation of the heads: Compare's decision is right.
LEMMA MergeBaseDecides ==
  ASSUME GraphOK, NEW s \in Created, NEW t \in Created, NEW b \in MergeBases(s, t)
  PROVE  /\ Ahead(s, b) = {} <=> s \in anc[t]
         /\ Ahead(t, b) = {} <=> t \in anc[s]
<1>0. s \in Commit /\ t \in Commit /\ s \in anc[s] /\ t \in anc[t]
  BY DEF GraphOK, Created
<1>1. b \in anc[s] /\ b \in anc[t]
  BY DEF MergeBases
<1>2. \A x \in anc[s] \cap anc[t] : b \in anc[x] => x = b
  BY DEF MergeBases
<1>3. b \in Commit /\ anc[b] \subseteq anc[s] /\ anc[b] \subseteq anc[t]
  BY <1>0, <1>1 DEF GraphOK, Created
<1>4. ASSUME Ahead(s, b) = {} PROVE s \in anc[t]
  BY <1>0, <1>3, <1>4 DEF Ahead
<1>5. ASSUME Ahead(t, b) = {} PROVE t \in anc[s]
  BY <1>0, <1>3, <1>5 DEF Ahead
<1>6. ASSUME s \in anc[t] PROVE Ahead(s, b) = {}
  BY <1>0, <1>1, <1>2, <1>6 DEF Ahead
<1>7. ASSUME t \in anc[s] PROVE Ahead(t, b) = {}
  BY <1>0, <1>1, <1>2, <1>7 DEF Ahead
<1>8. QED
  BY <1>4, <1>5, <1>6, <1>7

\* Two distinct commits are not both in the history of the other.
LEMMA MergeBaseVerdict ==
  ASSUME GraphOK, NEW p \in Proc, HeadsRead(p),
         base[p] \in MergeBases(sHead[p], tHead[p])
  PROVE  Decision(p) = TrueVerdict(sHead[p], tHead[p])
<1> DEFINE s == sHead[p]
           t == tHead[p]
<1>1. s \in Created /\ t \in Created
  BY DEF HeadsRead
<1>2. /\ Ahead(s, base[p]) = {} <=> s \in anc[t]
      /\ Ahead(t, base[p]) = {} <=> t \in anc[s]
  BY <1>1, MergeBaseDecides
<1>3. s \in anc[s] /\ t \in anc[t] /\ (s \in anc[t] /\ t \in anc[s] => s = t)
  BY <1>1 DEF GraphOK, Created
<1>4. CASE s = t
  BY <1>2, <1>3, <1>4 DEF Decision, SourceAhead, TargetAhead, TrueVerdict
<1>5. CASE s # t /\ t \in anc[s]
  BY <1>2, <1>3, <1>5 DEF Decision, SourceAhead, TargetAhead, TrueVerdict
<1>6. CASE s # t /\ s \in anc[t]
  BY <1>2, <1>3, <1>6 DEF Decision, SourceAhead, TargetAhead, TrueVerdict
<1>7. CASE s \notin anc[t] /\ t \notin anc[s]
  BY <1>2, <1>3, <1>7 DEF Decision, SourceAhead, TargetAhead, TrueVerdict
<1>8. QED
  BY <1>4, <1>5, <1>6, <1>7
-----------------------------------------------------------------------------
(***************************************************************************)
(* Type correctness                                                        *)
(***************************************************************************)
\* The three kinds of state file are state files.
LEMMA StateFileType ==
  /\ DefaultState \in StateFile /\ TornState \in StateFile
  /\ \A c, d \in Tip : SyncState("valid", c, d) \in StateFile
BY DEF StateFile, DefaultState, TornState, SyncState, Tip

\* The initial states are well typed.
LEMMA TypeInit == Init => TypeOK
BY StateFileType DEF Init, TypeOK, Tip, Step

\* Starting a run keeps the types.
LEMMA NewType ==
  ASSUME TypeOK, NEW p \in Proc, NEW s \in Repo, NEW t \in Repo, New(p, s, t)
  PROVE  TypeOK'
BY DEF TypeOK, New, Return, Tip, Step, Failure, repoVars, fileVars

\* Every step of a run keeps the types.
LEMMA RunStepType ==
  ASSUME TypeOK, NEW p \in Proc, RunStep(p) \/ Crash(p)
  PROVE  TypeOK'
<1> USE DEF TypeOK, Goto, Return, Tip, repoVars, fileVars, argVars, headVars
<1>1. CASE FetchSource(p)
  BY <1>1, RemoteAssumption DEF FetchSource, FetchRepo, History, Step
<1>2. CASE FetchTarget(p)
  BY <1>2, RemoteAssumption DEF FetchTarget, FetchRepo, History, Step
<1>3. CASE FetchFails(p)
  BY <1>3 DEF FetchFails, Failure
<1>4. CASE ReadSource(p)
  BY <1>4 DEF ReadSource, Step
<1>5. CASE ReadTarget(p)
  BY <1>5 DEF ReadTarget, Step
<1>6. CASE ReadFails(p)
  BY <1>6 DEF ReadFails, Failure
<1>7. CASE FindSyncBase(p)
  <2>1. SyncBases(p) \subseteq Tip
    BY DEF SyncBases, MergeBaseIn, MergeBases, StateFile
  <2>2. QED
    BY <1>7, <2>1 DEF FindSyncBase, Step
<1>8. CASE FindSyncBaseFails(p)
  BY <1>8 DEF FindSyncBaseFails, Failure
<1>9. CASE Compare(p)
  BY <1>9 DEF Compare, Decision, OneSided, Verdict, Step
<1>10. CASE CompareFails(p)
  BY <1>10 DEF CompareFails, Failure
<1>11. CASE Truncate(p)
  BY <1>11, StateFileType DEF Truncate, Step
<1>12. CASE Write(p)
  <2>1. NewHead(p) \in Tip
    BY DEF NewHead
  <2>2. QED
    BY <1>12, <2>1, StateFileType DEF Write
<1>13. CASE SaveFails(p)
  BY <1>13 DEF SaveFails, Failure
<1>14. CASE Crash(p)
  BY <1>14 DEF Crash, Failure
<1>15. QED
  BY <1>1, <1>2, <1>3, <1>4, <1>5, <1>6, <1>7, <1>8, <1>9, <1>10, <1>11,
     <1>12, <1>13, <1>14 DEF RunStep

\* Every step of the users keeps the types.
LEMMA UserStepType ==
  ASSUME TypeOK, NEW r \in Repo, UserStep(r)
  PROVE  TypeOK'
<1> USE DEF TypeOK, Tip, fileVars, runVars, argVars, headVars, History
<1>1. CASE UserCommit(r)
  BY <1>1 DEF UserCommit, NewCommit, Fresh
<1>2. CASE UserMerge(r)
  BY <1>2 DEF UserMerge, NewCommit, Fresh
<1>3. CASE UserReset(r)
  BY <1>3 DEF UserReset
<1>4. ASSUME NEW q \in Repo, UserFetch(r, q)
      PROVE  TypeOK'
  BY <1>4 DEF UserFetch
<1>5. CASE UserPush(r)
  BY <1>5, RemoteAssumption DEF UserPush
<1>6. CASE UserGC(r)
  BY <1>6 DEF UserGC
<1>7. CASE UserRemovesState(r)
  BY <1>7, StateFileType DEF UserRemovesState, repoVars
<1>8. QED
  BY <1>1, <1>2, <1>3, <1>4, <1>5, <1>6, <1>7 DEF UserStep

\* Every variable keeps its type.
THEOREM TypeCorrect == Spec => []TypeOK
<1>1. TypeOK /\ [Next]_vars => TypeOK'
  <2> SUFFICES ASSUME TypeOK, [Next]_vars PROVE TypeOK'
    OBVIOUS
  <2>1. CASE UNCHANGED vars
    BY <2>1 DEF TypeOK, vars, repoVars, fileVars, argVars, headVars
  <2>2. CASE Next
    BY <2>2, NewType, RunStepType, UserStepType, ArgsAssumption DEF Next
  <2>3. QED
    BY <2>1, <2>2
<1>2. QED
  BY <1>1, TypeInit, PTL DEF Spec
-----------------------------------------------------------------------------
(***************************************************************************)
(* The inductive invariant                                                 *)
(***************************************************************************)

\* The commits that exist keep their history.
GraphGrows == \A c \in Created : c \in Created' /\ anc'[c] = anc[c]

\* A step that creates no commit leaves the graph as it was.
LEMMA GraphSame ==
  ASSUME UNCHANGED anc
  PROVE  Created' = Created /\ GraphGrows /\ (GraphOK => GraphOK')
BY DEF Created, GraphGrows, GraphOK

\* A new commit on top of a closed history keeps the graph a partial order.
LEMMA NewCommitGraph ==
  ASSUME TypeOK, GraphOK, NEW r \in Repo, NEW parents \in SUBSET Commit,
         \A d \in parents : d \in Created /\ anc[d] \subseteq parents,
         NewCommit(r, parents)
  PROVE  GraphOK' /\ GraphGrows /\ Created \subseteq Created'
         /\ main'[r] \in Created' /\ odb'[r] \subseteq odb[r] \cup Created'
         /\ \A q \in Repo \ {r} : main'[q] = main[q] /\ odb'[q] = odb[q]
<1>1. PICK c \in Fresh :
        /\ anc' = [anc EXCEPT ![c] = {c} \cup parents]
        /\ odb' = [odb EXCEPT ![r] = @ \cup {c}]
        /\ main' = [main EXCEPT ![r] = c]
  BY DEF NewCommit
<1>2. c \in Commit /\ anc[c] = {} /\ c \notin Created
  BY DEF Fresh, Created
<1>3. anc'[c] = {c} \cup parents /\ \A d \in Commit \ {c} : anc'[d] = anc[d]
  BY <1>1, <1>2 DEF TypeOK
<1>4. Created' = Created \cup {c}
  BY <1>2, <1>3 DEF Created
<1>5. GraphGrows
  BY <1>2, <1>3, <1>4 DEF GraphGrows, Created
<1>6. GraphOK'
  <2>1. \A d \in Created' : d \in anc'[d]
    BY <1>2, <1>3, <1>4 DEF GraphOK, Created
  <2>2. ASSUME NEW d \in Commit, NEW e \in anc'[d]
        PROVE  e \in Created' /\ anc'[e] \subseteq anc'[d]
    <3>1. CASE d = c
      BY <1>2, <1>3, <1>4, <2>2, <3>1 DEF Created
    <3>2. CASE d # c
      BY <1>2, <1>3, <1>4, <2>2, <3>2 DEF GraphOK, Created
    <3>3. QED
      BY <3>1, <3>2
  <2>3. ASSUME NEW d \in Commit, NEW e \in Commit, d \in anc'[e], e \in anc'[d]
        PROVE  d = e
    <3>1. CASE d # c /\ e # c
      BY <1>3, <2>3, <3>1 DEF GraphOK
    <3>2. CASE d = c /\ e # c
      BY <1>2, <1>3, <2>3, <3>2 DEF GraphOK
    <3>3. CASE d # c /\ e = c
      BY <1>2, <1>3, <2>3, <3>3 DEF GraphOK
    <3>4. QED
      BY <3>1, <3>2, <3>3
  <2>4. QED
    BY <2>1, <2>2, <2>3 DEF GraphOK
<1>7. QED
  BY <1>1, <1>4, <1>5, <1>6 DEF TypeOK

\* What a run knows stays true while others extend the graph and move refs.
LEMMA RunKnowledgeStable ==
  ASSUME TypeOK, GraphOK, GraphGrows, NEW p \in Proc, RunOK(p),
         UNCHANGED <<pc[p], src[p], dst[p], saved[p], sHead[p], tHead[p],
                     base[p], result[p]>>
  PROVE  RunOK(p)'
<1>1. HeadsRead(p) => HeadsRead(p)'
  BY DEF HeadsRead, GraphGrows
<1>2. ASSUME HeadsRead(p)
      PROVE  MergeBases(sHead[p], tHead[p])' = MergeBases(sHead[p], tHead[p])
  <2>1. /\ anc'[sHead[p]] = anc[sHead[p]]
        /\ anc'[tHead[p]] = anc[tHead[p]]
        /\ \A x \in anc[sHead[p]] : anc'[x] = anc[x]
    BY <1>2 DEF HeadsRead, GraphGrows, GraphOK, Created
  <2>2. QED
    BY <2>1 DEF MergeBases
<1>3. BaseFound(p) => BaseFound(p)'
  BY <1>1, <1>2 DEF BaseFound, GraphGrows
<1>4. ASSUME BaseFound(p)
      PROVE  Decision(p)' = Decision(p)
  BY <1>4 DEF BaseFound, HeadsRead, GraphGrows, Decision, SourceAhead, TargetAhead, Ahead
<1>5. QED
  BY <1>1, <1>3, <1>4 DEF RunOK, HasVerdict, GraphGrows

\* The steps of other runs do not touch what run q knows.
LEMMA OtherRunsStable ==
  ASSUME IndInv, NEW p \in Proc, NEW q \in Proc \ {p},
         RunStep(p) \/ Crash(p) \/ \E s, t \in Repo : New(p, s, t)
  PROVE  RunOK(q)'
<1>1. UNCHANGED <<anc, pc[q], src[q], dst[q], saved[q], sHead[q], tHead[q],
                  base[q], result[q]>>
  <2> USE DEF IndInv, TypeOK, Goto, Return, repoVars, fileVars, argVars, headVars
  <2>1. CASE \E s, t \in Repo : New(p, s, t)
    BY <2>1 DEF New
  <2>2. CASE FetchSource(p) \/ FetchTarget(p) \/ FetchFails(p)
    BY <2>2 DEF FetchSource, FetchTarget, FetchRepo, FetchFails
  <2>3. CASE ReadSource(p) \/ ReadTarget(p) \/ ReadFails(p)
    BY <2>3 DEF ReadSource, ReadTarget, ReadFails
  <2>4. CASE FindSyncBase(p) \/ FindSyncBaseFails(p)
    BY <2>4 DEF FindSyncBase, FindSyncBaseFails
  <2>5. CASE Compare(p) \/ CompareFails(p)
    BY <2>5 DEF Compare, CompareFails
  <2>6. CASE Truncate(p) \/ Write(p) \/ SaveFails(p) \/ Crash(p)
    BY <2>6 DEF Truncate, Write, SaveFails, Crash
  <2>7. QED
    BY <2>1, <2>2, <2>3, <2>4, <2>5, <2>6 DEF RunStep
<1>2. QED
  BY <1>1, GraphSame, RunKnowledgeStable DEF IndInv

\* What a run knows depends on the graph and on its own variables only.
LEMMA KnowledgeSame ==
  ASSUME NEW p \in Proc, UNCHANGED <<anc, saved[p], sHead[p], tHead[p], base[p]>>
  PROVE  /\ HeadsRead(p)' = HeadsRead(p)
         /\ BaseFound(p)' = BaseFound(p)
         /\ Decision(p)' = Decision(p)
<1>1. Created' = Created
  BY DEF Created
<1>2. \A c, d : MergeBases(c, d)' = MergeBases(c, d)
  BY DEF MergeBases
<1>3. HeadsRead(p)' = HeadsRead(p)
  BY <1>1 DEF HeadsRead
<1>4. MergeBases(sHead[p], tHead[p])' = MergeBases(sHead[p], tHead[p])
  BY <1>2 DEF MergeBases
<1>5. QED
  BY <1>1, <1>3, <1>4 DEF BaseFound, Decision, SourceAhead, TargetAhead, Ahead

\* A run that ends without a verdict, or has only just started, knows nothing.
LEMMA NothingKnown ==
  ASSUME NEW p \in Proc, result'[p] \notin Verdict,
         \/ pc'[p] = "idle"
         \/ /\ pc'[p] \in {"fetch_source", "fetch_target", "read_source"}
            /\ result'[p] = "none"
            /\ saved'[p].kind # "torn"
  PROVE  RunOK(p)'
BY DEF RunOK, HasVerdict, Step

\* Each step of run p leaves p knowing what its next step relies on.
LEMMA OwnStep ==
  ASSUME IndInv, NEW p \in Proc,
         RunStep(p) \/ Crash(p) \/ \E s, t \in Repo : New(p, s, t)
  PROVE  RunOK(p)'
<1>1. TypeOK /\ RunOK(p) /\ RefsOK /\ GraphOK /\ SavedOnce(saved[p])
  BY DEF IndInv, SavedOK
<1> USE <1>1 DEF TypeOK, Goto, Return, repoVars, fileVars, argVars, headVars
<1>2. CASE \E s, t \in Repo : New(p, s, t)
  BY <1>2, NothingKnown DEF New, Verdict
<1>3. CASE FetchSource(p) \/ FetchTarget(p)
  <2>1. pc[p] \in {"fetch_source", "fetch_target"} /\ result'[p] = result[p]
        /\ pc'[p] \in {"fetch_target", "read_source"} /\ saved'[p] = saved[p]
    BY <1>3 DEF FetchSource, FetchTarget, FetchRepo
  <2>2. result[p] = "none" /\ saved[p].kind # "torn"
    BY <2>1 DEF RunOK, Step
  <2>3. QED
    BY <2>1, <2>2, NothingKnown DEF Verdict
<1>4. CASE FetchFails(p) \/ ReadFails(p) \/ FindSyncBaseFails(p) \/ CompareFails(p)
           \/ SaveFails(p) \/ Crash(p)
  BY <1>4, NothingKnown
     DEF FetchFails, ReadFails, FindSyncBaseFails, CompareFails, SaveFails, Crash, Verdict
<1>5. CASE ReadSource(p)
  <2>1. /\ pc[p] = "read_source" /\ pc'[p] = "read_target" /\ anc' = anc
        /\ sHead'[p] = main[src[p]] /\ main[src[p]] # NoCommit
        /\ result'[p] = result[p] /\ saved'[p] = saved[p]
    BY <1>5 DEF ReadSource
  <2>2. sHead'[p] \in Created'
    BY <2>1, GraphSame DEF RefsOK
  <2>3. QED
    BY <2>1, <2>2 DEF RunOK, HasVerdict, Verdict, Step
<1>6. CASE ReadTarget(p)
  <2>1. /\ pc[p] = "read_target" /\ pc'[p] = "find_base" /\ anc' = anc
        /\ tHead'[p] = main[dst[p]] /\ main[dst[p]] # NoCommit /\ sHead'[p] = sHead[p]
        /\ result'[p] = result[p] /\ saved'[p] = saved[p]
    BY <1>6 DEF ReadTarget
  <2>2. HeadsRead(p)'
    BY <2>1, GraphSame DEF RefsOK, RunOK, HeadsRead
  <2>3. QED
    BY <2>1, <2>2 DEF RunOK, HasVerdict, Verdict, Step
<1>7. CASE FindSyncBase(p)
  <2>1. PICK b \in SyncBases(p) : base' = [base EXCEPT ![p] = b]
    BY <1>7 DEF FindSyncBase
  <2>2. /\ pc[p] = "find_base" /\ pc'[p] = "compare" /\ anc' = anc /\ base'[p] = b
        /\ tHead' = tHead /\ sHead' = sHead /\ result' = result /\ saved' = saved
    BY <1>7, <2>1 DEF FindSyncBase
  <2>3. HeadsRead(p) /\ saved[p].kind # "torn" /\ result[p] = "none"
    BY <2>2 DEF RunOK, Step
  <2>4. sHead[p] \in Commit /\ sHead[p] \in anc[sHead[p]] /\ sHead[p] \in Created
    BY <2>3 DEF HeadsRead, GraphOK, Created
  <2>5. b \in Created /\ (saved[p].kind = "absent" => b \in MergeBases(sHead[p], tHead[p]))
    <3>1. CASE saved[p].kind = "valid"
      BY <2>1, <3>1 DEF SyncBases, MergeBaseIn, SavedOnce
    <3>2. CASE saved[p].kind # "valid" /\ sHead[p] = tHead[p]
      <4>1. b = sHead[p]
        BY <2>1, <3>2 DEF SyncBases, MergeBaseIn
      <4>2. \A x \in anc[sHead[p]] : sHead[p] \in anc[x] => x = sHead[p]
        BY <2>4 DEF GraphOK, Created
      <4>3. QED
        BY <2>4, <3>2, <4>1, <4>2 DEF MergeBases
    <3>3. CASE saved[p].kind # "valid" /\ sHead[p] # tHead[p]
      <4>1. b \in MergeBases(sHead[p], tHead[p])
        BY <2>1, <3>3 DEF SyncBases, MergeBaseIn
      <4>2. b \in Created
        BY <2>4, <4>1 DEF MergeBases, GraphOK
      <4>3. QED
        BY <4>1, <4>2
    <3>4. QED
      BY <3>1, <3>2, <3>3
  <2>6. BaseFound(p)'
    <3>1. Created' = Created
      BY <2>2 DEF Created
    <3>2. MergeBases(sHead[p], tHead[p])' = MergeBases(sHead[p], tHead[p])
      BY <2>2 DEF MergeBases
    <3>3. QED
      BY <2>2, <2>3, <2>5, <3>1, <3>2 DEF BaseFound, HeadsRead
  <2>7. QED
    BY <2>2, <2>3, <2>6 DEF RunOK, HasVerdict, Verdict, Step
<1>8. CASE Compare(p)
  <2>1. /\ pc[p] = "compare" /\ result'[p] = Decision(p)
        /\ pc'[p] = (IF Decision(p) \in OneSided THEN "truncate" ELSE "idle")
        /\ UNCHANGED <<anc, saved[p], sHead[p], tHead[p], base[p]>>
    BY <1>8 DEF Compare
  <2>2. BaseFound(p)' /\ Decision(p)' = Decision(p) /\ saved[p].kind # "torn"
    BY <2>1, KnowledgeSame DEF RunOK
  <2>3. QED
    BY <2>1, <2>2 DEF RunOK, HasVerdict, Step
<1>9. CASE Truncate(p) \/ Write(p)
  <2>1. /\ pc[p] \in {"truncate", "write"} /\ result'[p] = result[p]
        /\ pc'[p] \in {"write", "idle"}
        /\ UNCHANGED <<anc, saved[p], sHead[p], tHead[p], base[p]>>
    BY <1>9 DEF Truncate, Write
  <2>2. HasVerdict(p) /\ BaseFound(p) /\ result[p] = Decision(p) /\ result[p] \in OneSided
        /\ saved[p].kind # "torn"
    BY <2>1 DEF RunOK, HasVerdict, OneSided, Verdict
  <2>3. BaseFound(p)' /\ Decision(p)' = Decision(p)
    BY <2>1, <2>2, KnowledgeSame
  <2>4. QED
    BY <2>1, <2>2, <2>3 DEF RunOK, HasVerdict, Step
<1>10. QED
  BY <1>2, <1>3, <1>4, <1>5, <1>6, <1>7, <1>8, <1>9 DEF RunStep

\* Every step of a run keeps the inductive invariant.
LEMMA RunStepInv ==
  ASSUME IndInv, NEW p \in Proc,
         RunStep(p) \/ Crash(p) \/ \E s, t \in Repo : New(p, s, t)
  PROVE  IndInv'
<1>1. TypeOK' /\ \A q \in Proc : RunOK(q)'
  BY OwnStep, OtherRunsStable, NewType, RunStepType DEF IndInv
<1>2. UNCHANGED <<anc, main>>
  BY DEF New, RunStep, FetchSource, FetchTarget, FetchRepo, FetchFails, ReadSource,
     ReadTarget, ReadFails, FindSyncBase, FindSyncBaseFails, Compare, CompareFails,
     Truncate, Write, SaveFails, Crash, repoVars
<1>3. GraphOK' /\ Created' = Created
  BY <1>2, GraphSame DEF IndInv
<1>4. RefsOK'
  <2>1. \A c \in Commit : anc[c] \subseteq Created
    BY DEF IndInv, GraphOK
  <2>2. CASE odb' = odb
    BY <1>2, <1>3, <2>2 DEF IndInv, RefsOK
  <2>3. CASE FetchSource(p) \/ FetchTarget(p)
    <3>1. PICK r \in Repo : /\ origin[RemoteOf[r]] \in Tip
                            /\ odb' = [odb EXCEPT ![r] = @ \cup History(origin[RemoteOf[r]])]
      BY <2>3, RemoteAssumption DEF FetchSource, FetchTarget, FetchRepo, IndInv, TypeOK
    <3>2. History(origin[RemoteOf[r]]) \subseteq Created
      BY <2>1, <3>1 DEF History, Tip
    <3>3. QED
      BY <1>2, <1>3, <3>1, <3>2 DEF IndInv, RefsOK, TypeOK
  <2>4. QED
    BY <2>2, <2>3 DEF New, RunStep, FetchFails, ReadSource, ReadTarget, ReadFails,
       FindSyncBase, FindSyncBaseFails, Compare, CompareFails, Truncate, Write,
       SaveFails, Crash, repoVars
<1>5. SavedOK' /\ TornOnlyByUnfinishedSave'
  <2> USE DEF IndInv, TypeOK
  <2>1. CASE \E s, t \in Repo : New(p, s, t)
    <3>1. PICK s \in Repo, t \in Repo : New(p, s, t)
      BY <2>1
    <3>2. /\ pc[p] = "idle" /\ UNCHANGED <<file, interrupted>>
          /\ saved' = [saved EXCEPT ![p] = file[s]]
          /\ \A q \in Proc \ {p} : src'[q] = src[q] /\ pc'[q] = pc[q]
      BY <3>1 DEF New, Return, fileVars
    <3>3. SavedOK'
      BY <1>3, <3>2 DEF SavedOK, SavedOnce
    <3>4. TornOnlyByUnfinishedSave'
      BY <3>2 DEF TornOnlyByUnfinishedSave
    <3>5. QED
      BY <3>3, <3>4
  <2>2. CASE Truncate(p)
    <3>1. /\ pc'[p] = "write" /\ UNCHANGED <<src, saved>>
          /\ \A r \in Repo \ {src[p]} :
               file'[r] = file[r] /\ interrupted'[r] = interrupted[r]
          /\ file'[src[p]] = TornState
          /\ \A q \in Proc \ {p} : pc'[q] = pc[q]
          /\ pc[p] = "truncate"
      BY <2>2 DEF Truncate, Goto, argVars
    <3>2. file'[src[p]].kind = "torn"
      BY <3>1 DEF TornState, SyncState
    <3>3. SavedOK'
      BY <1>3, <3>1, <3>2 DEF SavedOK, SavedOnce
    <3>4. TornOnlyByUnfinishedSave'
      BY <3>1 DEF TornOnlyByUnfinishedSave
    <3>5. QED
      BY <3>3, <3>4
  <2>3. CASE Write(p)
    <3>1. /\ UNCHANGED <<src, saved>>
          /\ \A r \in Repo \ {src[p]} :
               file'[r] = file[r] /\ interrupted'[r] = interrupted[r]
          /\ file'[src[p]] = SyncState("valid", NewHead(p), NewHead(p))
          /\ \A q \in Proc \ {p} : pc'[q] = pc[q]
          /\ pc[p] = "write"
      BY <2>3 DEF Write, Goto, argVars
    <3>2. NewHead(p) \in Created
      BY <3>1 DEF NewHead, RunOK, BaseFound, HeadsRead, HasVerdict, OneSided, Verdict
    <3>3. /\ file'[src[p]].kind = "valid"
          /\ file'[src[p]].s = NewHead(p)
          /\ file'[src[p]].t = NewHead(p)
      BY <3>1 DEF SyncState
    <3>4. SavedOnce(file[src[p]])'
      BY <1>3, <3>1, <3>2, <3>3 DEF SavedOnce
    <3>5. SavedOK'
      BY <1>3, <3>1, <3>4 DEF SavedOK, SavedOnce
    <3>6. \A r \in Repo \ {src[p]} :
             file[r].kind = "torn" =>
               interrupted[r] \/ \E q \in Proc \ {p} : src[q] = r /\ pc[q] = "write"
      BY DEF TornOnlyByUnfinishedSave
    <3>7. TornOnlyByUnfinishedSave'
      BY <3>1, <3>3, <3>6 DEF TornOnlyByUnfinishedSave
    <3>8. QED
      BY <3>5, <3>7
  <2>4. CASE SaveFails(p) \/ Crash(p)
    <3>1. /\ UNCHANGED <<src, saved, file>>
          /\ interrupted' = [interrupted EXCEPT ![src[p]] = @ \/ pc[p] = "write"]
          /\ \A q \in Proc \ {p} : pc'[q] = pc[q]
      BY <2>4 DEF SaveFails, Crash, Return, argVars
    <3>2. \A r \in Repo : interrupted[r] => interrupted'[r]
      BY <3>1
    <3>3. pc[p] = "write" => interrupted'[src[p]]
      BY <3>1
    <3>4. SavedOK'
      BY <1>3, <3>1 DEF SavedOK, SavedOnce
    <3>5. TornOnlyByUnfinishedSave'
      BY <3>1, <3>2, <3>3 DEF TornOnlyByUnfinishedSave
    <3>6. QED
      BY <3>4, <3>5
  <2>5. CASE \/ FetchSource(p) \/ FetchTarget(p) \/ FetchFails(p) \/ ReadSource(p)
             \/ ReadTarget(p) \/ ReadFails(p) \/ FindSyncBase(p)
             \/ FindSyncBaseFails(p) \/ Compare(p) \/ CompareFails(p)
    <3>1. /\ UNCHANGED <<src, saved, file, interrupted>>
          /\ \A q \in Proc \ {p} : pc'[q] = pc[q]
          /\ pc[p] # "write"
      BY <2>5 DEF FetchSource, FetchTarget, FetchRepo, FetchFails, ReadSource, ReadTarget,
         ReadFails, FindSyncBase, FindSyncBaseFails, Compare, CompareFails, Goto, Return,
         fileVars, argVars
    <3>2. QED
      BY <1>3, <3>1 DEF SavedOK, SavedOnce, TornOnlyByUnfinishedSave
  <2>6. QED
    BY <2>1, <2>2, <2>3, <2>4, <2>5 DEF RunStep
<1>6. QED
  BY <1>1, <1>3, <1>4, <1>5 DEF IndInv

\* Every step of the users keeps the inductive invariant.
LEMMA UserStepInv ==
  ASSUME IndInv, NEW r \in Repo, UserStep(r)
  PROVE  IndInv'
<1> USE DEF IndInv
<1>1. TypeOK'
  BY UserStepType
<1>2. GraphOK' /\ RefsOK' /\ GraphGrows /\ Created \subseteq Created'
  <2>1. \A c \in Commit : anc[c] \subseteq Created /\ \A d \in anc[c] : anc[d] \subseteq anc[c]
    BY DEF GraphOK
  <2>2. CASE UserCommit(r)
    <3>1. History(main[r]) \in SUBSET Commit
      BY DEF History, TypeOK, Tip
    <3>2. \A d \in History(main[r]) : d \in Created /\ anc[d] \subseteq History(main[r])
      BY <2>1 DEF History, TypeOK, Tip
    <3>3. NewCommit(r, History(main[r]))
      BY <2>2 DEF UserCommit
    <3>4. QED
      BY <3>1, <3>2, <3>3, NewCommitGraph DEF RefsOK
  <2>3. CASE UserMerge(r)
    <3>1. PICK c \in odb[r] : main[r] # NoCommit /\ NewCommit(r, anc[main[r]] \cup anc[c])
      BY <2>3 DEF UserMerge
    <3>2. main[r] \in Commit /\ c \in Commit
      BY <3>1 DEF TypeOK, Tip
    <3>3. anc[main[r]] \cup anc[c] \in SUBSET Commit
      BY <3>2 DEF TypeOK
    <3>4. \A d \in anc[main[r]] \cup anc[c] :
             d \in Created /\ anc[d] \subseteq anc[main[r]] \cup anc[c]
      BY <2>1, <3>2
    <3>5. QED
      BY <3>1, <3>3, <3>4, NewCommitGraph DEF RefsOK
  <2>4. CASE ~UserCommit(r) /\ ~UserMerge(r)
    <3>1. anc' = anc
      BY <2>4 DEF UserStep, UserReset, UserFetch, UserPush, UserGC, UserRemovesState, repoVars
    <3>2. GraphOK' /\ GraphGrows /\ Created' = Created
      BY <3>1, GraphSame
    <3>3. \A c \in Tip : History(c) \subseteq Created
      BY <2>1 DEF History, Tip
    <3>4. RefsOK'
      BY <2>4, <3>2, <3>3 DEF UserStep, UserReset, UserFetch, UserPush, UserGC,
         UserRemovesState, repoVars, RefsOK, TypeOK
    <3>5. QED
      BY <3>2, <3>4
  <2>5. QED
    BY <2>2, <2>3, <2>4
<1>3. UNCHANGED runVars
  BY DEF UserStep, UserCommit, UserMerge, NewCommit, UserReset, UserFetch, UserPush,
     UserGC, UserRemovesState
<1>4. \A p \in Proc : RunOK(p)'
  BY <1>2, <1>3, RunKnowledgeStable DEF runVars, argVars, headVars
<1>5. SavedOK' /\ TornOnlyByUnfinishedSave'
  <2>1. CASE UNCHANGED fileVars
    BY <1>2, <1>3, <2>1
       DEF SavedOK, SavedOnce, TornOnlyByUnfinishedSave, fileVars, runVars, argVars
  <2>2. CASE UserRemovesState(r)
    <3>1. /\ file'[r] = DefaultState
          /\ \A q \in Repo \ {r} : file'[q] = file[q] /\ interrupted'[q] = interrupted[q]
      BY <2>2 DEF UserRemovesState, TypeOK
    <3>2. QED
      BY <1>2, <1>3, <3>1 DEF SavedOK, SavedOnce, TornOnlyByUnfinishedSave, runVars,
         argVars, DefaultState, SyncState
  <2>3. QED
    BY <2>1, <2>2 DEF UserStep, UserCommit, UserMerge, NewCommit, UserReset, UserFetch,
       UserPush, UserGC
<1>6. QED
  BY <1>1, <1>2, <1>4, <1>5

\* The initial states satisfy the inductive invariant.
LEMMA InitInv == Init => IndInv
<1> SUFFICES ASSUME Init PROVE IndInv
  OBVIOUS
<1>1. TypeOK
  BY TypeInit
<1>2. Created = {}
  BY DEF Init, Created
<1>3. GraphOK /\ RefsOK
  BY <1>2 DEF Init, GraphOK, RefsOK
<1>4. SavedOK /\ TornOnlyByUnfinishedSave
  BY DEF Init, SavedOK, SavedOnce, TornOnlyByUnfinishedSave, DefaultState, SyncState
<1>5. \A p \in Proc : RunOK(p)
  BY DEF Init, RunOK, HasVerdict, Verdict, Step
<1>6. QED
  BY <1>1, <1>3, <1>4, <1>5 DEF IndInv

\* The invariant is inductive, so it holds in every reachable state.
THEOREM Invariant == Spec => []IndInv
<1>1. IndInv /\ [Next]_vars => IndInv'
  <2> SUFFICES ASSUME IndInv, [Next]_vars PROVE IndInv'
    OBVIOUS
  <2>1. CASE UNCHANGED vars
    <3>1. UNCHANGED <<anc, odb, main, file, interrupted, src, pc, saved>>
      BY <2>1 DEF vars, repoVars, fileVars, argVars
    <3>2. TypeOK' /\ GraphOK' /\ Created' = Created /\ GraphGrows
      BY <2>1, <3>1, GraphSame DEF IndInv, TypeOK, vars, repoVars, fileVars, argVars, headVars
    <3>3. \A p \in Proc : RunOK(p)'
      BY <2>1, <3>2, RunKnowledgeStable DEF IndInv, vars, argVars, headVars
    <3>4. QED
      BY <3>1, <3>2, <3>3 DEF IndInv, RefsOK, SavedOK, SavedOnce, TornOnlyByUnfinishedSave
  <2>2. CASE Next
    BY <2>2, RunStepInv, UserStepInv, ArgsAssumption DEF Next
  <2>3. QED
    BY <2>1, <2>2
<1>2. QED
  BY <1>1, InitInv, PTL DEF Spec
-----------------------------------------------------------------------------
(***************************************************************************)
(* The safety properties                                                   *)
(***************************************************************************)

\* A first run always decides as the commit graph says, however users move the
\* branches and collect garbage while it runs.
THEOREM FirstRun == Spec => []FirstRunVerdictExact
<1>1. IndInv => FirstRunVerdictExact
  BY MergeBaseVerdict DEF IndInv, RunOK, BaseFound, FirstRunVerdictExact
<1>2. QED
  BY <1>1, Invariant, PTL

\* A run whose base is a merge base of the heads decides as the graph says.
THEOREM TrueBase == Spec => []VerdictExactOnTrueBase
<1>1. IndInv => VerdictExactOnTrueBase
  BY MergeBaseVerdict DEF IndInv, RunOK, BaseFound, VerdictExactOnTrueBase
<1>2. QED
  BY <1>1, Invariant, PTL

\* Only a crash or failure inside save_state leaves a torn file behind, with
\* any number of concurrent runs.
THEOREM TornFile == Spec => []TornOnlyByUnfinishedSave
<1>1. IndInv => TornOnlyByUnfinishedSave
  BY DEF IndInv
<1>2. QED
  BY <1>1, Invariant, PTL

\* The state file moves only towards a head with commits since the base, when
\* the other head has none.
THEOREM SaveRule == Spec => SaveOnlyOneSidedAdvance
<1>1. ASSUME IndInv, [Next]_vars, NEW r \in Repo, file'[r] # file[r], ~UserRemovesState(r)
      PROVE  \E p \in Proc : SavesAdvance(p, r)
  <2>1. PICK p \in Proc : Truncate(p) \/ Write(p)
    <3>1. file' # file
      BY <1>1
    <3>2. \A q \in Repo : UserRemovesState(q) => q = r
      BY <1>1 DEF UserRemovesState, IndInv, TypeOK
    <3>3. \A q \in Repo : ~UserStep(q)
      BY <1>1, <3>1, <3>2 DEF UserStep, UserCommit, UserMerge, NewCommit, UserReset,
         UserFetch, UserPush, UserGC, fileVars
    <3>4. QED
      BY <1>1, <3>1, <3>3 DEF Next, vars, fileVars, New, RunStep, FetchSource,
         FetchTarget, FetchRepo, FetchFails, ReadSource, ReadTarget, ReadFails,
         FindSyncBase, FindSyncBaseFails, Compare, CompareFails, SaveFails, Crash
  <2>2. src[p] = r /\ pc[p] \in {"truncate", "write"}
        /\ file'[r] \in {TornState, SyncState("valid", NewHead(p), NewHead(p))}
    BY <1>1, <2>1 DEF Truncate, Write, Goto, IndInv, TypeOK
  <2>3. result[p] \in OneSided /\ result[p] = Decision(p)
    BY <1>1, <2>2 DEF IndInv, RunOK, HasVerdict, OneSided, Verdict
  <2>4. CASE result[p] = "source_ahead"
    BY <2>2, <2>3, <2>4 DEF NewHead, Decision, SourceAhead, TargetAhead, SavesAdvance
  <2>5. CASE result[p] = "target_ahead"
    BY <2>2, <2>3, <2>5 DEF NewHead, Decision, SourceAhead, TargetAhead, SavesAdvance
  <2>6. QED
    BY <2>3, <2>4, <2>5 DEF OneSided
<1>2. IndInv /\ [Next]_vars =>
        [\A r \in Repo :
           file'[r] # file[r] =>
             UserRemovesState(r) \/ \E p \in Proc : SavesAdvance(p, r)]_vars
  BY <1>1
<1>3. QED
  BY <1>2, Invariant, PTL DEF Spec, SaveOnlyOneSidedAdvance

\* With any number of concurrent runs and failing writes, Success means in sync
\* or saved.
THEOREM SuccessSaved == Spec => SuccessMeansSaved
<1>1. ASSUME IndInv, [Next]_vars, NEW p \in Proc,
             pc[p] # "idle", pc'[p] = "idle", ExitStatus(result'[p]) = "Success"
      PROVE  \/ ~SourceAhead(p) /\ ~TargetAhead(p) /\ file' = file
             \/ \E h, other \in {sHead[p], tHead[p]} :
                  /\ Ahead(h, base[p]) # {} /\ Ahead(other, base[p]) = {}
                  /\ file'[src[p]] = SyncState("valid", h, h)
  <2>1. TypeOK /\ RunOK(p)
    BY <1>1 DEF IndInv
  <2>2. RunStep(p) \/ Crash(p)
    BY <1>1, <2>1 DEF Next, vars, TypeOK, New, RunStep, FetchSource, FetchTarget,
       FetchRepo, FetchFails, ReadSource, ReadTarget, ReadFails, FindSyncBase,
       FindSyncBaseFails, Compare, CompareFails, Truncate, Write, SaveFails,
       Crash, Goto, Return, UserStep, UserCommit, UserMerge, NewCommit,
       UserReset, UserFetch, UserPush, UserGC, UserRemovesState, runVars
  <2>3. result'[p] \in Verdict \ {"diverged"}
    BY <1>1 DEF ExitStatus
  <2>4. Compare(p) \/ Write(p)
    BY <1>1, <2>1, <2>2, <2>3 DEF TypeOK, RunStep, FetchSource, FetchTarget,
       FetchRepo, FetchFails, ReadSource, ReadTarget, ReadFails, FindSyncBase,
       FindSyncBaseFails, CompareFails, Truncate, SaveFails, Crash, Goto, Return,
       Verdict
  <2>5. CASE Compare(p)
    <3>1. result'[p] = Decision(p) /\ Decision(p) \notin OneSided /\ file' = file
      BY <1>1, <2>1, <2>5 DEF Compare, TypeOK, fileVars
    <3>2. ~SourceAhead(p) /\ ~TargetAhead(p)
      BY <2>3, <3>1 DEF Decision, OneSided
    <3>3. QED
      BY <3>1, <3>2
  <2>6. CASE Write(p)
    <3>1. result[p] \in OneSided /\ result[p] = Decision(p)
      BY <2>1, <2>6 DEF Write, Goto, RunOK, HasVerdict, OneSided, Verdict
    <3>2. file'[src[p]] = SyncState("valid", NewHead(p), NewHead(p))
      BY <2>1, <2>6 DEF Write, TypeOK
    <3>3. CASE result[p] = "source_ahead"
      BY <3>1, <3>2, <3>3 DEF NewHead, Decision, SourceAhead, TargetAhead
    <3>4. CASE result[p] = "target_ahead"
      BY <3>1, <3>2, <3>4 DEF NewHead, Decision, SourceAhead, TargetAhead
    <3>5. QED
      BY <3>1, <3>3, <3>4 DEF OneSided
  <2>7. QED
    BY <2>4, <2>5, <2>6
<1>2. IndInv /\ [Next]_vars =>
        [\A p \in Proc :
           pc[p] # "idle" /\ pc'[p] = "idle" /\ ExitStatus(result'[p]) = "Success"
             => \/ ~SourceAhead(p) /\ ~TargetAhead(p) /\ file' = file
                \/ \E h, other \in {sHead[p], tHead[p]} :
                     /\ Ahead(h, base[p]) # {} /\ Ahead(other, base[p]) = {}
                     /\ file'[src[p]] = SyncState("valid", h, h)]_vars
  BY <1>1
<1>3. QED
  BY <1>2, Invariant, PTL DEF Spec, SuccessMeansSaved
-----------------------------------------------------------------------------
(***************************************************************************)
(* A run is finite                                                         *)
(***************************************************************************)
\* The steps that a run still has before it.
Left ==
  [idle |-> 0, write |-> 1, truncate |-> 2, compare |-> 3, find_base |-> 4,
   read_target |-> 5, read_source |-> 6, fetch_target |-> 7, fetch_source |-> 8]

\* A step of a run that has started brings its end nearer, and no step of
\* anybody else moves it: a run can be stopped, but it cannot go round in circles.
EndComesNearer ==
  [][\A p \in Proc :
       /\ RunStep(p) => Left[pc'[p]] < Left[pc[p]]
       /\ pc[p] # "idle" /\ pc'[p] # pc[p] => Left[pc'[p]] < Left[pc[p]]]_vars

\* The steps of one run.
LEMMA RunStepNearer ==
  ASSUME TypeOK, NEW p \in Proc, RunStep(p) \/ Crash(p)
  PROVE  /\ pc[p] # "idle" /\ Left[pc'[p]] < Left[pc[p]]
         /\ \A q \in Proc \ {p} : pc'[q] = pc[q]
BY DEF TypeOK, Step, Left, RunStep, FetchSource, FetchTarget, FetchRepo,
   FetchFails, ReadSource, ReadTarget, ReadFails, FindSyncBase,
   FindSyncBaseFails, Compare, CompareFails, Truncate, Write, SaveFails, Crash,
   Goto, Return

\* The safety half of RunReturns, for any number of runs: each of the at most
\* eight steps of a run (SyncEngine::run) leaves fewer to be done.
THEOREM Finite == Spec => EndComesNearer
<1>1. ASSUME TypeOK, [Next]_vars
      PROVE  \A p \in Proc :
               /\ RunStep(p) => Left[pc'[p]] < Left[pc[p]]
               /\ pc[p] # "idle" /\ pc'[p] # pc[p] => Left[pc'[p]] < Left[pc[p]]
  <2>1. ASSUME NEW q \in Proc, pc[q] # "idle", pc'[q] # pc[q]
        PROVE  Left[pc'[q]] < Left[pc[q]]
    <3>1. CASE \E p \in Proc : RunStep(p) \/ Crash(p)
      BY <1>1, <2>1, <3>1, RunStepNearer
    <3>2. CASE \E p \in Proc, s, t \in Repo : New(p, s, t)
      BY <1>1, <2>1, <3>2 DEF TypeOK, New, Return
    <3>3. CASE (\E r \in Repo : UserStep(r)) \/ UNCHANGED vars
      BY <2>1, <3>3 DEF vars, runVars, UserStep, UserCommit, UserMerge, NewCommit,
         UserReset, UserFetch, UserPush, UserGC, UserRemovesState
    <3>4. QED
      BY <1>1, <3>1, <3>2, <3>3, ArgsAssumption DEF Next
  <2>2. QED
    BY <1>1, <2>1, RunStepNearer
<1>2. QED
  BY <1>1, TypeCorrect, PTL DEF Spec, EndComesNearer
=============================================================================
