-------------------------- MODULE InstallerProofs --------------------------
(***************************************************************************)
(* Proofs about the installer for any number of runs, any platforms, any   *)
(* versions, and any content of config.json.                               *)
(***************************************************************************)
EXTENDS InstallerSafety, LeastNumber

(***************************************************************************)
(* Lemmas about version numbers                                            *)
(***************************************************************************)

LEMMA FirstIsLeast ==
  ASSUME NEW S \in SUBSET Nat, S # {}
  PROVE  First(S) \in S /\ \A i \in S : First(S) <= i
<1>1. \E m \in S : \A i \in S : m <= i
  BY LeastExists
<1>2. QED
  BY <1>1 DEF First

LEMMA PartIsNumber ==
  ASSUME NEW v \in Version, NEW i \in Nat \ {0}
  PROVE  Part(v, i) \in Nat
BY DEF Part, Version

LEMMA LongerBounds ==
  ASSUME NEW v \in Version, NEW w \in Version
  PROVE  /\ Longer(v, w) \in Nat
         /\ Len(v) <= Longer(v, w) /\ Len(w) <= Longer(v, w)
         /\ \A i \in Nat \ {0} : Part(v, i) # Part(w, i) => i \in 1..Longer(v, w)
BY DEF Longer, Part, Version

\* compare_versions never calls a version that is behind another one equal or
\* greater.
LEMMA CompareIsOrder ==
  ASSUME NEW v \in Version, NEW w \in Version, Compare(v, w) >= 0
  PROVE  AtLeast(v, w)
<1> DEFINE f == First(Differ(v, w))
<1> SUFFICES ASSUME NEW i \in 1..Longer(v, w), Part(v, i) < Part(w, i)
             PROVE  \E j \in 1..(i - 1) : Part(v, j) > Part(w, j)
  BY DEF AtLeast
<1>1. Longer(v, w) \in Nat
  BY LongerBounds
<1>2. \A k \in 1..Longer(v, w) : Part(v, k) \in Nat /\ Part(w, k) \in Nat
  BY <1>1, PartIsNumber
<1>3. Differ(v, w) \in SUBSET Nat /\ i \in Differ(v, w)
  BY <1>1, <1>2 DEF Differ
<1>4. f \in Differ(v, w) /\ f <= i
  BY <1>3, FirstIsLeast
<1>5. f \in 1..Longer(v, w) /\ Part(v, f) # Part(w, f)
  BY <1>4 DEF Differ
<1>6. ~ (Part(v, f) < Part(w, f))
  BY <1>3 DEF Compare
<1>7. Part(v, f) > Part(w, f)
  BY <1>2, <1>5, <1>6
<1>8. f \in 1..(i - 1)
  BY <1>1, <1>2, <1>4, <1>5, <1>7
<1>9. QED
  BY <1>7, <1>8

\* The order of versions is transitive.
LEMMA OrderTransitive ==
  ASSUME NEW u \in Version, NEW v \in Version, NEW w \in Version,
         AtLeast(u, v), AtLeast(v, w)
  PROVE  AtLeast(u, w)
<1> SUFFICES ASSUME NEW i \in 1..Longer(u, w), Part(u, i) < Part(w, i),
                    \A j \in 1..(i - 1) : ~ (Part(u, j) > Part(w, j))
             PROVE  FALSE
  BY DEF AtLeast
<1> DEFINE D == {k \in 1..i : Part(u, k) # Part(v, k) \/ Part(v, k) # Part(w, k)}
<1>1. i \in Nat \ {0}
  BY LongerBounds
<1>2. \A k \in 1..i : Part(u, k) \in Nat /\ Part(v, k) \in Nat /\ Part(w, k) \in Nat
  BY <1>1, PartIsNumber
<1>3. D \in SUBSET Nat /\ i \in D
  BY <1>1, <1>2
<1>4. PICK k \in D : \A l \in D : k <= l
  BY <1>3, LeastExists
<1>5. k \in 1..i /\ \A l \in 1..(k - 1) : Part(u, l) = Part(v, l) /\ Part(v, l) = Part(w, l)
  BY <1>1, <1>4
<1>6. Part(u, k) >= Part(v, k)
  <2> SUFFICES ASSUME Part(u, k) < Part(v, k) PROVE FALSE
    BY <1>2, <1>5
  <2>1. k \in 1..Longer(u, v)
    BY <1>1, <1>2, <1>5, LongerBounds
  <2>2. PICK j \in 1..(k - 1) : Part(u, j) > Part(v, j)
    BY <2>1 DEF AtLeast
  <2>3. QED
    BY <1>1, <1>2, <1>5, <2>2
<1>7. Part(v, k) >= Part(w, k)
  <2> SUFFICES ASSUME Part(v, k) < Part(w, k) PROVE FALSE
    BY <1>2, <1>5
  <2>1. k \in 1..Longer(v, w)
    BY <1>1, <1>2, <1>5, LongerBounds
  <2>2. PICK j \in 1..(k - 1) : Part(v, j) > Part(w, j)
    BY <2>1 DEF AtLeast
  <2>3. QED
    BY <1>1, <1>2, <1>5, <2>2
<1>8. Part(u, k) > Part(w, k)
  BY <1>2, <1>4, <1>5, <1>6, <1>7
<1>9. k \in 1..(i - 1)
  BY <1>1, <1>2, <1>5, <1>8
<1>10. QED
  BY <1>8, <1>9

\* Three parts of a version decide, for no more are required.
LEMMA ParsedIsEnough ==
  ASSUME NEW v \in Version, NEW m \in Version, Len(m) <= 3, AtLeast(Parsed(v), m)
  PROVE  AtLeast(v, m)
<1> DEFINE n == IF Len(v) > 3 THEN 3 ELSE Len(v)
<1>1. Len(v) \in Nat /\ Len(m) \in Nat /\ n \in 0..Len(v) /\ v \in Seq(Nat)
  BY DEF Version
<1>2. Parsed(v) \in Version /\ Len(Parsed(v)) = n /\ \A i \in 1..n : Parsed(v)[i] = v[i]
  BY <1>1 DEF Parsed, Version
<1>3. \A i \in 1..3 : Part(Parsed(v), i) = Part(v, i)
  BY <1>1, <1>2 DEF Part
<1> SUFFICES ASSUME NEW i \in 1..Longer(v, m), Part(v, i) < Part(m, i)
             PROVE  \E j \in 1..(i - 1) : Part(v, j) > Part(m, j)
  BY DEF AtLeast
<1>4. i \in Nat \ {0} /\ Part(v, i) \in Nat
  BY LongerBounds, PartIsNumber
<1>5. i <= Len(m)
  BY <1>4 DEF Part
<1>6. i \in 1..3 /\ i \in 1..Longer(Parsed(v), m)
  BY <1>1, <1>2, <1>4, <1>5 DEF Longer
<1>7. PICK j \in 1..(i - 1) : Part(Parsed(v), j) > Part(m, j)
  BY <1>3, <1>6 DEF AtLeast
<1>8. QED
  BY <1>3, <1>6, <1>7

(***************************************************************************)
(* Lemmas about the state and the helpers of the steps                     *)
(***************************************************************************)

LEMMA WantedIs ==
  /\ Wanted \in Seq(Dep) /\ Len(Wanted) = 3 /\ DOMAIN Wanted = 1..3
  /\ Wanted[1] = Git /\ Wanted[2] = "terraform" /\ Wanted[3] = "vault"
BY DEF Wanted, Dep, Git

\* The dependency that a run of the Windows engine is at.
LEMMA ItemIs ==
  ASSUME TypeOK, NEW p \in Proc, pc[p] \notin {"check", "over"}
  PROVE  /\ job[p] \in 1..3
         /\ Item(p) \in Dep
         /\ Item(p) # Git => Item(p) \in Tool
         /\ Item(p) = Git <=> job[p] = 1
<1>1. job[p] \in 1..3
  BY WantedIs DEF TypeOK
<1>2. QED
  BY <1>1, WantedIs DEF Item, Dep, Tool, Git

LEMMA AnswerTyped ==
  ASSUME NEW v \in Version
  PROVE  /\ [fails |-> FALSE, line |-> 1, version |-> v] \in Reply
         /\ [fails |-> FALSE, line |-> 1, version |-> v] # Absent
         /\ [fails |-> FALSE, line |-> 1, version |-> v].version = v
BY DEF Reply, Absent

\* What writing and removing a temporary file do to the others' files.
LEMMA PutDoes ==
  ASSUME TypeOK, NEW p \in Proc, NEW d \in Dep, NEW content \in Content,
         Put(p, d, content)
  PROVE  /\ temp' = [temp EXCEPT ![d] = content]
         /\ temp' \in [Dep -> Content]
         /\ meddled' \in [Proc -> BOOLEAN]
         /\ \A q \in Proc : meddled[q] => meddled'[q]
         /\ \A q \in Proc \ {p} : pc[q] = "use" /\ Item(q) = d => meddled'[q]
<1>1. meddled \in [Proc -> BOOLEAN] /\ temp \in [Dep -> Content]
  BY DEF TypeOK
<1>2. \A q \in Proc : meddled'[q] = (meddled[q] \/ q \in Trusting(p, d))
  BY DEF Put
<1>3. meddled' \in [Proc -> BOOLEAN]
  <2>1. \A q \in Proc : (meddled[q] \/ q \in Trusting(p, d)) \in BOOLEAN
    OBVIOUS
  <2>2. QED
    BY <2>1 DEF Put
<1>4. \A q \in Proc \ {p} : pc[q] = "use" /\ Item(q) = d => q \in Trusting(p, d)
  BY DEF Trusting
<1>5. QED
  BY <1>1, <1>2, <1>3, <1>4 DEF Put

LEMMA RemoveDoes ==
  ASSUME TypeOK, NEW p \in Proc, NEW d \in Dep, Remove(p, d)
  PROVE  /\ temp' \in [Dep -> Content]
         /\ meddled' \in [Proc -> BOOLEAN]
         /\ \A q \in Proc : meddled[q] => meddled'[q]
         /\ \A e \in Dep \ {d} : temp'[e] = temp[e]
         /\ temp'[d] = "none" \/ \E q \in Proc \ {p} : Holds(q) /\ Item(q) = d
         /\ \A q \in Proc \ {p} : pc[q] = "use" => meddled'[q] \/ temp'[Item(q)] = temp[Item(q)]
<1>1. CASE Put(p, d, "none")
  <2>1. /\ temp' = [temp EXCEPT ![d] = "none"]
        /\ temp' \in [Dep -> Content]
        /\ meddled' \in [Proc -> BOOLEAN]
        /\ \A q \in Proc : meddled[q] => meddled'[q]
        /\ \A q \in Proc \ {p} : pc[q] = "use" /\ Item(q) = d => meddled'[q]
    BY <1>1, PutDoes DEF Content
  <2>2. temp \in [Dep -> Content]
    BY DEF TypeOK
  <2>3. \A q \in Proc \ {p} : pc[q] = "use" => Item(q) \in Dep
    BY ItemIs
  <2>4. QED
    BY <2>1, <2>2, <2>3
<1>2. CASE /\ \E q \in Proc \ {p} : pc[q] \in {"download", "use"} /\ Item(q) = d
           /\ UNCHANGED <<temp, meddled>>
  BY <1>2 DEF TypeOK, Holds
<1>3. QED
  BY <1>1, <1>2 DEF Remove

\* Going on to the next dependency.
LEMMA ProceedDoes ==
  ASSUME TypeOK, NEW p \in Proc, pc[p] \notin {"check", "over"}, Proceed(p)
  PROVE  /\ pc' \in [Proc -> Step] /\ job' \in [Proc -> Nat \ {0}]
         /\ pc'[p] \in {"integrate", "ensure"} /\ job'[p] \in 1..3
         /\ \A q \in Proc \ {p} : pc'[q] = pc[q] /\ job'[q] = job[q]
         /\ result' = result
<1>1. job[p] \in 1..3 /\ Len(Wanted) = 3
  BY ItemIs, WantedIs
<1>2. pc \in [Proc -> Step] /\ job \in [Proc -> Nat \ {0}] /\ result' = result
  BY DEF TypeOK, Proceed
<1>3. CASE job[p] = 3
  <2>1. pc' = [pc EXCEPT ![p] = "integrate"] /\ job' = job
    BY <1>1, <1>3 DEF Proceed, Go
  <2>2. QED
    BY <1>1, <1>2, <2>1 DEF Step
<1>4. CASE job[p] # 3
  <2>1. pc' = [pc EXCEPT ![p] = "ensure"] /\ job' = [job EXCEPT ![p] = job[p] + 1]
    BY <1>1, <1>4 DEF Proceed, Go
  <2>2. QED
    BY <1>1, <1>2, <1>4, <2>1 DEF Step
<1>5. QED
  BY <1>3, <1>4

LEMMA GiveUpDoes ==
  ASSUME TypeOK, NEW p \in Proc, pc[p] \notin {"check", "over"}, GiveUp(p)
  PROVE  /\ pc' \in [Proc -> Step] /\ job' \in [Proc -> Nat \ {0}]
         /\ pc'[p] \in {"integrate", "ensure", "over"}
         /\ pc'[p] # "over" => job'[p] \in 1..3 /\ job[p] # 1 /\ result' = result
         /\ \A q \in Proc \ {p} : pc'[q] = pc[q] /\ job'[q] = job[q]
         /\ result' = result \/ result' = [result EXCEPT ![p] = "failure"]
         /\ result' \in [Proc -> {"none", "success", "failure", "killed"}]
         /\ claim' \in [Proc -> {"nothing", "ok", "installed", "missing"}]
         /\ \A q \in Proc \ {p} : claim'[q] = claim[q] /\ result'[q] = result[q]
         /\ \/ Item(p) = Git /\ claim'[p] = "missing" /\ pc'[p] = "over"
            \/ Item(p) # Git /\ claim'[p] = claim[p] /\ pc'[p] # "over"
         /\ result'[p] = "success" => result[p] = "success"
<1>1. CASE Item(p) = Git
  <2>1. /\ pc' = [pc EXCEPT ![p] = "over"] /\ result' = [result EXCEPT ![p] = "failure"]
        /\ claim' = [claim EXCEPT ![p] = "missing"] /\ job' = job
    BY <1>1 DEF GiveUp, End, Says
  <2>2. pc'[p] = "over" /\ claim'[p] = "missing" /\ result'[p] = "failure"
    BY <2>1 DEF TypeOK
  <2>3. QED
    BY <1>1, <2>1, <2>2 DEF TypeOK, Step
<1>2. CASE Item(p) # Git
  <2>1. Proceed(p) /\ claim' = claim /\ job[p] # 1
    BY <1>2, ItemIs DEF GiveUp
  <2>2. pc'[p] # "over" /\ result' = result
    BY <2>1, ProceedDoes
  <2>3. QED
    BY <1>2, <2>1, <2>2, ProceedDoes DEF TypeOK
<1>3. QED
  BY <1>1, <1>2

(***************************************************************************)
(* Types                                                                   *)
(***************************************************************************)

LEMMA InitTyped == Init => TypeOK
<1> SUFFICES ASSUME Init PROVE TypeOK
  OBVIOUS
<1>1. site \in Site /\ tool \in [Dep -> Reply]
  BY MachineAssumption DEF Init
<1>2. /\ unread \in [Proc -> Seq(Entry)] /\ list \in [Proc -> Seq(Dep)]
      /\ ok \in [Proc -> SUBSET Dep]
  BY DEF Init
<1>3. 1 \in DOMAIN Wanted
  BY WantedIs
<1>4. pc \in [Proc -> Step] /\ job \in [Proc -> Nat \ {0}] /\ \A p \in Proc : job[p] = 1
  BY DEF Init, Step
<1>5. temp \in [Dep -> Content] /\ bin \in [Tool -> Content]
  BY DEF Init, Content
<1>6. /\ sum \in [Proc -> {"none", "published"}]
      /\ result \in [Proc -> {"none", "success", "failure", "killed"}]
      /\ meddled \in [Proc -> BOOLEAN]
      /\ claim \in [Proc -> {"nothing", "ok", "installed", "missing"}]
      /\ brought \in [Proc -> {"nothing", "latest", "unknown"}]
      /\ registered \in BOOLEAN /\ left \subseteq Dep
  BY DEF Init
<1>7. QED
  BY <1>1, <1>2, <1>3, <1>4, <1>5, <1>6 DEF TypeOK

\* What is read of an answer is not more recent than the whole of it.
LEMMA ReadIsRecent ==
  ASSUME NEW reply \in Reply, NEW d \in Dep,
         NEW version \in {Found(reply), FoundOnLine(reply)},
         version # <<>>, Compare(version, Min[d]) >= 0
  PROVE  AtLeast(reply.version, Min[d])
<1>1. reply.version \in Version /\ Min[d] \in Version /\ Len(Min[d]) <= 3
  BY VersionAssumption DEF Reply
<1>2. version = Parsed(reply.version)
  BY DEF Found, FoundOnLine, ParsedPair, ParsedTriple
<1>3. Parsed(reply.version) \in Version
  BY <1>1 DEF Parsed, Version
<1>4. AtLeast(Parsed(reply.version), Min[d])
  BY <1>1, <1>2, <1>3, CompareIsOrder
<1>5. QED
  BY <1>1, <1>4, ParsedIsEnough

\* The check of an entry either ends its run or goes on to the next one, and
\* counts nothing but what is recent enough.
LEMMA ExamineDoes ==
  ASSUME TypeOK, NEW p \in Proc, Check(p) \/ CheckBuiltin(p)
  PROVE  /\ pc[p] = "check"
         /\ UNCHANGED <<site, machine, unread, list, sum, history>>
         /\ \/ /\ pc' = [pc EXCEPT ![p] = "over"]
               /\ result' = [result EXCEPT ![p] = "failure"]
               /\ UNCHANGED <<job, ok>>
            \/ /\ job' = [job EXCEPT ![p] = @ + 1]
               /\ UNCHANGED <<pc, result>>
               /\ \E found \in SUBSET Dep :
                    /\ ok' = [ok EXCEPT ![p] = @ \cup found]
                    /\ \A d \in found : Recent(d)
<1> DEFINE d == list[p][job[p]]
<1>1. /\ pc[p] = "check" /\ job[p] <= Len(list[p])
      /\ UNCHANGED <<site, machine, unread, list, sum, history>>
  BY DEF Check, CheckBuiltin, Examining
<1>2. d \in Dep /\ tool[d] \in Reply
  BY <1>1 DEF TypeOK
<1>3. PICK version \in {Found(tool[d]), FoundOnLine(tool[d])} : Examine(p, version)
  BY DEF Check, CheckBuiltin
<1> DEFINE found == {e \in {d} : /\ FirstEntry(p, d) = job[p]
                                 /\ InPath(d)
                                 /\ version # <<>>
                                 /\ Compare(version, Min[d]) >= 0}
<1>4. CASE InPath(d) /\ Unreadable(version)
  BY <1>1, <1>3, <1>4 DEF Examine, End
<1>5. CASE ~ (InPath(d) /\ Unreadable(version))
  <2>1. /\ ok' = [ok EXCEPT ![p] = @ \cup found]
        /\ job' = [job EXCEPT ![p] = @ + 1]
        /\ UNCHANGED <<pc, result>>
    BY <1>3, <1>5 DEF Examine
  <2>2. found \in SUBSET Dep
    BY <1>2
  <2>3. \A e \in found : Recent(e)
    BY <1>2, <1>3, ReadIsRecent DEF Recent, InPath
  <2> HIDE DEF found
  <2>4. QED
    BY <1>1, <2>1, <2>2, <2>3
<1>6. QED
  BY <1>4, <1>5

\* The steps up to the choice of an engine.
LEMMA CheckTyped ==
  ASSUME TypeOK, NEW p \in Proc,
         \/ Start(p) \/ ReadEntry(p) \/ EntriesRead(p) \/ Check(p) \/ CheckBuiltin(p)
         \/ EngineStarts(p) \/ NoEngine(p) \/ WindowsStarts(p)
  PROVE  TypeOK'
<1> USE DEF TypeOK, Go, End, machine, run, history, Step
<1>1. CASE Start(p)
  <2>1. list' \in [Proc -> Seq(Dep)] /\ unread' \in [Proc -> Seq(Entry)]
    <3>1. Wanted \in Seq(Dep) /\ Lists \subseteq Seq(Entry)
      BY WantedIs, MachineAssumption
    <3>2. QED
      BY <1>1, <3>1 DEF Start
  <2>2. QED
    BY <1>1, <2>1 DEF Start
<1>2. CASE ReadEntry(p)
  <2>1. unread[p] \in Seq(Entry) /\ unread[p] # <<>>
    BY <1>2 DEF ReadEntry
  <2>2. Tail(unread[p]) \in Seq(Entry) /\ Head(unread[p]) \in Entry
    BY <2>1
  <2>3. Head(unread[p]) # Unnamed => Append(list[p], Head(unread[p])) \in Seq(Dep)
    BY <1>2, <2>2 DEF ReadEntry, Entry
  <2>4. unread' \in [Proc -> Seq(Entry)] /\ list' \in [Proc -> Seq(Dep)]
    BY <1>2, <2>2, <2>3 DEF ReadEntry
  <2>5. QED
    BY <1>2, <2>4 DEF ReadEntry
<1>3. CASE EntriesRead(p)
  <2>1. unread' \in [Proc -> Seq(Entry)]
    BY <1>3 DEF EntriesRead
  <2>2. QED
    BY <1>3, <2>1 DEF EntriesRead
<1>4. CASE Check(p) \/ CheckBuiltin(p)
  <2>1. /\ pc[p] = "check"
        /\ UNCHANGED <<site, machine, unread, list, sum, history>>
    BY <1>4, ExamineDoes
  <2>2. CASE /\ pc' = [pc EXCEPT ![p] = "over"]
             /\ result' = [result EXCEPT ![p] = "failure"]
             /\ UNCHANGED <<job, ok>>
    BY <2>1, <2>2
  <2>3. CASE /\ job' = [job EXCEPT ![p] = @ + 1]
             /\ UNCHANGED <<pc, result>>
             /\ \E found \in SUBSET Dep : ok' = [ok EXCEPT ![p] = @ \cup found]
    <3>1. ok' \in [Proc -> SUBSET Dep] /\ job' \in [Proc -> Nat \ {0}]
      BY <2>3
    <3>2. QED
      BY <2>1, <2>3, <3>1
  <2>4. QED
    BY <1>4, <2>2, <2>3, ExamineDoes
<1>5. CASE EngineStarts(p)
  BY <1>5, WantedIs DEF EngineStarts, AllExamined
<1>6. CASE NoEngine(p)
  BY <1>6 DEF NoEngine, AllExamined
<1>7. CASE WindowsStarts(p)
  BY <1>7 DEF WindowsStarts
<1>8. QED
  BY <1>1, <1>2, <1>3, <1>4, <1>5, <1>6, <1>7

\* The engines of Linux and macOS.
LEMMA UnixTyped ==
  ASSUME TypeOK, NEW p \in Proc,
         \/ LinuxDone(p) \/ LinuxInstalls(p) \/ MacDone(p) \/ BrewInstalls(p)
         \/ Refresh(p) \/ Manage(p)
  PROVE  TypeOK'
<1> USE DEF TypeOK, Go, End, Says, machine, run, history, Step
<1>1. CASE LinuxDone(p)
  BY <1>1 DEF LinuxDone
<1>2. CASE LinuxInstalls(p)
  BY <1>2 DEF LinuxInstalls
<1>3. CASE MacDone(p)
  BY <1>3 DEF MacDone
<1>4. CASE BrewInstalls(p)
  BY <1>4 DEF BrewInstalls
<1>5. CASE Refresh(p)
  BY <1>5 DEF Refresh
<1>6. CASE Manage(p)
  <2>1. tool' \in [Dep -> Reply]
    <3>1. \A reply \in Managed : reply \in Reply
      BY AnswerTyped, VersionAssumption DEF Managed, Dep
    <3>2. QED
      BY <1>6, <3>1 DEF Manage
  <2>2. QED
    BY <1>6, <2>1 DEF Manage, Brings
<1>7. QED
  BY <1>1, <1>2, <1>3, <1>4, <1>5, <1>6

\* The engine of Windows, up to a verified download.
LEMMA FetchTyped ==
  ASSUME TypeOK, NEW p \in Proc,
         \/ Ensure(p) \/ ToolsDirFails(p) \/ Lookup(p) \/ Open(p)
         \/ Download(p) \/ DownloadFails(p) \/ Verify(p)
  PROVE  TypeOK'
<1>1. pc[p] \in {"ensure", "lookup", "open", "download", "hash"}
  BY DEF Ensure, ToolsDirFails, Lookup, Open, Download, DownloadFails, Verify
<1>2. Item(p) \in Dep /\ job[p] \in 1..3 /\ DOMAIN Wanted = 1..3
  BY <1>1, ItemIs, WantedIs
<1> USE DEF TypeOK, Go, End, Says, machine, run, history, Step
<1>3. CASE Ensure(p)
  <2>1. CASE Proceed(p)
    BY <1>1, <1>2, <1>3, <2>1, ProceedDoes DEF Ensure
  <2>2. CASE ~ Proceed(p)
    BY <1>2, <1>3, <2>2 DEF Ensure
  <2>3. QED
    BY <2>1, <2>2
<1>4. CASE ToolsDirFails(p)
  BY <1>4 DEF ToolsDirFails
<1>5. CASE Lookup(p)
  <2>1. CASE GiveUp(p) /\ UNCHANGED sum
    BY <1>1, <1>2, <1>5, <2>1, GiveUpDoes DEF Lookup
  <2>2. CASE /\ \E t \in {"none", "published"} : sum' = [sum EXCEPT ![p] = t]
             /\ Go(p, "open")
             /\ UNCHANGED <<job, result, claim>>
    BY <1>2, <1>5, <2>2 DEF Lookup
  <2>3. QED
    BY <1>5, <2>1, <2>2 DEF Lookup, GithubSums, HashicorpSums
<1>6. CASE Open(p)
  <2>1. CASE GiveUp(p) /\ UNCHANGED <<temp, meddled>>
    BY <1>1, <1>2, <1>6, <2>1, GiveUpDoes DEF Open
  <2>2. CASE Put(p, Item(p), "partial") /\ Go(p, "download") /\ UNCHANGED <<job, result, claim>>
    <3>1. temp' \in [Dep -> Content] /\ meddled' \in [Proc -> BOOLEAN]
      BY <1>2, <2>2, PutDoes DEF Content
    <3>2. QED
      BY <1>2, <1>6, <2>2, <3>1 DEF Open
  <2>3. QED
    BY <1>6, <2>1, <2>2 DEF Open
<1>7. CASE Download(p)
  <2>1. temp' \in [Dep -> Content] /\ meddled' \in [Proc -> BOOLEAN]
    BY <1>2, <1>7, PutDoes DEF Download, Content
  <2>2. QED
    BY <1>2, <1>7, <2>1 DEF Download
<1>8. CASE DownloadFails(p)
  <2>1. temp' \in [Dep -> Content] /\ meddled' \in [Proc -> BOOLEAN]
    BY <1>2, <1>8, RemoveDoes DEF DownloadFails
  <2>2. QED
    BY <1>1, <1>2, <1>8, <2>1, GiveUpDoes DEF DownloadFails
<1>9. CASE Verify(p)
  <2>1. CASE Accepted(p)
    BY <1>2, <1>9, <2>1 DEF Verify
  <2>2. CASE ~ Accepted(p)
    <3>1. Remove(p, Item(p)) /\ GiveUp(p)
      BY <1>9, <2>2 DEF Verify
    <3>2. temp' \in [Dep -> Content] /\ meddled' \in [Proc -> BOOLEAN]
      BY <1>2, <3>1, RemoveDoes
    <3>3. QED
      BY <1>1, <1>2, <1>9, <3>1, <3>2, GiveUpDoes DEF Verify
  <2>3. QED
    BY <2>1, <2>2
<1>10. QED
  BY <1>3, <1>4, <1>5, <1>6, <1>7, <1>8, <1>9

\* The engine of Windows, from the verified download on.
LEMMA UseTyped ==
  ASSUME TypeOK, NEW p \in Proc,
         \/ GitInstalls(p) \/ GitInstallFails(p)
         \/ Unzip(p) \/ UnzipFails(p) \/ UnzipThrows(p)
  PROVE  TypeOK'
<1>1. pc[p] = "use"
  BY DEF GitInstalls, GitInstallFails, Unzip, UnzipFails, UnzipThrows, Using
<1>2. /\ Item(p) \in Dep /\ job[p] \in 1..3 /\ DOMAIN Wanted = 1..3
      /\ Item(p) # Git => Item(p) \in Tool
  BY <1>1, ItemIs, WantedIs
<1>3. Remove(p, Item(p)) => temp' \in [Dep -> Content] /\ meddled' \in [Proc -> BOOLEAN]
  BY <1>2, RemoveDoes
<1>4. Item(p) # Git => \A content \in Spoilt(Item(p)) : content \in Content
  BY <1>2 DEF Spoilt, TypeOK, Content
<1> USE DEF TypeOK, End, Says, machine, run, history, Step
<1>5. CASE GitInstalls(p)
  <2>1. Remove(p, Item(p)) /\ Proceed(p)
    BY <1>5 DEF GitInstalls
  <2>2. tool' \in [Dep -> Reply]
    <3>1. [fails |-> FALSE, line |-> 1, version |-> Latest] \in Reply
      BY AnswerTyped, VersionAssumption
    <3>2. QED
      BY <1>5, <3>1 DEF GitInstalls
  <2>3. /\ claim' \in [Proc -> {"nothing", "ok", "installed", "missing"}]
        /\ brought' \in [Proc -> {"nothing", "latest", "unknown"}]
    BY <1>5 DEF GitInstalls, Brings
  <2>4. QED
    BY <1>1, <1>2, <1>3, <1>5, <2>1, <2>2, <2>3, ProceedDoes DEF GitInstalls
<1>6. CASE GitInstallFails(p)
  <2>1. Remove(p, Item(p)) /\ GiveUp(p)
    BY <1>6 DEF GitInstallFails
  <2>2. QED
    BY <1>1, <1>2, <1>3, <1>6, <2>1, GiveUpDoes DEF GitInstallFails
<1>7. CASE Unzip(p)
  <2>1. bin' \in [Tool -> Content]
    BY <1>2, <1>7 DEF Unzip
  <2>2. QED
    BY <1>1, <1>2, <1>3, <1>7, <2>1, ProceedDoes DEF Unzip
<1>8. CASE UnzipFails(p)
  <2>1. bin' \in [Tool -> Content]
    BY <1>2, <1>4, <1>8 DEF UnzipFails
  <2>2. QED
    BY <1>1, <1>2, <1>3, <1>8, <2>1, ProceedDoes DEF UnzipFails
<1>9. CASE UnzipThrows(p)
  <2>1. bin' \in [Tool -> Content]
    BY <1>2, <1>4, <1>9 DEF UnzipThrows
  <2>2. QED
    BY <1>2, <1>9, <2>1 DEF UnzipThrows
<1>10. QED
  BY <1>5, <1>6, <1>7, <1>8, <1>9

\* The machine keeps its platform.
LEMMA SiteStays ==
  ASSUME Next
  PROVE  site' = site
BY DEF Next, OwnStep, AwaitedStep, Killed, Start, ReadEntry, EntriesRead, Check,
       CheckBuiltin, EngineStarts, NoEngine, LinuxDone, LinuxInstalls, MacDone,
       BrewInstalls, WindowsStarts, Ensure, ToolsDirFails, Lookup, Open, Verify, Unzip,
       UnzipFails, UnzipThrows, Integrate, Refresh, Manage, Download, DownloadFails,
       GitInstalls, GitInstallFails

LEMMA NextTyped == TypeOK /\ [Next]_vars => TypeOK'
<1> SUFFICES ASSUME TypeOK, [Next]_vars PROVE TypeOK'
  OBVIOUS
<1>1. CASE UNCHANGED vars
  BY <1>1 DEF TypeOK, vars, machine, run, history
<1>2. ASSUME NEW p \in Proc, Integrate(p) \/ Killed(p)
      PROVE  TypeOK'
  <2>1. Holds(p) => Item(p) \in Dep
    BY ItemIs DEF Holds
  <2>2. CASE Integrate(p)
    BY <2>2 DEF Integrate, TypeOK, End, run, history, Step
  <2>3. CASE Killed(p)
    BY <2>1, <2>3 DEF Killed, TypeOK, End, machine, run, Step
  <2>4. QED
    BY <1>2, <2>2, <2>3
<1>3. QED
  BY <1>1, <1>2, CheckTyped, UnixTyped, FetchTyped, UseTyped DEF Next, OwnStep, AwaitedStep

\* Every variable keeps its type, and a run of an engine is always at one of
\* the three dependencies.
THEOREM TypeCorrect == Spec => []TypeOK
<1>1. QED
  BY InitTyped, NextTyped, PTL DEF Spec

(***************************************************************************)
(* What the check of the dependencies finds                                *)
(***************************************************************************)

\* No other step changes what was found.
LEMMA OnlyCheckFinds ==
  ASSUME Next
  PROVE  ok' = ok \/ \E p \in Proc : Check(p) \/ CheckBuiltin(p)
BY DEF Next, OwnStep, AwaitedStep, Killed, Start, ReadEntry, EntriesRead, EngineStarts,
       NoEngine, LinuxDone, LinuxInstalls, MacDone, BrewInstalls, WindowsStarts, Ensure,
       ToolsDirFails, Lookup, Open, Verify, Unzip, UnzipFails, UnzipThrows, Integrate,
       Refresh, Manage, Download, DownloadFails, GitInstalls, GitInstallFails, run

LEMMA RecentFound ==
  ASSUME TypeOK, [Next]_vars, NEW p \in Proc, NEW d \in ok'[p] \ ok[p]
  PROVE  Recent(d)
<1>1. CASE ok' = ok
  BY <1>1
<1>2. ASSUME NEW q \in Proc, Check(q) \/ CheckBuiltin(q)
      PROVE  Recent(d)
  <2>1. ok' = ok \/ \E found \in SUBSET Dep : /\ ok' = [ok EXCEPT ![q] = @ \cup found]
                                              /\ \A e \in found : Recent(e)
    BY <1>2, ExamineDoes
  <2>2. ok \in [Proc -> SUBSET Dep]
    BY DEF TypeOK
  <2>3. QED
    BY <2>1, <2>2
<1>3. QED
  BY <1>1, <1>2, OnlyCheckFinds DEF vars, run

\* Whenever a run adds a dependency to those it found recent enough, the whole
\* version of that tool is at least the one that is required.
THEOREM AcceptsRecent == Spec => AcceptsOnlyRecent
<1>1. TypeOK /\ [Next]_vars => [\A p \in Proc : \A d \in ok'[p] \ ok[p] : Recent(d)]_vars
  BY RecentFound
<1>2. QED
  BY <1>1, TypeCorrect, PTL DEF Spec, AcceptsOnlyRecent

(***************************************************************************)
(* Answers only rise, so what was found lasts                              *)
(***************************************************************************)

LEMMA AnswersRise ==
  ASSUME TypeOK, [Next]_vars
  PROVE  \A d \in Dep : Recent(d) => Recent(d)'
<1>1. tool \in [Dep -> Reply] /\ Git \in Dep
  BY DEF TypeOK, Dep
<1>2. ASSUME tool' = tool
      PROVE  \A d \in Dep : Recent(d) => Recent(d)'
  BY <1>2 DEF Recent
<1>3. ASSUME NEW p \in Proc, Manage(p), tool' # tool
      PROVE  \A d \in Dep : Recent(d) => Recent(d)'
  <2>1. PICK reply \in Managed : tool' = [tool EXCEPT ![Git] = reply] /\ reply # tool[Git]
    BY <1>1, <1>3 DEF Manage
  <2>2. PICK v \in Packaged : /\ reply = [fails |-> FALSE, line |-> 1, version |-> v]
                              /\ tool[Git] = Absent \/ AtLeast(v, tool[Git].version)
    BY <2>1 DEF Managed
  <2>3. reply # Absent /\ reply.version = v /\ v \in Version
    BY <2>2, VersionAssumption, AnswerTyped
  <2>4. tool[Git].version \in Version /\ Min[Git] \in Version
    BY <1>1, VersionAssumption DEF Reply
  <2>5. Recent(Git) => AtLeast(v, Min[Git])
    BY <2>2, <2>3, <2>4, OrderTransitive DEF Recent
  <2>6. tool'[Git] = reply /\ \A d \in Dep \ {Git} : tool'[d] = tool[d]
    BY <1>1, <2>1
  <2>7. QED
    BY <2>3, <2>5, <2>6 DEF Recent
<1>4. ASSUME NEW p \in Proc, GitInstalls(p), tool' # tool
      PROVE  Recent(Git)' /\ \A d \in Dep : Recent(d) => Recent(d)'
  <2>1. tool' = [tool EXCEPT ![Git] = [fails |-> FALSE, line |-> 1, version |-> Latest]]
    BY <1>4 DEF GitInstalls
  <2>2. Recent(Git)'
    BY <1>1, <2>1, VersionAssumption, AnswerTyped DEF Recent
  <2>3. \A d \in Dep \ {Git} : tool'[d] = tool[d]
    BY <1>1, <2>1
  <2>4. QED
    BY <2>2, <2>3 DEF Recent
<1>5. tool' = tool \/ \E p \in Proc : Manage(p) \/ GitInstalls(p)
  BY DEF Next, OwnStep, AwaitedStep, Killed, Start, ReadEntry, EntriesRead, Check,
         CheckBuiltin, EngineStarts, NoEngine, LinuxDone, LinuxInstalls, MacDone,
         BrewInstalls, WindowsStarts, Ensure, ToolsDirFails, Lookup, Open, Verify, Unzip,
         UnzipFails, UnzipThrows, Integrate, Refresh, Download, DownloadFails,
         GitInstallFails, vars, machine
<1>6. \A d \in Dep : Recent(d) => Recent(d)'
  BY <1>2, <1>3, <1>4, <1>5
<1>7. QED
  BY <1>6

\* A git that the PATH finds and that git's own installer brought is recent.
LEMMA InstallerBringsGit ==
  ASSUME TypeOK, NEW p \in Proc, GitInstalls(p)
  PROVE  /\ brought'[p] \in {"latest", "unknown"}
         /\ \A q \in Proc \ {p} : brought'[q] = brought[q]
         /\ brought'[p] = "latest" => Recent(Git)'
<1>1. /\ tool \in [Dep -> Reply] /\ Git \in Dep
      /\ brought \in [Proc -> {"nothing", "latest", "unknown"}]
  BY DEF TypeOK, Dep
<1>2. CASE Brings(p, "unknown")
  BY <1>1, <1>2 DEF Brings
<1>3. CASE /\ tool' = [tool EXCEPT ![Git] = [fails |-> FALSE, line |-> 1, version |-> Latest]]
           /\ Brings(p, "latest")
  <2>1. Recent(Git)'
    BY <1>1, <1>3, VersionAssumption, AnswerTyped DEF Recent
  <2>2. QED
    BY <1>1, <1>3, <2>1 DEF Brings
<1>4. QED
  BY <1>2, <1>3 DEF GitInstalls

\* The same, as seen from one run.
LEMMA FindingsStay ==
  ASSUME TypeOK, FindingsLast, [Next]_vars
  PROVE  FindingsLast'
<1> SUFFICES ASSUME NEW p \in Proc, NEW d \in ok'[p] PROVE Recent(d)'
  BY DEF FindingsLast
<1>1. CASE d \in ok[p]
  <2>1. d \in Dep /\ Recent(d)
    BY <1>1 DEF TypeOK, FindingsLast
  <2>2. QED
    BY <2>1, AnswersRise
<1>2. CASE d \notin ok[p]
  <2>1. Recent(d)
    BY <1>2, RecentFound
  <2>2. \E q \in Proc : Check(q) \/ CheckBuiltin(q)
    BY <1>2, OnlyCheckFinds DEF vars, run
  <2>3. tool' = tool
    BY <2>2, ExamineDoes DEF machine
  <2>4. QED
    BY <2>1, <2>3 DEF Recent
<1>3. QED
  BY <1>1, <1>2

(***************************************************************************)
(* The order of the engines' steps, and what is said of git                *)
(***************************************************************************)

\* What a run says of git, and its end, as far as they are its own doing.
GitTold(p) ==
  /\ claim[p] = "ok" \/ brought[p] = "latest" => Recent(Git)
  /\ claim[p] = "installed" <=> brought[p] # "nothing"
  /\ result[p] = "success" =>
       \/ claim[p] \in {"ok", "installed"}
       \/ claim[p] = "missing" /\ site.family \in {"linux", "macos"}
       \/ claim[p] = "nothing" /\ site.family = "linux" /\ Manager = "none"

\* A step leaves every other run where it is.
OthersStay(p) ==
  \A q \in Proc \ {p} :
    /\ pc'[q] = pc[q] /\ job'[q] = job[q] /\ result'[q] = result[q]
    /\ claim'[q] = claim[q] /\ brought'[q] = brought[q]

LEMMA CheckInOrder ==
  ASSUME IndInv, NEW p \in Proc, Next,
         \/ Start(p) \/ ReadEntry(p) \/ EntriesRead(p) \/ Check(p) \/ CheckBuiltin(p)
         \/ EngineStarts(p) \/ NoEngine(p) \/ WindowsStarts(p)
  PROVE  OthersStay(p) /\ GitFirst(p)' /\ GitTold(p)'
<1>1. /\ GitFirst(p) /\ GitTold(p) /\ TypeOK /\ site' = site
      /\ Recent(Git) => Recent(Git)'
  BY AnswersRise, SiteStays DEF IndInv, GitAfterSuccess, GitTold, vars, Dep
<1> USE DEF Go, End, history, GitTold, GitFirst, GitDone, OthersStay, Manager
<1>2. CASE Start(p)
  BY <1>1, <1>2 DEF Start, TypeOK
<1>3. CASE ReadEntry(p) \/ EntriesRead(p)
  BY <1>1, <1>3 DEF ReadEntry, EntriesRead, TypeOK
<1>4. CASE Check(p) \/ CheckBuiltin(p)
  <2>1. pc[p] = "check" /\ UNCHANGED <<claim, brought>> /\ claim[p] = "nothing"
    BY <1>1, <1>4, ExamineDoes
  <2>2. CASE /\ pc' = [pc EXCEPT ![p] = "over"]
             /\ result' = [result EXCEPT ![p] = "failure"]
             /\ job' = job
    BY <1>1, <2>1, <2>2 DEF TypeOK
  <2>3. CASE job' = [job EXCEPT ![p] = @ + 1] /\ UNCHANGED <<pc, result>>
    BY <1>1, <2>1, <2>3 DEF TypeOK
  <2>4. QED
    BY <1>1, <1>4, <2>2, <2>3, ExamineDoes
<1>5. CASE EngineStarts(p)
  BY <1>1, <1>5 DEF EngineStarts, AllExamined, TypeOK
<1>6. CASE NoEngine(p)
  BY <1>1, <1>6 DEF NoEngine, AllExamined, TypeOK
<1>7. CASE WindowsStarts(p)
  BY <1>1, <1>7 DEF WindowsStarts, TypeOK
<1>8. QED
  BY <1>2, <1>3, <1>4, <1>5, <1>6, <1>7

LEMMA UnixInOrder ==
  ASSUME IndInv, NEW p \in Proc, Next,
         \/ LinuxDone(p) \/ LinuxInstalls(p) \/ MacDone(p) \/ BrewInstalls(p)
         \/ Refresh(p) \/ Manage(p)
  PROVE  OthersStay(p) /\ GitFirst(p)' /\ GitTold(p)'
<1>1. /\ GitFirst(p) /\ GitTold(p) /\ TypeOK /\ FindingsLast /\ site' = site
      /\ Recent(Git) => Recent(Git)'
  BY AnswersRise, SiteStays DEF IndInv, GitAfterSuccess, GitTold, vars, Dep
<1> USE DEF Go, End, Says, Brings, history, GitTold, GitFirst, GitDone, OthersStay, Manager
<1>2. CASE LinuxDone(p)
  BY <1>1, <1>2 DEF LinuxDone, FindingsLast, TypeOK
<1>3. CASE MacDone(p)
  BY <1>1, <1>3 DEF MacDone, FindingsLast, TypeOK
<1>4. CASE LinuxInstalls(p) \/ BrewInstalls(p)
  BY <1>1, <1>4 DEF LinuxInstalls, BrewInstalls, TypeOK
<1>5. CASE Refresh(p)
  BY <1>1, <1>5 DEF Refresh, TypeOK
<1>6. CASE Manage(p)
  BY <1>1, <1>6 DEF Manage, TypeOK
<1>7. QED
  BY <1>2, <1>3, <1>4, <1>5, <1>6

\* A run goes on when it is done with git.
LEMMA ProceededInOrder ==
  ASSUME TypeOK, NEW p \in Proc, Proceed(p), GitDone(p)',
         pc[p] \in {"ensure", "lookup", "open", "download", "hash", "use"}
  PROVE  GitFirst(p)' /\ result' = result
<1>1. job[p] \in 1..3 /\ Len(Wanted) = 3
  BY ItemIs, WantedIs
<1>2. pc \in [Proc -> Step] /\ job \in [Proc -> Nat \ {0}] /\ result' = result
  BY DEF TypeOK, Proceed
<1>3. CASE job[p] = 3
  <2>1. pc'[p] = "integrate"
    BY <1>1, <1>2, <1>3 DEF Proceed, Go
  <2>2. QED
    BY <1>2, <2>1 DEF GitFirst
<1>4. CASE job[p] # 3
  <2>1. pc'[p] = "ensure" /\ job'[p] = job[p] + 1
    BY <1>1, <1>2, <1>4 DEF Proceed, Go
  <2>2. job'[p] # 1
    BY <1>1, <2>1
  <2>3. QED
    BY <1>2, <2>1, <2>2 DEF GitFirst
<1>5. QED
  BY <1>3, <1>4

\* A run that gives up a dependency says nothing, or that git is missing.
LEMMA GaveUpInOrder ==
  ASSUME TypeOK, NEW p \in Proc, GitFirst(p), GitTold(p), GiveUp(p),
         pc[p] \in {"ensure", "lookup", "open", "download", "hash", "use"},
         brought' = brought, site' = site, Recent(Git) => Recent(Git)'
  PROVE  OthersStay(p) /\ GitFirst(p)' /\ GitTold(p)'
<1>1. OthersStay(p)
  BY GiveUpDoes DEF OthersStay
<1>2. CASE Item(p) = Git
  <2>1. claim[p] = "nothing" /\ brought[p] = "nothing"
    BY <1>2, ItemIs DEF GitFirst, GitTold
  <2>2. claim'[p] = "missing" /\ pc'[p] = "over" /\ result'[p] # "success"
    <3>1. claim'[p] = "missing" /\ pc'[p] = "over"
      BY <1>2, GiveUpDoes
    <3>2. result' = [result EXCEPT ![p] = "failure"]
      BY <1>2 DEF GiveUp, End
    <3>3. QED
      BY <3>1, <3>2 DEF TypeOK
  <2>3. GitFirst(p)'
    BY <2>2 DEF GitFirst
  <2>4. GitTold(p)'
    BY <2>1, <2>2 DEF GitTold
  <2>5. QED
    BY <1>1, <2>3, <2>4
<1>3. CASE Item(p) # Git
  <2>1. job[p] # 1 /\ GitDone(p) /\ claim'[p] = claim[p]
    BY <1>3, ItemIs, GiveUpDoes DEF GitFirst
  <2>2. Proceed(p)
    BY <1>3 DEF GiveUp
  <2>3. GitDone(p)' /\ brought'[p] = brought[p]
    BY <2>1 DEF GitDone
  <2>4. GitFirst(p)' /\ result' = result
    BY <2>2, <2>3, ProceededInOrder
  <2>5. GitTold(p)'
    BY <2>1, <2>3, <2>4 DEF GitTold, GitDone
  <2>6. QED
    BY <1>1, <2>4, <2>5
<1>4. QED
  BY <1>2, <1>3

LEMMA FetchInOrder ==
  ASSUME IndInv, NEW p \in Proc, Next,
         \/ Ensure(p) \/ ToolsDirFails(p) \/ Lookup(p) \/ Open(p)
         \/ Download(p) \/ DownloadFails(p) \/ Verify(p)
  PROVE  OthersStay(p) /\ GitFirst(p)' /\ GitTold(p)'
<1>1. /\ GitFirst(p) /\ GitTold(p) /\ TypeOK /\ FindingsLast /\ site' = site
      /\ Recent(Git) => Recent(Git)'
  BY AnswersRise, SiteStays DEF IndInv, GitAfterSuccess, GitTold, vars, Dep
<1>2. pc[p] \in {"ensure", "lookup", "open", "download", "hash"} /\ brought' = brought
  BY DEF Ensure, ToolsDirFails, Lookup, Open, Download, DownloadFails, Verify, history
<1>3. /\ pc \in [Proc -> Step] /\ (Item(p) = Git <=> job[p] = 1)
      /\ job[p] = 1 => claim[p] = "nothing"
      /\ job[p] # 1 => GitDone(p)
  BY <1>1, <1>2, ItemIs DEF TypeOK, GitFirst
<1>4. CASE GiveUp(p)
  BY <1>1, <1>2, <1>3, <1>4, GaveUpInOrder
<1>5. CASE Ensure(p) /\ Item(p) \in ok[p]
  <2>1. Proceed(p) /\ (Item(p) = Git => Says(p, "ok")) /\ (Item(p) # Git => claim' = claim)
    BY <1>5 DEF Ensure
  <2>2. Item(p) = Git => Recent(Git)
    BY <1>1, <1>5 DEF FindingsLast
  <2>3. /\ \A q \in Proc \ {p} : claim'[q] = claim[q]
        /\ \/ job[p] = 1 /\ claim'[p] = "ok" /\ Recent(Git)
           \/ job[p] # 1 /\ claim'[p] = claim[p]
    BY <1>1, <1>3, <2>1, <2>2 DEF Says, TypeOK
  <2>4. GitDone(p)' /\ GitTold(p)'
    BY <1>1, <1>2, <1>3, <2>1, <2>3, ProceedDoes DEF GitTold, GitDone, Manager
  <2>5. QED
    BY <1>1, <1>2, <2>1, <2>3, <2>4, ProceedDoes, ProceededInOrder DEF OthersStay
<1>6. CASE ToolsDirFails(p)
  BY <1>1, <1>6
  DEF ToolsDirFails, End, history, TypeOK, GitFirst, GitTold, GitDone, OthersStay, Manager
<1>7. CASE \E step \in {"lookup", "open", "download", "hash", "use"} :
             Go(p, step) /\ UNCHANGED <<job, result, claim>>
  BY <1>1, <1>2, <1>3, <1>7 DEF Go, GitFirst, GitTold, GitDone, OthersStay, Manager
<1>8. QED
  BY <1>4, <1>5, <1>6, <1>7 DEF Ensure, Lookup, Open, Download, DownloadFails, Verify

LEMMA UseInOrder ==
  ASSUME IndInv, NEW p \in Proc, Next,
         \/ GitInstalls(p) \/ GitInstallFails(p)
         \/ Unzip(p) \/ UnzipFails(p) \/ UnzipThrows(p)
  PROVE  OthersStay(p) /\ GitFirst(p)' /\ GitTold(p)'
<1>1. /\ GitFirst(p) /\ GitTold(p) /\ TypeOK /\ site' = site
      /\ Recent(Git) => Recent(Git)'
  BY AnswersRise, SiteStays DEF IndInv, GitAfterSuccess, GitTold, vars, Dep
<1>2. pc[p] = "use"
  BY DEF GitInstalls, GitInstallFails, Unzip, UnzipFails, UnzipThrows, Using
<1>3. /\ pc \in [Proc -> Step] /\ (Item(p) = Git <=> job[p] = 1)
      /\ job[p] = 1 => claim[p] = "nothing"
      /\ job[p] # 1 => GitDone(p)
  BY <1>1, <1>2, ItemIs DEF TypeOK, GitFirst
<1>4. CASE GitInstallFails(p)
  <2>1. GiveUp(p) /\ brought' = brought
    BY <1>4 DEF GitInstallFails
  <2>2. QED
    BY <1>1, <1>2, <1>3, <2>1, GaveUpInOrder
<1>5. CASE GitInstalls(p)
  <2>1. Proceed(p) /\ Says(p, "installed")
    BY <1>5 DEF GitInstalls
  <2>2. (\A q \in Proc \ {p} : claim'[q] = claim[q]) /\ claim'[p] = "installed"
    BY <1>1, <2>1 DEF Says, TypeOK
  <2>3. GitDone(p)' /\ GitTold(p)'
    BY <1>1, <1>5, <2>1, <2>2, InstallerBringsGit DEF GitTold, GitDone
  <2>4. QED
    BY <1>1, <1>2, <1>5, <2>1, <2>2, <2>3, ProceedDoes, ProceededInOrder, InstallerBringsGit
    DEF OthersStay
<1>6. CASE Unzip(p) \/ UnzipFails(p)
  <2>1. Proceed(p) /\ UNCHANGED <<claim, brought>> /\ Item(p) # Git
    BY <1>6 DEF Unzip, UnzipFails
  <2>2. GitDone(p)' /\ GitTold(p)'
    BY <1>1, <1>2, <1>3, <2>1, ProceedDoes DEF GitTold, GitDone, Manager
  <2>3. QED
    BY <1>1, <1>2, <2>1, <2>2, ProceedDoes, ProceededInOrder DEF OthersStay
<1>7. CASE UnzipThrows(p)
  BY <1>1, <1>7
  DEF UnzipThrows, End, TypeOK, GitFirst, GitTold, GitDone, OthersStay, Manager
<1>8. QED
  BY <1>4, <1>5, <1>6, <1>7

LEMMA NextInOrder ==
  ASSUME IndInv, Next
  PROVE  /\ \A q \in Proc : GitFirst(q)'
         /\ GitAfterSuccess'
<1>1. site' = site /\ (Recent(Git) => Recent(Git)')
  BY AnswersRise, SiteStays DEF IndInv, vars, Dep
<1>2. ASSUME NEW p \in Proc, Integrate(p) \/ Killed(p)
      PROVE  OthersStay(p) /\ GitFirst(p)' /\ GitTold(p)'
  <2>1. GitFirst(p) /\ GitTold(p) /\ TypeOK
    BY DEF IndInv, GitAfterSuccess, GitTold
  <2>2. QED
    BY <1>1, <1>2, <2>1
    DEF Integrate, Killed, End, history, TypeOK, GitFirst, GitTold, GitDone, OthersStay,
        Manager
<1>3. PICK p \in Proc : OthersStay(p) /\ GitFirst(p)' /\ GitTold(p)'
  BY <1>2, CheckInOrder, UnixInOrder, FetchInOrder, UseInOrder
  DEF Next, OwnStep, AwaitedStep
<1>4. ASSUME NEW q \in Proc \ {p}
      PROVE  GitFirst(q)' /\ GitTold(q)'
  <2>1. GitFirst(q) /\ GitTold(q)
    BY DEF IndInv, GitAfterSuccess, GitTold
  <2>2. QED
    BY <1>1, <1>3, <2>1 DEF OthersStay, GitFirst, GitTold, GitDone, Manager
<1>5. \A q \in Proc : GitFirst(q)' /\ GitTold(q)'
  BY <1>3, <1>4
<1>6. QED
  BY <1>5 DEF GitAfterSuccess, GitTold

(***************************************************************************)
(* Temporary files                                                         *)
(***************************************************************************)

\* A step leaves all files alone, writes the one it is at, or removes it.
FilesLeft(p) ==
  /\ UNCHANGED <<temp, meddled>>
  /\ left \subseteq left'
  /\ Holds(p) => (Holds(p)' /\ job'[p] = job[p]) \/ Item(p) \in left'

FileWritten(p) ==
  /\ pc[p] \in {"open", "download"}
  /\ \E content \in Content : Put(p, Item(p), content)
  /\ Holds(p)' /\ job'[p] = job[p]
  /\ left' = left

FileRemoved(p) ==
  /\ pc[p] \in {"download", "hash", "use"}
  /\ Remove(p, Item(p))
  /\ left' = left

OnFiles(p) == FilesLeft(p) \/ FileWritten(p) \/ FileRemoved(p)

LEMMA StepOnFiles ==
  ASSUME TypeOK, Next
  PROVE  \E p \in Proc : OnFiles(p) /\ (OwnStep(p) \/ AwaitedStep(p) \/ Killed(p))
<1>1. PICK p \in Proc : OwnStep(p) \/ AwaitedStep(p) \/ Killed(p)
  BY DEF Next
<1>2. pc \in [Proc -> Step]
  BY DEF TypeOK
<1>3. CASE \/ Start(p) \/ ReadEntry(p) \/ EntriesRead(p) \/ Check(p) \/ CheckBuiltin(p)
           \/ EngineStarts(p) \/ NoEngine(p) \/ LinuxDone(p) \/ LinuxInstalls(p)
           \/ MacDone(p) \/ BrewInstalls(p)
           \/ Refresh(p) \/ Manage(p) \/ WindowsStarts(p) \/ Ensure(p)
           \/ ToolsDirFails(p) \/ Lookup(p) \/ Integrate(p)
  <2>1. Check(p) \/ CheckBuiltin(p) =>
          ~ Holds(p) /\ UNCHANGED <<temp, meddled, left>>
    BY ExamineDoes DEF Holds, machine, history
  <2>2. ~ (Check(p) \/ CheckBuiltin(p)) =>
          ~ Holds(p) /\ UNCHANGED <<temp, meddled, left>>
    BY <1>3
    DEF Start, ReadEntry, EntriesRead, EngineStarts, NoEngine, AllExamined, LinuxDone,
        LinuxInstalls, MacDone, BrewInstalls, Refresh, Manage, WindowsStarts, Ensure,
        ToolsDirFails, Lookup, Integrate, Holds, machine, history
  <2>3. ~ Holds(p) /\ UNCHANGED <<temp, meddled, left>>
    BY <2>1, <2>2
  <2>4. QED
    BY <1>1, <2>3 DEF FilesLeft, OnFiles
<1>4. CASE Open(p)
  <2>1. CASE GiveUp(p) /\ UNCHANGED <<temp, meddled>>
    BY <1>1, <1>4, <2>1 DEF Open, FilesLeft, OnFiles, Holds
  <2>2. CASE /\ Put(p, Item(p), "partial") /\ Go(p, "download")
             /\ UNCHANGED <<job, result, claim>>
    BY <1>1, <1>2, <1>4, <2>2 DEF Open, FileWritten, OnFiles, Holds, Go, Content
  <2>3. QED
    BY <1>4, <2>1, <2>2 DEF Open
<1>5. CASE Download(p)
  <2>1. Holds(p)' /\ pc[p] = "download" /\ job' = job /\ left' = left
    BY <1>2, <1>5 DEF Download, Holds, Go
  <2>2. QED
    BY <1>1, <1>5, <2>1 DEF Download, FileWritten, OnFiles, Content
<1>6. CASE Verify(p) /\ Accepted(p)
  BY <1>1, <1>2, <1>6 DEF Verify, FilesLeft, OnFiles, Holds, Go
<1>7. CASE \/ DownloadFails(p) \/ (Verify(p) /\ ~ Accepted(p))
           \/ GitInstalls(p) \/ GitInstallFails(p) \/ Unzip(p) \/ UnzipFails(p)
  <2>1. FileRemoved(p)
    BY <1>7 DEF DownloadFails, Verify, GitInstalls, GitInstallFails, Unzip, UnzipFails,
                FileRemoved, Using
  <2>2. QED
    BY <1>1, <2>1 DEF OnFiles
<1>8. CASE UnzipThrows(p)
  BY <1>1, <1>8 DEF UnzipThrows, FilesLeft, OnFiles
<1>9. CASE Killed(p)
  BY <1>1, <1>9 DEF Killed, FilesLeft, OnFiles, machine
<1>10. QED
  BY <1>1, <1>3, <1>4, <1>5, <1>6, <1>7, <1>8, <1>9 DEF OwnStep, AwaitedStep

\* Others are where they were, at the same dependency.
LEMMA OthersHold ==
  ASSUME IndInv, NEW p \in Proc, Next, OwnStep(p) \/ AwaitedStep(p) \/ Killed(p)
  PROVE  \A q \in Proc \ {p} : /\ pc'[q] = pc[q]
                               /\ Holds(q)' = Holds(q)
                               /\ Item(q)' = Item(q)
<1>1. CASE Integrate(p) \/ Killed(p)
  BY <1>1 DEF Integrate, Killed, End, IndInv, TypeOK, Holds, Item
<1>2. CASE ~ (Integrate(p) \/ Killed(p))
  <2>1. OthersStay(p)
    BY <1>2, CheckInOrder, UnixInOrder, FetchInOrder, UseInOrder DEF OwnStep, AwaitedStep
  <2>2. QED
    BY <2>1 DEF OthersStay, Holds, Item
<1>3. QED
  BY <1>1, <1>2

LEMMA FilesStayAccounted ==
  ASSUME IndInv, Next
  PROVE  TempAccounted'
<1>1. TypeOK /\ TempAccounted
  BY DEF IndInv
<1>2. PICK p \in Proc : OnFiles(p) /\ (OwnStep(p) \/ AwaitedStep(p) \/ Killed(p))
  BY <1>1, StepOnFiles
<1>3. \A q \in Proc \ {p} : Holds(q)' = Holds(q) /\ Item(q)' = Item(q)
  BY <1>2, OthersHold
<1> SUFFICES ASSUME NEW d \in Dep, temp'[d] # "none", d \notin left'
             PROVE  \E q \in Proc : Holds(q)' /\ Item(q)' = d
  BY DEF TempAccounted
<1>4. left \subseteq left'
  BY <1>2 DEF OnFiles, FilesLeft, FileWritten, FileRemoved
<1>5. CASE FilesLeft(p)
  <2>1. PICK q \in Proc : Holds(q) /\ Item(q) = d
    BY <1>1, <1>4, <1>5 DEF FilesLeft, TempAccounted
  <2>2. q = p => Holds(p)' /\ Item(p)' = Item(p)
    BY <1>5, <2>1 DEF FilesLeft, Item
  <2>3. QED
    BY <1>3, <2>1, <2>2
<1>6. CASE FileWritten(p)
  <2>1. Holds(p)' /\ Item(p)' = Item(p) /\ Item(p) \in Dep
    BY <1>1, <1>6, ItemIs DEF FileWritten, Item
  <2>2. \E content \in Content : temp' = [temp EXCEPT ![Item(p)] = content]
    BY <1>6 DEF FileWritten, Put
  <2>3. d # Item(p) => temp'[d] = temp[d]
    BY <1>1, <2>2 DEF TypeOK
  <2>4. QED
    BY <1>1, <1>3, <1>4, <2>1, <2>3 DEF TempAccounted
<1>7. CASE FileRemoved(p)
  <2>1. Item(p) \in Dep
    BY <1>1, <1>7, ItemIs DEF FileRemoved
  <2>2. /\ \A e \in Dep \ {Item(p)} : temp'[e] = temp[e]
        /\ temp'[Item(p)] = "none" \/ \E q \in Proc \ {p} : Holds(q) /\ Item(q) = Item(p)
    BY <1>1, <1>7, <2>1, RemoveDoes DEF FileRemoved
  <2>3. QED
    BY <1>1, <1>3, <1>4, <2>2 DEF TempAccounted
<1>8. QED
  BY <1>2, <1>5, <1>6, <1>7 DEF OnFiles

\* What a step of one run does to a file that another has checked is recorded.
LEMMA OthersFilesKept ==
  ASSUME TypeOK, NEW p \in Proc, OnFiles(p)
  PROVE  /\ \A q \in Proc : meddled[q] => meddled'[q]
         /\ \A q \in Proc \ {p} :
              pc[q] = "use" => meddled'[q] \/ temp'[Item(q)] = temp[Item(q)]
<1>1. CASE FilesLeft(p)
  BY <1>1 DEF FilesLeft
<1>2. CASE FileWritten(p)
  <2>1. PICK content \in Content : Put(p, Item(p), content)
    BY <1>2 DEF FileWritten
  <2>2. Item(p) \in Dep /\ \A q \in Proc : pc[q] = "use" => Item(q) \in Dep
    BY <1>2, ItemIs DEF FileWritten
  <2>3. /\ temp' = [temp EXCEPT ![Item(p)] = content]
        /\ \A q \in Proc : meddled[q] => meddled'[q]
        /\ \A q \in Proc \ {p} : pc[q] = "use" /\ Item(q) = Item(p) => meddled'[q]
    BY <2>1, <2>2, PutDoes
  <2>4. temp \in [Dep -> Content]
    BY DEF TypeOK
  <2>5. QED
    BY <2>2, <2>3, <2>4
<1>3. CASE FileRemoved(p)
  <2>1. Item(p) \in Dep
    BY <1>3, ItemIs DEF FileRemoved
  <2>2. QED
    BY <1>3, <2>1, RemoveDoes DEF FileRemoved
<1>4. QED
  BY <1>1, <1>2, <1>3 DEF OnFiles

\* A run comes to use a file after it accepted it only.
LEMMA UsedWasAccepted ==
  ASSUME TypeOK, NEW p \in Proc, OwnStep(p) \/ AwaitedStep(p) \/ Killed(p), pc'[p] = "use"
  PROVE  /\ Accepted(p) /\ UNCHANGED <<temp, job, meddled, site>>
         /\ pc[p] = "hash"
<1>1. CASE \/ Start(p) \/ ReadEntry(p) \/ EntriesRead(p)
           \/ EngineStarts(p) \/ NoEngine(p) \/ LinuxDone(p) \/ LinuxInstalls(p)
           \/ MacDone(p) \/ BrewInstalls(p)
           \/ Refresh(p) \/ Manage(p) \/ WindowsStarts(p) \/ ToolsDirFails(p)
           \/ Integrate(p) \/ UnzipThrows(p) \/ Killed(p) \/ Download(p)
  BY <1>1
  DEF Start, ReadEntry, EntriesRead, EngineStarts, NoEngine, AllExamined, LinuxDone,
      LinuxInstalls, MacDone, BrewInstalls, Refresh, Manage, WindowsStarts, ToolsDirFails,
      Integrate, UnzipThrows, Killed, Download, Go, End, TypeOK
<1>2. CASE Ensure(p) \/ Lookup(p) \/ Open(p)
  BY <1>2, ProceedDoes, GiveUpDoes DEF Ensure, Lookup, Open, Go, TypeOK
<1>3. CASE \/ DownloadFails(p) \/ GitInstalls(p) \/ GitInstallFails(p)
           \/ Unzip(p) \/ UnzipFails(p)
  BY <1>3, ProceedDoes, GiveUpDoes
  DEF DownloadFails, GitInstalls, GitInstallFails, Unzip, UnzipFails, Using
<1>4. CASE Verify(p)
  BY <1>4, GiveUpDoes DEF Verify
<1>5. CASE Check(p) \/ CheckBuiltin(p)
  BY <1>5, ExamineDoes DEF TypeOK
<1>6. QED
  BY <1>1, <1>2, <1>3, <1>4, <1>5 DEF OwnStep, AwaitedStep

LEMMA ComparedStaysGenuine ==
  ASSUME IndInv, Next
  PROVE  \A q \in Proc : ComparedIsGenuine(q)'
<1>1. TypeOK
  BY DEF IndInv
<1>2. PICK p \in Proc : OnFiles(p) /\ (OwnStep(p) \/ AwaitedStep(p) \/ Killed(p))
  BY <1>1, StepOnFiles
<1>3. site' = site
  BY SiteStays
<1>4. ASSUME NEW q \in Proc \ {p}
      PROVE  ComparedIsGenuine(q)'
  <2>1. pc'[q] = pc[q] /\ Item(q)' = Item(q)
    BY <1>2, OthersHold
  <2>2. ComparedIsGenuine(q)
    BY DEF IndInv
  <2>3. /\ meddled[q] => meddled'[q]
        /\ pc[q] = "use" => meddled'[q] \/ temp'[Item(q)] = temp[Item(q)]
    BY <1>1, <1>2, OthersFilesKept
  <2>4. QED
    BY <1>3, <2>1, <2>2, <2>3 DEF ComparedIsGenuine, Using
<1>5. ComparedIsGenuine(p)'
  <2> SUFFICES ASSUME pc'[p] = "use", Item(p)' # Git
               PROVE  \/ temp'[Item(p)'] = "none"
                      \/ temp'[Item(p)'] = "genuine" /\ site.agrees'
    BY DEF ComparedIsGenuine, Using
  <2>1. Accepted(p) /\ UNCHANGED <<temp, job, site>>
    BY <1>1, <1>2, UsedWasAccepted
  <2>2. Item(p)' = Item(p) /\ DigestMatches(p)
    BY <2>1 DEF Item, Accepted
  <2>3. QED
    BY <2>1, <2>2 DEF DigestMatches
<1>6. QED
  BY <1>4, <1>5

LEMMA ExtractedStaysVerified ==
  ASSUME IndInv, Next
  PROVE  ExtractedWasVerified'
<1>1. TypeOK /\ ExtractedWasVerified
  BY DEF IndInv
<1>2. PICK p \in Proc : OnFiles(p) /\ (OwnStep(p) \/ AwaitedStep(p) \/ Killed(p))
  BY <1>1, StepOnFiles
<1>3. Meddled => Meddled'
  BY <1>1, <1>2, OthersFilesKept DEF Meddled
<1>4. site' = site
  BY SiteStays
<1>5. CASE bin' = bin
  BY <1>1, <1>3, <1>4, <1>5 DEF ExtractedWasVerified
<1>6. CASE Unzip(p) \/ UnzipFails(p) \/ UnzipThrows(p)
  <2>1. Using(p) /\ Item(p) # Git
    BY <1>6 DEF Unzip, UnzipFails, UnzipThrows
  <2>2. Item(p) \in Tool /\ bin \in [Tool -> Content]
    BY <1>1, <2>1, ItemIs DEF Using, TypeOK
  <2>3. PICK content \in {bin[Item(p)], "partial", temp[Item(p)]} :
          /\ bin' = [bin EXCEPT ![Item(p)] = content]
          /\ content # bin[Item(p)] => temp[Item(p)] # "none"
    BY <1>6 DEF Unzip, UnzipFails, UnzipThrows, Spoilt
  <2>4. Meddled \/ temp[Item(p)] = "none" \/ (temp[Item(p)] = "genuine" /\ site.agrees)
    BY <2>1 DEF IndInv, ComparedIsGenuine, Meddled
  <2>5. /\ bin'[Item(p)] = content
        /\ \A t \in Tool \ {Item(p)} : bin'[t] = bin[t]
    BY <2>2, <2>3
  <2>6. content = "other" => Meddled
    BY <1>1, <2>2, <2>3, <2>4 DEF ExtractedWasVerified
  <2>7. content # "none" => site.agrees \/ Meddled
    BY <1>1, <2>2, <2>3, <2>4 DEF ExtractedWasVerified
  <2>8. QED
    BY <1>1, <1>3, <1>4, <2>5, <2>6, <2>7 DEF ExtractedWasVerified
<1>7. QED
  BY <1>2, <1>5, <1>6
  DEF OwnStep, AwaitedStep, Killed, Start, ReadEntry, EntriesRead, Check, CheckBuiltin,
      EngineStarts, NoEngine, LinuxDone, LinuxInstalls, MacDone, BrewInstalls,
      WindowsStarts, Ensure, ToolsDirFails, Lookup, Open, Verify, Integrate, Refresh,
      Manage, Download, DownloadFails, GitInstalls, GitInstallFails, machine

(***************************************************************************)
(* The inductive invariant and what follows from it                        *)
(***************************************************************************)

LEMMA InitInv == Init => IndInv
<1> SUFFICES ASSUME Init PROVE IndInv
  OBVIOUS
<1>1. TypeOK
  BY InitTyped
<1>2. FindingsLast /\ \A p \in Proc : GitFirst(p)
  BY DEF Init, FindingsLast, GitFirst
<1>3. GitAfterSuccess
  BY DEF Init, GitAfterSuccess
<1>4. (\A p \in Proc : ComparedIsGenuine(p)) /\ ExtractedWasVerified /\ TempAccounted
  BY DEF Init, ComparedIsGenuine, Using, ExtractedWasVerified, TempAccounted
<1>5. QED
  BY <1>1, <1>2, <1>3, <1>4 DEF IndInv

LEMMA NextInv == IndInv /\ [Next]_vars => IndInv'
<1> SUFFICES ASSUME IndInv, [Next]_vars PROVE IndInv'
  OBVIOUS
<1>1. TypeOK' /\ FindingsLast'
  BY NextTyped, FindingsStay DEF IndInv
<1>2. CASE Next
  BY <1>1, <1>2, NextInOrder, FilesStayAccounted, ComparedStaysGenuine, ExtractedStaysVerified
  DEF IndInv
<1>3. CASE UNCHANGED vars
  <2>1. \A p \in Proc : GitFirst(p)' /\ ComparedIsGenuine(p)'
    BY <1>3 DEF IndInv, vars, machine, history, GitFirst, GitDone, ComparedIsGenuine,
                Using, Item
  <2>2. GitAfterSuccess'
    BY <1>3 DEF IndInv, vars, machine, history, GitAfterSuccess, Recent, Manager
  <2>3. ExtractedWasVerified' /\ TempAccounted'
    BY <1>3 DEF IndInv, vars, machine, history, ExtractedWasVerified, Meddled, TempAccounted,
                Holds, Item
  <2>4. QED
    BY <1>1, <2>1, <2>2, <2>3 DEF IndInv
<1>4. QED
  BY <1>2, <1>3

\* The inductive invariant holds in every reachable state.
THEOREM Invariant == Spec => []IndInv
<1>1. QED
  BY InitInv, NextInv, PTL DEF Spec

\* What a run says of git is so at all times, and stays so whatever other runs
\* do: "ok" stands for a recent git, "installed" for an installation that ended
\* well, and no run ends with success without one of them but on Linux and macOS.
THEOREM GitThere == Spec => []GitAfterSuccess
<1>1. IndInv => GitAfterSuccess
  BY DEF IndInv
<1>2. QED
  BY <1>1, Invariant, PTL

\* Only what was compared with a published checksum gets into the directory of
\* tools, unless another run changes an archive in between.
THEOREM ExtractsVerified == Spec => []ExtractedWasVerified
<1>1. IndInv => ExtractedWasVerified
  BY DEF IndInv
<1>2. QED
  BY <1>1, Invariant, PTL

\* No temporary file stays behind but that of a run that was cut off.
THEOREM NoFileLeft == Spec => []TempAccounted
<1>1. IndInv => TempAccounted
  BY DEF IndInv
<1>2. QED
  BY <1>1, Invariant, PTL

(***************************************************************************)
(* A run is finite                                                         *)
(***************************************************************************)

FetchStep == {"ensure", "lookup", "open", "download", "hash", "use"}

\* How far a step is from the end of a run, or of its dependency.
Stage ==
  [idle |-> 0, engine |-> 21,
   ensure |-> 8, lookup |-> 7, open |-> 6, download |-> 5, hash |-> 4, use |-> 3,
   refresh |-> 2, manage |-> 1, integrate |-> 1, over |-> 0]

LEMMA StageIs ==
  /\ Stage["over"] = 0 /\ Stage["integrate"] = 1 /\ Stage["manage"] = 1
  /\ Stage["refresh"] = 2 /\ Stage["engine"] = 21 /\ Stage["ensure"] = 8
BY DEF Stage

\* The steps for the dependencies that follow.
Ahead == <<12, 6, 0>>

\* The steps that a run has before it at most.
Left(p) ==
  IF pc[p] = "configure" THEN 23 + Len(unread[p]) + Len(unread[p]) + Len(list[p])
  ELSE IF pc[p] = "check" THEN 23 + Len(list[p]) - job[p]
  ELSE IF pc[p] \in FetchStep THEN Stage[pc[p]] + Ahead[job[p]]
  ELSE Stage[pc[p]]

\* The position in the list, where the list is still in use.
Counted(p) ==
  /\ pc[p] \in {"idle", "configure"} => job[p] = 1
  /\ pc[p] = "check" => job[p] <= Len(list[p]) + 1

AllCounted == \A p \in Proc : Counted(p)

\* A step of a run that has begun brings its end nearer, and nobody else's step
\* puts it off: nothing is tried again, and no list grows while it is read.
EndComesNearer ==
  [][\A p \in Proc : Active(p) =>
       /\ OwnStep(p) \/ AwaitedStep(p) => Left(p)' < Left(p)
       /\ Left(p)' <= Left(p)]_vars

\* What this is before and after a step.
LEMMA LeftIs ==
  ASSUME TypeOK, NEW p \in Proc
  PROVE  /\ pc[p] = "configure" =>
              Left(p) = 23 + Len(unread[p]) + Len(unread[p]) + Len(list[p])
         /\ pc[p] = "check" => Left(p) = 23 + Len(list[p]) - job[p]
         /\ pc[p] \in FetchStep => Left(p) = Stage[pc[p]] + Ahead[job[p]]
         /\ pc[p] \notin FetchStep \cup {"configure", "check"} =>
              Left(p) = Stage[pc[p]]
  BY DEF Left, FetchStep

LEMMA LeftIsNumber ==
  ASSUME TypeOK, NEW p \in Proc
  PROVE  /\ pc[p] \in Step /\ job[p] \in Nat
         /\ Len(list[p]) \in Nat /\ Len(unread[p]) \in Nat
         /\ pc[p] \notin {"check", "over"} => job[p] \in 1..3
         /\ Left(p) \in Int
<1>1. /\ pc[p] \in Step /\ job[p] \in Nat
      /\ Len(list[p]) \in Nat /\ Len(unread[p]) \in Nat
      /\ pc[p] \notin {"check", "over"} => job[p] \in 1..3
  BY WantedIs DEF TypeOK
<1>2. CASE pc[p] = "configure"
  <2>1. Left(p) = 23 + Len(unread[p]) + Len(unread[p]) + Len(list[p])
    BY <1>2, LeftIs
  <2>2. QED
    BY <1>1, <2>1
<1>3. CASE pc[p] = "check"
  <2>1. Left(p) = 23 + Len(list[p]) - job[p]
    BY <1>3, LeftIs
  <2>2. QED
    BY <1>1, <2>1
<1>4. CASE pc[p] \in FetchStep
  <2>1. Stage[pc[p]] \in Int /\ Ahead[job[p]] \in Int
    BY <1>1, <1>4 DEF FetchStep, Stage, Ahead
  <2>2. Left(p) = Stage[pc[p]] + Ahead[job[p]]
    BY <1>4, LeftIs
  <2>3. QED
    BY <1>1, <2>1, <2>2
<1>5. CASE pc[p] \in Step \ (FetchStep \cup {"configure", "check"})
  <2>1. Stage[pc[p]] \in Int
    BY <1>1, <1>5 DEF FetchStep, Stage, Step
  <2>2. QED
    BY <1>1, <1>5, <2>1, LeftIs
<1>6. QED
  BY <1>1, <1>2, <1>3, <1>4, <1>5

LEMMA LeftBecomes ==
  ASSUME TypeOK', NEW p \in Proc
  PROVE  /\ pc'[p] = "configure" =>
              Left(p)' = 23 + Len(unread'[p]) + Len(unread'[p]) + Len(list'[p])
         /\ pc'[p] = "check" => Left(p)' = 23 + Len(list'[p]) - job'[p]
         /\ pc'[p] \in FetchStep => Left(p)' = Stage[pc'[p]] + Ahead[job'[p]]
         /\ pc'[p] \notin FetchStep \cup {"configure", "check"} =>
              Left(p)' = Stage[pc'[p]]
  BY DEF Left, FetchStep

LEMMA LeftBecomesNumber ==
  ASSUME TypeOK', NEW p \in Proc
  PROVE  /\ pc'[p] \in Step /\ job'[p] \in Nat
         /\ Len(list'[p]) \in Nat /\ Len(unread'[p]) \in Nat
         /\ pc'[p] \notin {"check", "over"} => job'[p] \in 1..3
         /\ Left(p)' \in Int
<1>1. /\ pc'[p] \in Step /\ job'[p] \in Nat
      /\ Len(list'[p]) \in Nat /\ Len(unread'[p]) \in Nat
      /\ pc'[p] \notin {"check", "over"} => job'[p] \in 1..3
  BY WantedIs DEF TypeOK
<1>2. CASE pc'[p] = "configure"
  <2>1. Left(p)' = 23 + Len(unread'[p]) + Len(unread'[p]) + Len(list'[p])
    BY <1>2, LeftBecomes
  <2>2. QED
    BY <1>1, <2>1
<1>3. CASE pc'[p] = "check"
  <2>1. Left(p)' = 23 + Len(list'[p]) - job'[p]
    BY <1>3, LeftBecomes
  <2>2. QED
    BY <1>1, <2>1
<1>4. CASE pc'[p] \in FetchStep
  <2>1. Stage[pc'[p]] \in Int /\ Ahead[job'[p]] \in Int
    BY <1>1, <1>4 DEF FetchStep, Stage, Ahead
  <2>2. Left(p)' = Stage[pc'[p]] + Ahead[job'[p]]
    BY <1>4, LeftBecomes
  <2>3. QED
    BY <1>1, <2>1, <2>2
<1>5. CASE pc'[p] \in Step \ (FetchStep \cup {"configure", "check"})
  <2>1. Stage[pc'[p]] \in Int
    BY <1>1, <1>5 DEF FetchStep, Stage, Step
  <2>2. QED
    BY <1>1, <1>5, <2>1, LeftBecomes
<1>6. QED
  BY <1>1, <1>2, <1>3, <1>4, <1>5

\* The steps of an engine do not touch the list and do not go back to it.
LEMMA PastTheList ==
  ASSUME TypeOK, NEW p \in Proc,
         \/ EngineStarts(p) \/ NoEngine(p) \/ WindowsStarts(p)
         \/ LinuxDone(p) \/ LinuxInstalls(p) \/ MacDone(p) \/ BrewInstalls(p)
         \/ Refresh(p) \/ Manage(p)
         \/ Ensure(p) \/ ToolsDirFails(p) \/ Lookup(p) \/ Open(p)
         \/ Download(p) \/ DownloadFails(p) \/ Verify(p)
         \/ GitInstalls(p) \/ GitInstallFails(p)
         \/ Unzip(p) \/ UnzipFails(p) \/ UnzipThrows(p)
         \/ Integrate(p) \/ Killed(p)
  PROVE  /\ pc'[p] \notin {"idle", "configure", "check"}
         /\ UNCHANGED <<list, unread>>
<1>1. pc \in [Proc -> Step]
  BY DEF TypeOK
<1>2. CASE \/ EngineStarts(p) \/ NoEngine(p) \/ WindowsStarts(p)
           \/ LinuxDone(p) \/ LinuxInstalls(p) \/ MacDone(p) \/ BrewInstalls(p)
           \/ Refresh(p) \/ Manage(p) \/ ToolsDirFails(p) \/ Download(p)
           \/ UnzipThrows(p) \/ Integrate(p) \/ Killed(p)
  BY <1>1, <1>2
  DEF EngineStarts, NoEngine, WindowsStarts, LinuxDone, LinuxInstalls, MacDone,
      BrewInstalls, Refresh, Manage, ToolsDirFails, Download, UnzipThrows, Integrate,
      Killed, Go, End, run
<1>3. CASE \/ Ensure(p) \/ Lookup(p) \/ Open(p) \/ DownloadFails(p) \/ Verify(p)
           \/ GitInstalls(p) \/ GitInstallFails(p) \/ Unzip(p) \/ UnzipFails(p)
  BY <1>1, <1>3, ProceedDoes, GiveUpDoes
  DEF Ensure, Lookup, Open, DownloadFails, Verify, GitInstalls, GitInstallFails, Unzip,
      UnzipFails, Using, Go, run
<1>4. QED
  BY <1>2, <1>3

\* Reading an entry makes the list longer by one at most.
LEMMA EntryRead ==
  ASSUME TypeOK, NEW p \in Proc, ReadEntry(p)
  PROVE  /\ Len(list[p]) \in Nat /\ Len(list'[p]) \in Nat
         /\ Len(unread[p]) \in Nat \ {0} /\ Len(unread'[p]) = Len(unread[p]) - 1
         /\ Len(list'[p]) <= Len(list[p]) + 1
<1>1. unread[p] \in Seq(Entry) /\ unread[p] # <<>> /\ list[p] \in Seq(Dep)
  BY DEF ReadEntry, TypeOK
<1>2. unread'[p] = Tail(unread[p])
  BY DEF ReadEntry, TypeOK
<1>3. list'[p] = list[p] \/ list'[p] = Append(list[p], Head(unread[p]))
  BY DEF ReadEntry, TypeOK
<1>4. QED
  BY <1>1, <1>2, <1>3

LEMMA NextCounted == IndInv /\ AllCounted /\ [Next]_vars => AllCounted'
<1> SUFFICES ASSUME IndInv, AllCounted, [Next]_vars PROVE AllCounted'
  OBVIOUS
<1> USE DEF AllCounted
<1>1. TypeOK
  BY DEF IndInv
<1>2. CASE UNCHANGED vars
  BY <1>2 DEF vars, run, Counted
<1>3. ASSUME NEW p \in Proc, Next, OwnStep(p) \/ AwaitedStep(p) \/ Killed(p)
      PROVE  \A q \in Proc : Counted(q)'
  <2>1. CASE Start(p)
    <3>1. /\ pc'[p] \in {"check", "configure", "over"} /\ job' = job /\ pc[p] = "idle"
          /\ \A q \in Proc \ {p} : pc'[q] = pc[q] /\ list'[q] = list[q]
      BY <1>1, <2>1 DEF Start, Go, End, TypeOK
    <3>2. list'[p] \in Seq(Dep)
      BY <1>1, <2>1, CheckTyped DEF TypeOK
    <3>3. QED
      BY <3>1, <3>2 DEF Counted
  <2>2. CASE ReadEntry(p) \/ EntriesRead(p)
    <3>1. /\ pc[p] = "configure" /\ pc'[p] \in {"check", "configure"} /\ job' = job
          /\ \A q \in Proc \ {p} : pc'[q] = pc[q] /\ list'[q] = list[q]
      BY <1>1, <2>2 DEF ReadEntry, EntriesRead, Go, TypeOK
    <3>2. list'[p] \in Seq(Dep)
      BY <1>1, <2>2, CheckTyped DEF TypeOK
    <3>3. QED
      BY <3>1, <3>2 DEF Counted
  <2>3. CASE Check(p) \/ CheckBuiltin(p)
    <3>1. pc[p] = "check" /\ job[p] <= Len(list[p]) /\ list[p] \in Seq(Dep)
      BY <1>1, <2>3 DEF Check, CheckBuiltin, Examining, TypeOK
    <3>2. /\ list' = list
          /\ \/ pc' = [pc EXCEPT ![p] = "over"] /\ job' = job
             \/ pc' = pc /\ job' = [job EXCEPT ![p] = @ + 1]
      BY <1>1, <2>3, ExamineDoes
    <3>3. QED
      BY <1>1, <3>1, <3>2 DEF Counted, TypeOK
  <2>4. CASE ~ (\/ Start(p) \/ ReadEntry(p) \/ EntriesRead(p) \/ Check(p) \/ CheckBuiltin(p))
    <3>1. pc'[p] \notin {"idle", "configure", "check"} /\ list' = list
      BY <1>1, <1>3, <2>4, PastTheList DEF OwnStep, AwaitedStep
    <3>2. CASE Integrate(p) \/ Killed(p)
      BY <1>1, <3>1, <3>2 DEF Integrate, Killed, End, Counted, TypeOK
    <3>3. CASE ~ (Integrate(p) \/ Killed(p))
      <4>1. OthersStay(p)
        BY <1>3, <3>3, CheckInOrder, UnixInOrder, FetchInOrder, UseInOrder
        DEF OwnStep, AwaitedStep
      <4>2. QED
        BY <3>1, <4>1 DEF OthersStay, Counted
    <3>4. QED
      BY <3>2, <3>3
  <2>5. QED
    BY <2>1, <2>2, <2>3, <2>4
<1>4. QED
  BY <1>2, <1>3 DEF Next

\* Going on to the next dependency takes a run on, wherever it was.
LEMMA ProceedNearer ==
  ASSUME TypeOK, TypeOK', NEW p \in Proc, pc[p] \in FetchStep, Proceed(p) \/ GiveUp(p)
  PROVE  Left(p)' < Left(p)
<1>1. /\ pc \in [Proc -> Step] /\ job \in [Proc -> Nat \ {0}] /\ Len(Wanted) = 3
      /\ job[p] \in 1..3
  BY LeftIsNumber, WantedIs DEF TypeOK, FetchStep
<1>2. Left(p) = Stage[pc[p]] + Ahead[job[p]]
  BY LeftIs
<1>3. Stage[pc[p]] \in 3..8
  BY DEF Stage, FetchStep
<1>4. CASE Proceed(p) /\ job[p] = 3
  <2>1. pc'[p] = "integrate"
    BY <1>1, <1>4 DEF Proceed, Go
  <2>2. Left(p)' = 1
    BY <2>1, LeftBecomes, StageIs DEF FetchStep
  <2>3. Ahead[job[p]] = 0
    BY <1>4 DEF Ahead
  <2>4. QED
    BY <1>2, <1>3, <2>2, <2>3
<1>5. CASE Proceed(p) /\ job[p] # 3
  <2>1. pc'[p] = "ensure" /\ job'[p] = job[p] + 1
    BY <1>1, <1>5 DEF Proceed, Go
  <2>2. Left(p)' = Stage["ensure"] + Ahead[job'[p]]
    BY <2>1, LeftBecomes DEF FetchStep
  <2>3. Stage["ensure"] = 8
    BY DEF Stage
  <2>4. CASE job[p] = 1
    <3>1. Ahead[job[p]] = 12 /\ Ahead[job'[p]] = 6
      BY <2>1, <2>4 DEF Ahead
    <3>2. QED
      BY <1>2, <1>3, <2>2, <2>3, <3>1
  <2>5. CASE job[p] = 2
    <3>1. Ahead[job[p]] = 6 /\ Ahead[job'[p]] = 0
      BY <2>1, <2>5 DEF Ahead
    <3>2. QED
      BY <1>2, <1>3, <2>2, <2>3, <3>1
  <2>6. QED
    BY <1>1, <1>5, <2>4, <2>5
<1>6. CASE GiveUp(p) /\ ~ Proceed(p)
  <2>1. pc'[p] = "over"
    BY <1>1, <1>6 DEF GiveUp, End
  <2>2. Left(p)' = 0
    BY <2>1, LeftBecomes, StageIs DEF FetchStep
  <2>3. Ahead[job[p]] \in Nat
    BY <1>1 DEF Ahead
  <2>4. QED
    BY <1>2, <1>3, <2>2, <2>3
<1>7. QED
  BY <1>4, <1>5, <1>6

\* Numbers of entries: what is unread counts twice.
LEMMA ShorterList ==
  /\ \A u, l, m \in Nat : m <= l + 1 => 23 + (u - 1) + (u - 1) + m < 23 + u + u + l
  /\ \A u, l \in Nat : 23 + l - 1 < 23 + u + u + l /\ 23 + u + u + l >= 22
  /\ \A l, j \in Nat : 23 + l - (j + 1) < 23 + l - j
OBVIOUS

\* How much a run has before it at each place.
LEMMA LeftAt ==
  ASSUME TypeOK, NEW p \in Proc, Counted(p)
  PROVE  /\ pc[p] \in {"configure", "check"} => Left(p) >= 22
         /\ pc[p] = "engine" => Left(p) = 21
         /\ pc[p] \in FetchStep => Left(p) >= 3
         /\ pc[p] = "refresh" => Left(p) = 2
         /\ pc[p] \in {"manage", "integrate"} => Left(p) = 1
<1>1. /\ Len(list[p]) \in Nat /\ Len(unread[p]) \in Nat /\ job[p] \in Nat
      /\ pc[p] \notin {"check", "over"} => job[p] \in 1..3
  BY LeftIsNumber
<1>2. CASE pc[p] = "configure"
  <2>1. Left(p) = 23 + Len(unread[p]) + Len(unread[p]) + Len(list[p])
    BY <1>2, LeftIs
  <2>2. Left(p) >= 22
    BY <1>1, <2>1, ShorterList
  <2>3. QED
    BY <1>2, <2>2 DEF FetchStep
<1>3. CASE pc[p] = "check"
  <2>1. Left(p) = 23 + Len(list[p]) - job[p] /\ job[p] <= Len(list[p]) + 1
    BY <1>3, LeftIs DEF Counted
  <2>2. Left(p) >= 22
    BY <1>1, <2>1
  <2>3. QED
    BY <1>3, <2>2 DEF FetchStep
<1>4. CASE pc[p] \in FetchStep
  <2>1. Left(p) = Stage[pc[p]] + Ahead[job[p]]
    BY <1>4, LeftIs
  <2>2. Stage[pc[p]] \in 3..8
    BY <1>4 DEF Stage, FetchStep
  <2>3. Ahead[job[p]] \in Nat
    BY <1>1, <1>4 DEF Ahead, FetchStep
  <2>4. QED
    BY <1>4, <2>1, <2>2, <2>3 DEF FetchStep
<1>5. CASE pc[p] \in {"engine", "refresh", "manage", "integrate"}
  BY <1>5, LeftIs, StageIs DEF FetchStep
<1>6. QED
  BY <1>2, <1>3, <1>4, <1>5

\* An end leaves nothing, and nobody who is at work has nothing left.
LEMMA EndNearer ==
  ASSUME TypeOK, TypeOK', NEW p \in Proc, Counted(p), Active(p), pc'[p] = "over"
  PROVE  Left(p)' < Left(p)
<1>1. Left(p)' = 0
  BY LeftBecomes, StageIs DEF FetchStep
<1>2. Left(p) >= 1
  <2>1. pc[p] \in FetchStep \cup {"configure", "check", "engine", "refresh", "manage",
                                  "integrate"}
    BY LeftIsNumber DEF Active, Step, FetchStep
  <2>2. Left(p) \in Int
    BY LeftIsNumber
  <2>3. QED
    BY <2>1, <2>2, LeftAt
<1>3. QED
  BY <1>1, <1>2, LeftIsNumber

LEMMA ListNearer ==
  ASSUME TypeOK, TypeOK', NEW p \in Proc, Counted(p), pc'[p] # "over",
         \/ ReadEntry(p) \/ EntriesRead(p) \/ Check(p) \/ CheckBuiltin(p)
         \/ EngineStarts(p)
  PROVE  Left(p)' < Left(p)
<1>1. /\ pc \in [Proc -> Step] /\ job \in [Proc -> Nat \ {0}]
      /\ Len(list[p]) \in Nat /\ Len(unread[p]) \in Nat /\ job[p] \in Nat
  BY LeftIsNumber DEF TypeOK
<1>2. CASE ReadEntry(p)
  <2>1. pc[p] = "configure" /\ pc'[p] = "configure"
    BY <1>2 DEF ReadEntry
  <2>2. /\ Left(p) = 23 + Len(unread[p]) + Len(unread[p]) + Len(list[p])
        /\ Left(p)' = 23 + Len(unread'[p]) + Len(unread'[p]) + Len(list'[p])
    BY <2>1, LeftIs, LeftBecomes
  <2>3. /\ Len(list'[p]) \in Nat /\ Len(list'[p]) <= Len(list[p]) + 1
        /\ Len(unread[p]) \in Nat \ {0} /\ Len(unread'[p]) = Len(unread[p]) - 1
    BY <1>2, EntryRead
  <2>4. Left(p)' = 23 + (Len(unread[p]) - 1) + (Len(unread[p]) - 1) + Len(list'[p])
    BY <2>2, <2>3
  <2>5. QED
    BY <1>1, <2>2, <2>3, <2>4, ShorterList
<1>3. CASE EntriesRead(p)
  <2>1. pc[p] = "configure" /\ pc'[p] = "check" /\ UNCHANGED <<job, list>>
    BY <1>1, <1>3 DEF EntriesRead, Go
  <2>2. /\ Left(p) = 23 + Len(unread[p]) + Len(unread[p]) + Len(list[p])
        /\ Left(p)' = 23 + Len(list[p]) - 1
    BY <2>1, LeftIs, LeftBecomes DEF Counted
  <2>3. QED
    BY <1>1, <2>2, ShorterList
<1>4. CASE Check(p) \/ CheckBuiltin(p)
  <2>1. pc[p] = "check"
    BY <1>4 DEF Check, CheckBuiltin, Examining
  <2>2. /\ list' = list
        /\ \/ pc' = [pc EXCEPT ![p] = "over"] /\ job' = job
           \/ pc' = pc /\ job' = [job EXCEPT ![p] = @ + 1]
    BY <1>4, ExamineDoes
  <2>3. pc'[p] = "check" /\ job'[p] = job[p] + 1 /\ list'[p] = list[p]
    BY <1>1, <2>1, <2>2
  <2>4. /\ Left(p) = 23 + Len(list[p]) - job[p]
        /\ Left(p)' = 23 + Len(list[p]) - (job[p] + 1)
    BY <2>1, <2>3, LeftIs, LeftBecomes
  <2>5. QED
    BY <1>1, <2>4
<1>5. CASE EngineStarts(p)
  <2>1. pc[p] = "check" /\ pc'[p] = "engine"
    BY <1>1, <1>5 DEF EngineStarts, AllExamined, Go
  <2>2. Left(p)' = 21
    BY <2>1, LeftBecomes, StageIs DEF FetchStep
  <2>3. Left(p) >= 22 /\ Left(p) \in Int
    BY <2>1, LeftAt, LeftIsNumber
  <2>4. QED
    BY <2>2, <2>3
<1>6. QED
  BY <1>2, <1>3, <1>4, <1>5

LEMMA EngineNearer ==
  ASSUME TypeOK, TypeOK', NEW p \in Proc, Counted(p), pc[p] = "engine" => job[p] = 1,
         pc'[p] # "over",
         WindowsStarts(p) \/ LinuxInstalls(p) \/ BrewInstalls(p) \/ Refresh(p)
  PROVE  Left(p)' < Left(p)
<1>1. pc \in [Proc -> Step] /\ Left(p) \in Int
  BY LeftIsNumber DEF TypeOK
<1>2. \/ pc[p] = "engine" /\ pc'[p] = "ensure" /\ job'[p] = 1
      \/ pc[p] = "engine" /\ pc'[p] \in {"refresh", "manage"}
      \/ pc[p] = "refresh" /\ pc'[p] = "manage"
  BY <1>1 DEF WindowsStarts, LinuxInstalls, BrewInstalls, Refresh, Go, End
<1>3. CASE pc[p] = "engine" /\ pc'[p] = "ensure" /\ job'[p] = 1
  <2>1. Left(p)' = Stage["ensure"] + Ahead[1]
    BY <1>3, LeftBecomes DEF FetchStep
  <2>2. Left(p)' = 20
    BY <2>1 DEF Stage, Ahead
  <2>3. QED
    BY <1>1, <1>3, <2>2, LeftAt
<1>4. CASE pc[p] \in {"engine", "refresh"} /\ pc'[p] = "manage"
  <2>1. Left(p)' = 1
    BY <1>4, LeftBecomes, StageIs DEF FetchStep
  <2>2. QED
    BY <1>1, <1>4, <2>1, LeftAt
<1>5. CASE pc[p] = "engine" /\ pc'[p] = "refresh"
  <2>1. Left(p)' = 2
    BY <1>5, LeftBecomes, StageIs DEF FetchStep
  <2>2. QED
    BY <1>1, <1>5, <2>1, LeftAt
<1>6. QED
  BY <1>2, <1>3, <1>4, <1>5

\* The steps for one dependency, in their order.
LEMMA FetchNearer ==
  ASSUME TypeOK, TypeOK', NEW p \in Proc,
         \/ Ensure(p) \/ Lookup(p) \/ Open(p) \/ Download(p) \/ DownloadFails(p)
         \/ Verify(p) \/ GitInstalls(p) \/ GitInstallFails(p) \/ Unzip(p) \/ UnzipFails(p)
  PROVE  Left(p)' < Left(p)
<1>1. pc \in [Proc -> Step]
  BY DEF TypeOK
<1>2. pc[p] \in FetchStep
  BY DEF FetchStep, Ensure, Lookup, Open, Download, DownloadFails, Verify, GitInstalls,
         GitInstallFails, Unzip, UnzipFails, Using
<1>3. \/ Proceed(p) \/ GiveUp(p)
      \/ /\ job' = job
         /\ \/ pc[p] = "ensure" /\ pc'[p] = "lookup"
            \/ pc[p] = "lookup" /\ pc'[p] = "open"
            \/ pc[p] = "open" /\ pc'[p] = "download"
            \/ pc[p] = "download" /\ pc'[p] = "hash"
            \/ pc[p] = "hash" /\ pc'[p] = "use"
  BY <1>1 DEF Ensure, Lookup, Open, Download, DownloadFails, Verify, GitInstalls,
              GitInstallFails, Unzip, UnzipFails, Go
<1>4. CASE Proceed(p) \/ GiveUp(p)
  BY <1>2, <1>4, ProceedNearer
<1>5. CASE ~ (Proceed(p) \/ GiveUp(p))
  <2>1. Ahead[job[p]] \in Nat
    BY <1>2, LeftIsNumber DEF Ahead, FetchStep
  <2>2. pc'[p] \in FetchStep /\ Stage[pc[p]] \in 3..8 /\ Stage[pc'[p]] = Stage[pc[p]] - 1
    BY <1>3, <1>5 DEF FetchStep, Stage
  <2>3. /\ Left(p) = Stage[pc[p]] + Ahead[job[p]]
        /\ Left(p)' = Stage[pc'[p]] + Ahead[job[p]]
    BY <1>2, <1>3, <1>5, <2>2, LeftIs, LeftBecomes
  <2>4. QED
    BY <2>1, <2>2, <2>3
<1>6. QED
  BY <1>4, <1>5

LEMMA StepNearer ==
  ASSUME IndInv, TypeOK', NEW p \in Proc, Counted(p), Active(p),
         OwnStep(p) \/ AwaitedStep(p) \/ Killed(p)
  PROVE  Left(p)' < Left(p)
<1>1. TypeOK /\ pc \in [Proc -> Step] /\ (pc[p] = "engine" => job[p] = 1)
  BY DEF IndInv, TypeOK, GitFirst
<1>2. CASE pc'[p] = "over"
  BY <1>1, <1>2, EndNearer
<1>3. CASE \/ ReadEntry(p) \/ EntriesRead(p) \/ Check(p) \/ CheckBuiltin(p)
           \/ EngineStarts(p)
  BY <1>1, <1>2, <1>3, ListNearer
<1>4. CASE WindowsStarts(p) \/ LinuxInstalls(p) \/ BrewInstalls(p) \/ Refresh(p)
  BY <1>1, <1>2, <1>4, EngineNearer
<1>5. CASE \/ Ensure(p) \/ Lookup(p) \/ Open(p) \/ Download(p) \/ DownloadFails(p)
           \/ Verify(p) \/ GitInstalls(p) \/ GitInstallFails(p) \/ Unzip(p) \/ UnzipFails(p)
  BY <1>1, <1>5, FetchNearer
<1>6. CASE \/ LinuxDone(p) \/ MacDone(p) \/ Manage(p) \/ NoEngine(p) \/ ToolsDirFails(p)
           \/ UnzipThrows(p) \/ Integrate(p) \/ Killed(p)
  <2>1. pc'[p] = "over"
    BY <1>1, <1>6
    DEF LinuxDone, MacDone, Manage, NoEngine, ToolsDirFails, UnzipThrows, Integrate,
        Killed, End
  <2>2. QED
    BY <1>2, <2>1
<1>7. ~ Start(p)
  BY DEF Start, Active
<1>8. QED
  BY <1>3, <1>4, <1>5, <1>6, <1>7 DEF OwnStep, AwaitedStep

\* Nobody moves another run.
LEMMA OthersNotMoved ==
  ASSUME IndInv, Next, NEW p \in Proc, OwnStep(p) \/ AwaitedStep(p) \/ Killed(p),
         NEW q \in Proc \ {p}
  PROVE  Left(q)' = Left(q)
<1>1. TypeOK
  BY DEF IndInv
<1>2. CASE Start(p) \/ ReadEntry(p) \/ EntriesRead(p)
  <2>1. /\ pc'[q] = pc[q] /\ job'[q] = job[q]
        /\ list'[q] = list[q] /\ unread'[q] = unread[q]
    BY <1>1, <1>2 DEF Start, ReadEntry, EntriesRead, Go, End, TypeOK
  <2>2. QED
    BY <2>1 DEF Left
<1>3. CASE Check(p) \/ CheckBuiltin(p)
  <2>1. pc'[q] = pc[q] /\ job'[q] = job[q] /\ UNCHANGED <<list, unread>>
    <3>1. /\ UNCHANGED <<list, unread>>
          /\ \/ pc' = [pc EXCEPT ![p] = "over"] /\ job' = job
             \/ pc' = pc /\ job' = [job EXCEPT ![p] = @ + 1]
      BY <1>1, <1>3, ExamineDoes DEF Check, CheckBuiltin
    <3>2. QED
      BY <1>1, <3>1 DEF TypeOK
  <2>2. QED
    BY <2>1 DEF Left
<1>4. CASE ~ (\/ Start(p) \/ ReadEntry(p) \/ EntriesRead(p) \/ Check(p) \/ CheckBuiltin(p))
  <2>1. UNCHANGED <<list, unread>>
    BY <1>1, <1>4, PastTheList DEF OwnStep, AwaitedStep
  <2>2. CASE Integrate(p) \/ Killed(p)
    BY <1>1, <2>1, <2>2 DEF Integrate, Killed, End, TypeOK, Left
  <2>3. CASE ~ (Integrate(p) \/ Killed(p))
    <3>1. OthersStay(p)
      BY <1>4, <2>3, CheckInOrder, UnixInOrder, FetchInOrder, UseInOrder
      DEF OwnStep, AwaitedStep
    <3>2. QED
      BY <2>1, <3>1 DEF OthersStay, Left
  <2>4. QED
    BY <2>2, <2>3
<1>5. QED
  BY <1>2, <1>3, <1>4

\* The safety half of EndsOrWaits, for any number of runs and any content of
\* config.json: main and its engines never go back.
THEOREM Finite == Spec => EndComesNearer
<1>1. Init => AllCounted
  BY DEF Init, Counted, AllCounted
<1>2. ASSUME IndInv, AllCounted, [Next]_vars, NEW p \in Proc, Active(p)
      PROVE  /\ OwnStep(p) \/ AwaitedStep(p) => Left(p)' < Left(p)
             /\ Left(p)' <= Left(p)
  <2>1. TypeOK /\ TypeOK'
    BY <1>2, NextTyped DEF IndInv
  <2>2. Left(p) \in Int /\ Left(p)' \in Int
    BY <2>1, LeftIsNumber, LeftBecomesNumber
  <2>3. OwnStep(p) \/ AwaitedStep(p) \/ Killed(p) => Left(p)' < Left(p)
    BY <1>2, <2>1, StepNearer DEF AllCounted
  <2>4. CASE OwnStep(p) \/ AwaitedStep(p) \/ Killed(p)
    BY <2>2, <2>3, <2>4
  <2>5. CASE ~ (OwnStep(p) \/ AwaitedStep(p) \/ Killed(p))
    <3>1. CASE UNCHANGED vars
      <4>1. Left(p)' = Left(p)
        BY <3>1 DEF vars, run, Left
      <4>2. QED
        BY <2>2, <2>5, <4>1
    <3>2. CASE Next
      <4>1. PICK q \in Proc : OwnStep(q) \/ AwaitedStep(q) \/ Killed(q)
        BY <3>2 DEF Next
      <4>2. Left(p)' = Left(p)
        BY <1>2, <2>5, <3>2, <4>1, OthersNotMoved
      <4>3. QED
        BY <2>2, <2>5, <4>2
    <3>3. QED
      BY <1>2, <2>5, <3>1, <3>2
  <2>6. QED
    BY <2>4, <2>5, <2>3
<1>3. IndInv /\ AllCounted /\ [Next]_vars =>
        [\A p \in Proc : Active(p) =>
           /\ OwnStep(p) \/ AwaitedStep(p) => Left(p)' < Left(p)
           /\ Left(p)' <= Left(p)]_vars
  BY <1>2
<1>4. QED
  BY <1>1, <1>3, NextCounted, Invariant, PTL DEF Spec, EndComesNearer
=============================================================================
