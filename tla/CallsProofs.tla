---------------------------- MODULE CallsProofs ----------------------------
(***************************************************************************)
(* Proofs about commands that leave the process, for pipes of any size and *)
(* children that print anything.                                           *)
(***************************************************************************)
EXTENDS CallsSafety, LeastNumber, SequenceTheorems, TLAPS

(***************************************************************************)
(* Lemmas about reading from and writing to a sequence                     *)
(***************************************************************************)

\* What is read moves from the front of what is left to the end of what is there.
LEMMA HeadMoves ==
  ASSUME NEW s \in Seq(Nat), NEW t \in Seq(Nat), t # <<>>
  PROVE  /\ Append(s, Head(t)) \in Seq(Nat) /\ Tail(t) \in Seq(Nat)
         /\ Len(Tail(t)) = Len(t) - 1
         /\ Append(s, Head(t)) \o Tail(t) = s \o t
<1>1. Head(t) \in Nat /\ Tail(t) \in Seq(Nat) /\ Len(Tail(t)) = Len(t) - 1
  BY HeadTailProperties
<1>2. t = <<Head(t)>> \o Tail(t)
  BY <1>1
<1>3. Append(s, Head(t)) = s \o <<Head(t)>> /\ <<Head(t)>> \in Seq(Nat)
  BY <1>1, AppendIsConcat
<1>4. (s \o <<Head(t)>>) \o Tail(t) = s \o (<<Head(t)>> \o Tail(t))
  BY <1>1, <1>3, ConcatAssociative
<1>5. Append(s, Head(t)) \in Seq(Nat)
  BY <1>1
<1>6. QED
  BY <1>1, <1>2, <1>3, <1>4, <1>5

\* What is written comes last.
LEMMA LastAdds ==
  ASSUME NEW s \in Seq(Nat), NEW t \in Seq(Nat), NEW n \in Nat
  PROVE  /\ Append(t, n) \in Seq(Nat)
         /\ Len(Append(t, n)) = Len(t) + 1
         /\ s \o Append(t, n) = Append(s \o t, n)
<1>1. Append(t, n) \in Seq(Nat) /\ Len(Append(t, n)) = Len(t) + 1
  BY AppendProperties
<1>2. s \o t \in Seq(Nat) /\ <<n>> \in Seq(Nat)
  BY ConcatProperties
<1>3. Append(t, n) = t \o <<n>> /\ Append(s \o t, n) = (s \o t) \o <<n>>
  BY <1>2, AppendIsConcat
<1>4. (s \o t) \o <<n>> = s \o (t \o <<n>>)
  BY <1>2, ConcatAssociative
<1>5. QED
  BY <1>1, <1>3, <1>4

(***************************************************************************)
(* Starting, capturing and ending a command                                *)
(***************************************************************************)

LEMMA NothingIs ==
  Nothing \in [Stream -> Seq(Nat)] /\ \A q \in Stream : Nothing[q] = <<>>
BY DEF Nothing

LEMMA CallStarts ==
  ASSUME NEW m \in Mode, Call(m) \/ CallFails(m)
  PROVE  ProcTypeOK' /\ CaptureOK' /\ mode' = m /\ place' # "idle"
<1>1. /\ pipe' = Nothing /\ got' = Nothing /\ written' = Nothing /\ mode' = m
      /\ told' \in {"nothing", "failed"} /\ heir' = FALSE
      /\ child' \in {"none", "runs"} /\ (child' = "none" => place' = "returned")
      /\ place' # "returned" => told' = "nothing"
  BY DEF Call, CallFails
<1>2. script' \in Seq(Stream)
  <2>1. script' \in Scripts \/ script' = <<>>
    BY DEF Call, CallFails
  <2>2. QED
    BY <2>1, ScriptsAssumption, EmptySeq
<1>3. /\ open' = {} \/ open' = Pipes(m)
      /\ place' \in {"waiting", "reading", "returned"}
      /\ place' # "reading" => open' = {}
      /\ Writers' => open' = Pipes(m)
  BY DEF Call, CallFails, Writers
<1>4. ProcTypeOK'
  BY <1>1, <1>2, <1>3, NothingIs DEF ProcTypeOK
<1>5. ASSUME NEW q \in Stream
      PROVE  PipeOK(q)'
  <2>1. written'[q] = <<>> /\ got'[q] = <<>> /\ pipe'[q] = <<>>
    BY <1>1, NothingIs
  <2>2. <<>> \o <<>> = <<>> /\ Len(<<>>) <= Cap
    BY CapAssumption
  <2>3. QED
    BY <1>1, <1>3, <2>1, <2>2 DEF PipeOK
<1>6. got'["err"] = <<>>
  BY <1>1, NothingIs DEF Stream
<1>7. QED
  BY <1>1, <1>3, <1>4, <1>5, <1>6 DEF CaptureOK

LEMMA ReadKeeps ==
  ASSUME ProcTypeOK, CaptureOK, NEW q \in Stream, Read(q)
  PROVE  ProcTypeOK' /\ CaptureOK'
<1>1. /\ got \in [Stream -> Seq(Nat)] /\ pipe \in [Stream -> Seq(Nat)]
      /\ pipe[q] # <<>> /\ q \in Turn /\ place = "reading"
      /\ UNCHANGED <<mode, place, told, childVars, open, written>>
  BY DEF ProcTypeOK, Read
<1>2. /\ got' = [got EXCEPT ![q] = Append(got[q], Head(pipe[q]))]
      /\ pipe' = [pipe EXCEPT ![q] = Tail(pipe[q])]
  BY DEF Read
<1>3. /\ Append(got[q], Head(pipe[q])) \in Seq(Nat) /\ Tail(pipe[q]) \in Seq(Nat)
      /\ Len(Tail(pipe[q])) = Len(pipe[q]) - 1 /\ Len(pipe[q]) \in Nat
      /\ Append(got[q], Head(pipe[q])) \o Tail(pipe[q]) = got[q] \o pipe[q]
  BY <1>1, HeadMoves
<1>4. ProcTypeOK'
  BY <1>1, <1>2, <1>3 DEF ProcTypeOK, childVars
<1>5. q \in open
  BY <1>1 DEF Turn
<1>6. ASSUME NEW r \in Stream
      PROVE  PipeOK(r)'
  <2>1. PipeOK(r) /\ (Writers' <=> Writers)
    BY <1>1 DEF CaptureOK, Writers, childVars
  <2>2. CASE r = q
    BY <1>1, <1>2, <1>3, <1>5, <2>1, <2>2, CapAssumption DEF PipeOK
  <2>3. CASE r # q
    BY <1>1, <1>2, <2>1, <2>3 DEF PipeOK
  <2>4. QED
    BY <2>2, <2>3
<1>7. mode' = "inOrder" /\ "out" \in open' => got'["err"] = <<>>
  <2> SUFFICES ASSUME mode = "inOrder", "out" \in open PROVE got'["err"] = <<>>
    BY <1>1
  <2>1. q = "out" /\ got["err"] = <<>>
    BY <1>1 DEF Turn, CaptureOK
  <2>2. QED
    BY <1>1, <1>2, <2>1 DEF Stream
<1>8. QED
  BY <1>1, <1>4, <1>6, <1>7 DEF CaptureOK, childVars

\* The other steps of the caller.
LEMMA CallerKeeps ==
  ASSUME ProcTypeOK, CaptureOK, (\E q \in Stream : EndOfPipe(q)) \/ Drained \/ Reap
  PROVE  ProcTypeOK' /\ CaptureOK' /\ place' # "idle"
<1>1. CASE \E q \in Stream : EndOfPipe(q)
  <2>1. PICK q \in Stream : EndOfPipe(q)
    BY <1>1
  <2>2. /\ pipe[q] = <<>> /\ ~ Writers /\ place = "reading" /\ open' = open \ {q}
        /\ UNCHANGED <<mode, place, told, childVars, pipe, got, written>>
    BY <2>1 DEF EndOfPipe, WriteEnds
  <2>3. \A r \in Stream : PipeOK(r)'
    BY <2>2 DEF CaptureOK, PipeOK, Writers, childVars
  <2>4. QED
    BY <2>2, <2>3 DEF CaptureOK, ProcTypeOK, childVars
<1>2. CASE Drained \/ Reap
  <2>1. /\ UNCHANGED <<mode, childVars, pipeVars>> /\ open = {}
        /\ place' \in {"waiting", "returned"}
        /\ place' = "waiting" => child # "none" /\ told' = "nothing"
        /\ told' = told \/ (told' = child /\ child \in {"ok", "failed"})
    BY <1>2 DEF Drained, Reap, Running, CaptureOK, ProcTypeOK
  <2>2. \A r \in Stream : PipeOK(r)'
    BY <2>1 DEF CaptureOK, PipeOK, Writers, childVars, pipeVars
  <2>3. told' \in {"nothing", "ok", "failed"}
    BY <2>1 DEF ProcTypeOK
  <2>4. QED
    BY <2>1, <2>2, <2>3 DEF CaptureOK, ProcTypeOK, childVars, pipeVars
<1>3. QED
  BY <1>1, <1>2

LEMMA WriteKeeps ==
  ASSUME ProcTypeOK, CaptureOK, Write
  PROVE  ProcTypeOK' /\ CaptureOK'
<1>1. /\ UNCHANGED <<mode, place, told, child, heir, open, got>>
      /\ Writers /\ script # <<>> /\ script' = Tail(script)
  BY DEF Write
<1>2. script \in Seq(Stream) /\ script' \in Seq(Stream) /\ Head(script) \in Stream
      /\ Len(script) \in Nat
  BY <1>1, HeadTailProperties DEF ProcTypeOK
<1>3. CASE UNCHANGED <<pipe, written>>
  <2>1. \A r \in Stream : PipeOK(r)'
    BY <1>1, <1>3 DEF CaptureOK, PipeOK, Writers
  <2>2. QED
    BY <1>1, <1>2, <1>3, <2>1 DEF CaptureOK, ProcTypeOK
<1>4. CASE Pipes(mode) # {}
  <2> DEFINE q == Target(Head(script))
             n == Len(script)
  <2>1. /\ Len(pipe[q]) < Cap
        /\ pipe' = [pipe EXCEPT ![q] = Append(pipe[q], n)]
        /\ written' = [written EXCEPT ![q] = Append(written[q], n)]
    BY <1>4 DEF Write, Room
  <2>2. q \in Pipes(mode) /\ q \in Stream
    BY <1>2, <1>4 DEF Target, Pipes, ProcTypeOK, Mode, Stream
  <2>3. PipeOK(q) /\ q \in open
    BY <1>1, <2>2 DEF CaptureOK, PipeOK
  <2>4. /\ got[q] \in Seq(Nat) /\ pipe[q] \in Seq(Nat)
        /\ pipe \in [Stream -> Seq(Nat)] /\ written \in [Stream -> Seq(Nat)]
    BY <2>2 DEF ProcTypeOK
  <2>5. n \in Nat
    BY <1>2
  <2> HIDE DEF q, n
  <2>6. /\ Append(pipe[q], n) \in Seq(Nat)
        /\ Len(Append(pipe[q], n)) = Len(pipe[q]) + 1
        /\ got[q] \o Append(pipe[q], n) = Append(got[q] \o pipe[q], n)
    BY <2>4, <2>5, LastAdds, Zenon
  <2>7. Append(written[q], n) \in Seq(Nat)
    <3>1. written[q] \in Seq(Nat)
      BY <2>2, <2>4
    <3>2. QED
      BY <2>5, <3>1, AppendProperties
  <2>8. ASSUME NEW r \in Stream
        PROVE  PipeOK(r)'
    <3>1. PipeOK(r) /\ (Writers' <=> Writers)
      BY <1>1 DEF CaptureOK, Writers
    <3>2. CASE r = q
      <4>1. pipe'[q] = Append(pipe[q], n) /\ written'[q] = Append(written[q], n) /\ got'[q] = got[q]
        BY <1>1, <2>1, <2>2, <2>4
      <4>2. written'[q] = got'[q] \o pipe'[q]
        BY <2>3, <2>6, <4>1 DEF PipeOK
      <4>3. Len(pipe'[q]) <= Cap /\ q \in open'
        BY <1>1, <2>1, <2>3, <2>4, <2>6, <4>1, CapAssumption
      <4>4. QED
        BY <3>2, <4>2, <4>3 DEF PipeOK
    <3>3. CASE r # q
      BY <1>1, <2>1, <2>4, <3>1, <3>3 DEF PipeOK
    <3>4. QED
      BY <3>2, <3>3
  <2>9. ProcTypeOK'
    BY <1>1, <1>2, <2>1, <2>2, <2>4, <2>6, <2>7 DEF ProcTypeOK
  <2>10. QED
    BY <1>1, <2>8, <2>9 DEF CaptureOK
<1>5. QED
  BY <1>3, <1>4 DEF Write

LEMMA ChildKeeps ==
  ASSUME ProcTypeOK, CaptureOK, ChildStep
  PROVE  ProcTypeOK' /\ CaptureOK' /\ UNCHANGED <<mode, place>>
<1>1. CASE Write
  BY <1>1, WriteKeeps DEF Write
<1>2. CASE ChildCloses \/ ChildExits \/ ChildKilled \/ HeirEnds
  <2>1. /\ UNCHANGED <<mode, place, told, script, pipeVars>>
        /\ Writers' => Writers
        /\ child' = child \/ (Running /\ child' \in {"quiet", "ok", "failed"})
        /\ child' \in {"none", "runs", "quiet", "ok", "failed"} /\ heir' \in BOOLEAN
    <3>1. child \in {"none", "runs", "quiet", "ok", "failed"} /\ heir \in BOOLEAN
      BY DEF ProcTypeOK
    <3>2. CASE ChildCloses
      BY <3>1, <3>2 DEF ChildCloses, Leaves, Running, Writers
    <3>3. CASE ChildExits
      BY <3>1, <3>3 DEF ChildExits, Leaves, Running, Writers
    <3>4. CASE ChildKilled
      BY <3>1, <3>4 DEF ChildKilled, Running, Writers
    <3>5. CASE HeirEnds
      BY <3>1, <3>5 DEF HeirEnds, Writers
    <3>6. QED
      BY <1>2, <3>2, <3>3, <3>4, <3>5
  <2>2. \A r \in Stream : PipeOK(r)'
    BY <2>1 DEF CaptureOK, PipeOK, pipeVars
  <2>3. QED
    BY <2>1, <2>2 DEF CaptureOK, ProcTypeOK, Running, pipeVars
<1>3. QED
  BY <1>1, <1>2 DEF ChildStep

LEMMA CaptureKeeps ==
  ASSUME ProcTypeOK, CaptureOK, CallerStep \/ ChildStep, place # "idle"
  PROVE  ProcTypeOK' /\ CaptureOK' /\ mode' = mode /\ place' # "idle"
<1>1. CASE \E q \in Stream : Read(q)
  BY <1>1, ReadKeeps DEF Read
<1>2. CASE (\E q \in Stream : EndOfPipe(q)) \/ Drained \/ Reap
  BY <1>2, CallerKeeps DEF EndOfPipe, Drained, Reap
<1>3. CASE ChildStep
  BY <1>3, ChildKeeps
<1>4. QED
  BY <1>1, <1>2, <1>3 DEF CallerStep

LEMMA CaptureRests ==
  ASSUME ProcTypeOK, CaptureOK, UNCHANGED <<mode, told, childVars, pipeVars>>,
         place' = place \/ (place = "returned" /\ place' = "idle")
  PROVE  ProcTypeOK' /\ CaptureOK'
<1>1. \A r \in Stream : PipeOK(r)'
  BY DEF CaptureOK, PipeOK, Writers, childVars, pipeVars
<1>2. QED
  BY <1>1 DEF CaptureOK, ProcTypeOK, childVars, pipeVars

(***************************************************************************)
(* The inductive invariant                                                 *)
(***************************************************************************)

LEMMA InitInv == Init => IndInv
<1> SUFFICES ASSUME Init PROVE IndInv
  OBVIOUS
<1>1. ProcInit
  BY DEF Init
<1>2. ProcTypeOK
  BY <1>1, NothingIs, EmptySeq DEF ProcInit, ProcTypeOK, Mode
<1>3. TypeOK
  <2>1. reply \in Reply
    BY DEF Init, Reply, Lost
  <2>2. pc = "child" <=> place # "idle"
    BY <1>1 DEF Init, ProcInit
  <2>3. QED
    BY <1>2, <2>1, <2>2 DEF Init, TypeOK
<1>4. ASSUME NEW q \in Stream
      PROVE  PipeOK(q)
  <2>1. written[q] = <<>> /\ got[q] = <<>> /\ pipe[q] = <<>> /\ Pipes(mode) = {}
    BY <1>1, NothingIs DEF ProcInit, Pipes
  <2>2. QED
    BY <2>1, CapAssumption DEF PipeOK
<1>5. CaptureOK
  BY <1>1, <1>4 DEF ProcInit, CaptureOK
<1>6. QED
  BY <1>3, <1>5 DEF Init, IndInv, ActorOK, SuccessMeansAnswered

\* Steps that leave the child alone.
LEMMA CoreKeeps ==
  ASSUME IndInv, UNCHANGED procVars,
         \/ (\E m \in Module : Load(m)) \/ Loaded \/ ReplyArrives \/ StackReused
         \/ LookupCrashes \/ IssueGet
         \/ \E m \in Module : \E c \in Listed[m] : Misfit(m, c)
  PROVE  IndInv'
<1>1. ProcTypeOK' /\ CaptureOK'
  BY CaptureRests DEF IndInv, TypeOK, procVars
<1>2. /\ UNCHANGED <<mode, place, child, got, written>>
      /\ TypeOK /\ ActorOK /\ SuccessMeansAnswered
  BY DEF procVars, IndInv, childVars, pipeVars
<1> USE DEF ownVars, callVars
<1>3. CASE \/ (\E m \in Module : Load(m)) \/ Loaded \/ StackReused \/ LookupCrashes
  <2>1. /\ UNCHANGED callVars
        /\ ready' \subseteq Module /\ frame' \in {"own", "other"}
        /\ pc' = pc \/ (pc' = "core" /\ pc = "loading") \/ pc' = "aborted"
        /\ pc' # pc => pc # "child" /\ pc' # "child"
    BY <1>2, <1>3 DEF Load, Loaded, StackReused, LookupCrashes, TypeOK
  <2>2. pc' = "core" /\ status' = "Success" => pc = "core" /\ status = "Success"
    BY <1>2, <2>1 DEF ActorOK
  <2>3. SuccessMeansAnswered'
    BY <1>2, <2>1, <2>2 DEF SuccessMeansAnswered
  <2>4. ActorOK'
    BY <1>2, <2>1, <2>2 DEF ActorOK, CaptureMode
  <2>5. TypeOK'
    BY <1>1, <1>2, <2>1 DEF TypeOK
  <2>6. QED
    BY <1>1, <2>3, <2>4, <2>5 DEF IndInv
<1>4. CASE ReplyArrives
  <2>1. PICK r \in Reply : /\ reply' = r
                           /\ Returns(IF Fetched(r) THEN "Success" ELSE "ErrorExecFailed")
    BY <1>4 DEF ReplyArrives
  <2>2. /\ pc = "request" /\ mod = Issues /\ mod' = Issues /\ pc' = "core"
        /\ UNCHANGED <<ready, frame, command, document>>
    BY <1>2, <1>4, <2>1 DEF ReplyArrives, Returns, ActorOK, Issues
  <2>3. status' \in {"Success", "ErrorExecFailed"} /\ (status' = "Success" => Fetched(reply'))
    BY <2>1 DEF Returns
  <2>4. SuccessMeansAnswered'
    BY <2>2, <2>3 DEF SuccessMeansAnswered, Fetched, Issues, DevOps
  <2>5. ActorOK'
    BY <2>2 DEF ActorOK, Module
  <2>6. TypeOK'
    BY <1>1, <1>2, <2>1, <2>2, <2>3 DEF TypeOK
  <2>7. QED
    BY <1>1, <2>4, <2>5, <2>6 DEF IndInv
<1>5. ASSUME NEW m \in Module, NEW c \in Listed[m], Finds(m, c)
      PROVE  mod' \in Module /\ command' \in Command
  BY <1>5 DEF Finds, Command
<1>6. CASE IssueGet
  <2>1. Issues \in Module /\ "issue-get" \in Listed[Issues]
    BY DEF Module, Listed
  <2>2. QED
    BY <1>1, <1>2, <1>5, <1>6, <2>1
    DEF IssueGet, Finds, IndInv, TypeOK, ActorOK, SuccessMeansAnswered
<1>7. CASE \E m \in Module : \E c \in Listed[m] : Misfit(m, c)
  BY <1>1, <1>2, <1>5, <1>7
  DEF Misfit, Finds, IndInv, TypeOK, ActorOK, SuccessMeansAnswered
<1>8. QED
  BY <1>3, <1>4, <1>6, <1>7

\* A module or the installer starts a program.
LEMMA RunKeeps ==
  ASSUME IndInv, Execute \/ \E c \in Listed[DevOps] : RunTool(c)
  PROVE  IndInv'
<1>1. CASE Execute
  <2>1. /\ \E m \in Mode : Call(m) \/ CallFails(m)
        /\ pc' = "child" /\ mod' = "installer" /\ status' = "none"
        /\ UNCHANGED <<ready, frame, command, reply>> /\ document' \in BOOLEAN
    BY <1>1 DEF Execute, Mode, ownVars
  <2>2. ProcTypeOK' /\ CaptureOK' /\ place' # "idle"
    BY <2>1, CallStarts
  <2>3. QED
    BY <2>1, <2>2 DEF IndInv, TypeOK, ActorOK, SuccessMeansAnswered
<1>2. CASE \E c \in Listed[DevOps] : RunTool(c)
  <2>1. PICK c \in Listed[DevOps] : RunTool(c)
    BY <1>2
  <2>2. /\ Call(CaptureMode(c)) \/ CallFails(CaptureMode(c))
        /\ pc' = "child" /\ mod' = DevOps /\ command' = c /\ status' = "none"
        /\ UNCHANGED <<ready, frame, reply>> /\ document' \in BOOLEAN
    BY <2>1 DEF RunTool, Finds, ownVars
  <2>3. CaptureMode(c) \in Mode
    BY DEF CaptureMode, Mode
  <2>4. ProcTypeOK' /\ CaptureOK' /\ place' # "idle" /\ mode' = CaptureMode(c)
    BY <2>2, <2>3, CallStarts
  <2>5. c \in Command /\ DevOps \in Module
    BY DEF Command, Module
  <2>6. ActorOK'
    BY <2>2, <2>4 DEF ActorOK, CaptureMode
  <2>7. QED
    BY <2>2, <2>4, <2>5, <2>6 DEF IndInv, TypeOK, SuccessMeansAnswered
<1>3. QED
  BY <1>1, <1>2

\* It runs, and is waited for.
LEMMA ChildMoves ==
  ASSUME IndInv, pc = "child", CallerStep \/ ChildStep, UNCHANGED <<pc, ownVars, callVars>>
  PROVE  IndInv'
<1>1. TypeOK /\ place # "idle" /\ CaptureOK
  BY DEF IndInv, TypeOK
<1>2. ProcTypeOK' /\ CaptureOK' /\ mode' = mode /\ place' # "idle"
  BY <1>1, CaptureKeeps DEF TypeOK
<1>3. ActorOK'
  BY <1>2 DEF IndInv, ActorOK, callVars, CaptureMode
<1>4. TypeOK'
  BY <1>1, <1>2 DEF TypeOK, ownVars, callVars
<1>5. QED
  BY <1>2, <1>3, <1>4 DEF IndInv, SuccessMeansAnswered

\* A program that ended well ended with 0, and vault-read has all it printed.
LEMMA ReturnKeeps ==
  ASSUME IndInv, ToolReturns
  PROVE  IndInv'
<1>1. /\ place = "returned" /\ place' = "idle" /\ pc = "child"
      /\ Returns(IF Succeeds THEN "Success" ELSE "ErrorExecFailed")
      /\ UNCHANGED <<ready, frame, mod, command, reply, document, mode, told, childVars, pipeVars>>
  BY DEF ToolReturns, ownVars
<1>2. ProcTypeOK' /\ CaptureOK'
  BY <1>1, CaptureRests DEF IndInv, TypeOK
<1>3. /\ status' \in {"Success", "ErrorExecFailed"} /\ (status' = "Success" => Succeeds)
      /\ mod = "installer" => pc' = "installer"
      /\ mod # "installer" => pc' = "core"
  BY <1>1 DEF Returns
<1>4. mod = "installer" \/ (mod = DevOps /\ mode = CaptureMode(command))
  BY <1>1 DEF IndInv, ActorOK
<1>5. ActorOK'
  BY <1>1, <1>3, <1>4 DEF ActorOK, Module
<1>6. SuccessMeansAnswered'
  <2> SUFFICES ASSUME pc' = "core", status' = "Success"
               PROVE  /\ mod' = DevOps /\ child' = "ok"
                      /\ command' = "vault-read" => document' /\ got'["out"] = written'["out"]
    BY DEF SuccessMeansAnswered, Issues, DevOps
  <2>1. mod = DevOps /\ mode = CaptureMode(command) /\ Succeeds
    BY <1>3, <1>4
  <2>2. told = "ok" /\ (command = "vault-read" => Parses)
    BY <2>1 DEF Succeeds, CaptureMode
  <2>3. child = "ok"
    BY <2>2 DEF IndInv, CaptureOK
  <2>4. command = "vault-read" => got["out"] = written["out"]
    BY <2>1, <2>2 DEF Parses, Returned, CaptureMode
  <2>5. QED
    BY <1>1, <2>1, <2>2, <2>3, <2>4 DEF Parses, childVars, pipeVars
<1>7. TypeOK'
  BY <1>1, <1>2, <1>3 DEF IndInv, TypeOK
<1>8. QED
  BY <1>2, <1>5, <1>6, <1>7 DEF IndInv

LEMMA NextInv == IndInv /\ [Next]_vars => IndInv'
<1> SUFFICES ASSUME IndInv, [Next]_vars PROVE IndInv'
  OBVIOUS
<1>1. CASE UNCHANGED vars
  <2>1. ProcTypeOK' /\ CaptureOK'
    BY <1>1, CaptureRests DEF vars, procVars, IndInv, TypeOK
  <2>2. TypeOK'
    BY <1>1, <2>1 DEF vars, procVars, ownVars, callVars, IndInv, TypeOK
  <2>3. ActorOK'
    BY <1>1 DEF vars, procVars, callVars, IndInv, ActorOK, CaptureMode
  <2>4. SuccessMeansAnswered'
    BY <1>1 DEF vars, procVars, childVars, pipeVars, callVars, IndInv, SuccessMeansAnswered
  <2>5. QED
    BY <2>1, <2>2, <2>3, <2>4 DEF IndInv
<1>2. CASE /\ UNCHANGED procVars
           /\ \/ (\E m \in Module : Load(m)) \/ Loaded \/ ReplyArrives \/ StackReused
              \/ LookupCrashes \/ IssueGet
              \/ \E m \in Module : \E c \in Listed[m] : Misfit(m, c)
  BY <1>2, CoreKeeps
<1>3. CASE Execute \/ \E c \in Listed[DevOps] : RunTool(c)
  BY <1>3, RunKeeps
<1>4. CASE pc = "child" /\ (CallerStep \/ ChildStep) /\ UNCHANGED <<pc, ownVars, callVars>>
  BY <1>4, ChildMoves
<1>5. CASE ToolReturns
  BY <1>5, ReturnKeeps
<1>6. QED
  BY <1>1, <1>2, <1>3, <1>4, <1>5
  DEF Next, OwnStep, Outside, Ask, Load, Loaded, ReplyArrives, StackReused, LookupCrashes,
      IssueGet, Misfit

\* The inductive invariant holds in every reachable state.
THEOREM Invariant == Spec => []IndInv
<1>1. QED
  BY InitInv, NextInv, PTL DEF Spec

(***************************************************************************)
(* What follows from it                                                    *)
(***************************************************************************)

\* Every variable keeps its type, and a call is under way exactly when the
\* program waits for one.
THEOREM TypeCorrect == Spec => []TypeOK
<1>1. IndInv => TypeOK
  BY DEF IndInv
<1>2. QED
  BY <1>1, Invariant, PTL

\* A call that returns has read everything that was written.
THEOREM CapturesAll == Spec => []OutputComplete
<1>1. IndInv => OutputComplete
  <2> SUFFICES ASSUME IndInv, place = "returned" PROVE got = written
    BY DEF OutputComplete
  <2>1. got \in [Stream -> Seq(Nat)] /\ written \in [Stream -> Seq(Nat)]
    BY DEF IndInv, TypeOK, ProcTypeOK
  <2>2. \A q \in Stream : got[q] = written[q]
    <3> TAKE q \in Stream
    <3>1. pipe[q] = <<>> /\ written[q] = got[q] \o pipe[q]
      BY DEF IndInv, CaptureOK, PipeOK
    <3>2. got[q] \in Seq(Nat)
      BY <2>1
    <3>3. QED
      BY <3>1, <3>2, ConcatEmptySeq
  <2>3. QED
    BY <2>1, <2>2
<1>2. QED
  BY <1>1, Invariant, PTL

\* Caller and child wait for each other only when the standard output is read
\* to its end first and the pipe of the standard error is full.
THEOREM WaitsOnErrorsOnly == Spec => []MutualWaitOnErrorsOnly
<1>1. IndInv => MutualWaitOnErrorsOnly
  <2> SUFFICES ASSUME IndInv, CallerStuck, WriterStuck
               PROVE  mode = "inOrder" /\ Len(pipe["err"]) = Cap /\ got["err"] = <<>>
    BY DEF MutualWaitOnErrorsOnly
  <2> DEFINE q == Target(Head(script))
  <2>1. script \in Seq(Stream) /\ script # <<>> /\ Head(script) \in Stream
    BY DEF WriterStuck, IndInv, TypeOK, ProcTypeOK
  <2>2. q \in Pipes(mode) /\ q \in Stream
    BY <2>1 DEF WriterStuck, Target, Pipes, Mode, Stream, IndInv, TypeOK, ProcTypeOK
  <2>3. /\ pipe[q] \in Seq(Nat) /\ Len(pipe[q]) \in Nat /\ Len(pipe[q]) <= Cap
        /\ ~ (Len(pipe[q]) < Cap)
    BY <2>2 DEF WriterStuck, Room, IndInv, TypeOK, ProcTypeOK, CaptureOK, PipeOK
  <2>4. Len(pipe[q]) = Cap /\ pipe[q] # <<>>
    BY <2>3, CapAssumption
  <2>5. q \in open
    BY <2>2 DEF WriterStuck, IndInv, CaptureOK, PipeOK
  <2>6. q \notin Turn
    BY <2>4 DEF CallerStuck
  <2>7. mode = "inOrder" /\ "out" \in open /\ q # "out"
    BY <2>5, <2>6 DEF Turn
  <2>8. q = "err"
    BY <2>2, <2>7 DEF Stream
  <2>9. QED
    BY <2>4, <2>7, <2>8 DEF IndInv, CaptureOK
<1>2. QED
  BY <1>1, Invariant, PTL

\* Success is reported for an answer without error that was understood, and
\* for a program that ended well, of which vault-read has the whole output.
THEOREM SuccessIsTrue == Spec => []SuccessMeansAnswered
<1>1. IndInv => SuccessMeansAnswered
  BY DEF IndInv
<1>2. QED
  BY <1>1, Invariant, PTL

(***************************************************************************)
(* Every way to run a command keeps the promise of Capture                 *)
(***************************************************************************)

LEMMA CaptureStarts == Init => Captured!Init
BY DEF Init, ProcInit, Captured!Init, Captured!Empty, Nothing, Phase, Output, Returned, Want,
       Fate, Running

\* A step that changes nothing of what the caller sees.
LEMMA Unseen ==
  ASSUME UNCHANGED <<mode, got, written, told, Fate>>,
         \/ place' = place
         \/ place \in {"reading", "waiting"} /\ place' \in {"reading", "waiting"}
  PROVE  UNCHANGED Captured!vars
<1>1. Phase' = Phase /\ Want' = Want
  BY DEF Phase, Want
<1>2. Output' = Output
  BY <1>1 DEF Output, Nothing, Returned
<1>3. QED
  BY <1>1, <1>2 DEF Captured!vars

LEMMA CallSeen ==
  ASSUME place = "idle", NEW m \in Mode, Call(m) \/ CallFails(m)
  PROVE  Captured!Next
<1>1. Want' \in {"all", "line"}
  BY DEF Want
<1>2. CASE Call(m)
  <2>1. /\ place' \in {"reading", "waiting"} /\ written' = Nothing
        /\ child' = "runs" /\ told' = "nothing"
    BY <1>2 DEF Call
  <2>2. Phase = "free" /\ Phase' = "running" /\ Output' = Nothing /\ Fate' = "runs"
    BY <2>1 DEF Phase, Output, Nothing, Fate, Running
  <2>3. Captured!Start
    BY <1>1, <2>1, <2>2 DEF Captured!Start, Captured!Empty, Nothing
  <2>4. QED
    BY <2>3 DEF Captured!Next
<1>3. CASE CallFails(m)
  <2>1. /\ place' = "returned" /\ written' = Nothing /\ got' = Nothing
        /\ child' = "none" /\ told' = "failed"
    BY <1>3 DEF CallFails
  <2>2. Phase = "free" /\ Phase' = "done" /\ Fate' = "none"
    BY <2>1 DEF Phase, Fate, Running
  <2>3. Output' = Nothing
    <3>1. \A q \in Stream : got'[q] = <<>> /\ FirstLine(<<>>) = <<>>
      BY <2>1, NothingIs DEF FirstLine
    <3>2. \A q \in Stream : Returned(q)' = <<>>
      BY <3>1 DEF Returned
    <3>3. QED
      BY <2>2, <3>2 DEF Output, Nothing
  <2>4. Captured!Refuse
    BY <1>1, <2>1, <2>2, <2>3 DEF Captured!Refuse, Captured!Empty, Nothing
  <2>5. QED
    BY <2>4 DEF Captured!Next
<1>4. QED
  BY <1>2, <1>3

\* What is read while the call is under way is not seen.
LEMMA ReadUnseen ==
  ASSUME NEW q \in Stream, Read(q)
  PROVE  UNCHANGED Captured!vars
<1>1. place = "reading" /\ place' = "reading" /\ UNCHANGED <<mode, written, child, told>>
  BY DEF Read, childVars
<1>2. Phase = "running" /\ Phase' = "running" /\ Want' = Want /\ Fate' = Fate
  BY <1>1 DEF Phase, Want, Fate, Running
<1>3. Output' = Output
  BY <1>2 DEF Output, Nothing
<1>4. QED
  BY <1>1, <1>2, <1>3 DEF Captured!vars

\* The end of every pipe was seen: what was read is what was written.
LEMMA AllRead ==
  ASSUME ProcTypeOK, CaptureOK, open = {}
  PROVE  got = written
<1>1. got \in [Stream -> Seq(Nat)] /\ written \in [Stream -> Seq(Nat)]
  BY DEF ProcTypeOK
<1>2. ASSUME NEW q \in Stream
      PROVE  got[q] = written[q]
  <2>1. pipe[q] = <<>> /\ written[q] = got[q] \o pipe[q]
    BY DEF CaptureOK, PipeOK
  <2>2. got[q] \in Seq(Nat)
    BY <1>1
  <2>3. QED
    BY <2>1, <2>2, ConcatEmptySeq
<1>3. QED
  BY <1>1, <1>2

\* The cut at the first chunk that ends a line gives the first line.
LEMMA CutIsFirstLine ==
  ASSUME NEW s \in Seq(Nat)
  PROVE  FirstLine(s) \in Seq(Nat) /\ Captured!IsFirstLine(FirstLine(s), s)
<1> DEFINE ends == {i \in DOMAIN s : s[i] \in LineEnds}
           m == CHOOSE k \in ends : \A i \in ends : k <= i
<1>1. DOMAIN s = 1..Len(s) /\ Len(s) \in Nat
  OBVIOUS
<1>2. CASE ends = {}
  <2>1. FirstLine(s) = s
    BY <1>2 DEF FirstLine
  <2>2. \A i \in 1..Len(s) : s[i] \notin LineEnds
    BY <1>1, <1>2
  <2>3. Captured!Grows(s, s)
    BY <1>1 DEF Captured!Grows
  <2>4. Captured!IsFirstLine(s, s)
    BY <2>2, <2>3 DEF Captured!IsFirstLine
  <2>5. QED
    BY <2>1, <2>4
<1>3. CASE ends # {}
  <2>1. ends \in SUBSET Nat
    BY <1>1
  <2>2. m \in ends /\ \A i \in ends : m <= i
    <3>1. \E k \in ends : \A i \in ends : k <= i
      BY <1>3, <2>1, LeastExists
    <3>2. QED
      BY <3>1
  <2>3. m \in 1..Len(s) /\ s[m] \in LineEnds
    BY <1>1, <2>2
  <2>4. FirstLine(s) = SubSeq(s, 1, m)
    BY <1>3 DEF FirstLine
  <2> HIDE DEF m
  <2>5. /\ SubSeq(s, 1, m) \in Seq(Nat) /\ Len(SubSeq(s, 1, m)) = m
        /\ \A i \in 1..m : SubSeq(s, 1, m)[i] = s[i]
    BY <1>1, <2>3
  <2>6. \A i \in 1..m : s[i] \in LineEnds => i = m
    <3> SUFFICES ASSUME NEW i \in 1..m, s[i] \in LineEnds PROVE i = m
      OBVIOUS
    <3>1. i \in ends
      BY <1>1, <2>3
    <3>2. QED
      BY <2>2, <2>3, <3>1
  <2>7. SubSeq(s, 1, m) # <<>>
    BY <2>3, <2>5
  <2> DEFINE l == SubSeq(s, 1, m)
  <2>8. Captured!Grows(l, s)
    BY <1>1, <2>3, <2>5 DEF Captured!Grows
  <2>9. \A i \in 1..Len(l) : l[i] \in LineEnds => i = Len(l)
    BY <2>5, <2>6
  <2>10. l[Len(l)] \in LineEnds
    BY <2>3, <2>5
  <2> HIDE DEF l
  <2>11. Captured!IsFirstLine(l, s)
    BY <2>7, <2>8, <2>9, <2>10 DEF Captured!IsFirstLine, l
  <2>12. QED
    BY <2>4, <2>5, <2>11 DEF l
<1>4. QED
  BY <1>2, <1>3

LEMMA ReturnSeen ==
  ASSUME ProcTypeOK, CaptureOK, Drained \/ Reap, place' = "returned"
  PROVE  Captured!Next
<1>1. /\ place \in {"reading", "waiting"} /\ open = {}
      /\ UNCHANGED <<mode, got, written, child>>
  BY DEF Drained, Reap, CaptureOK, childVars, pipeVars
<1>2. got = written /\ got \in [Stream -> Seq(Nat)]
  BY <1>1, AllRead DEF ProcTypeOK
<1>3. Phase = "running" /\ Phase' = "done" /\ Want' = Want /\ Fate' = Fate
  BY <1>1 DEF Phase, Want, Fate, Running
<1>4. CASE mode = "firstLine"
  <2>1. told' = "nothing" /\ Want = "line"
    BY <1>4 DEF Drained, Reap, CaptureOK, Want
  <2>2. \A q \in Stream : Returned(q)' = FirstLine(got[q])
    BY <1>1, <1>4 DEF Returned
  <2>3. Output' = [q \in Stream |-> FirstLine(got[q])]
    BY <1>3, <2>2 DEF Output
  <2>4. \A q \in Stream : /\ Output'[q] \in Seq(Nat)
                          /\ Captured!IsFirstLine(Output'[q], written[q])
    BY <1>2, <2>3, CutIsFirstLine
  <2>5. Output' \in [Stream -> Seq(Nat)]
    BY <2>3, <2>4
  <2>6. Captured!Deliver
    BY <1>1, <1>3, <2>1, <2>4, <2>5 DEF Captured!Deliver
  <2>7. QED
    BY <2>6 DEF Captured!Next
<1>5. CASE mode # "firstLine"
  <2>1. /\ Want = "all" /\ ~Running /\ told' = child /\ child \in {"ok", "failed"}
    BY <1>5 DEF Drained, Reap, CaptureOK, Want, ProcTypeOK, Running
  <2>2. \A q \in Stream : Returned(q)' = got[q]
    BY <1>1, <1>5 DEF Returned
  <2>3. Output' = written
    BY <1>2, <1>3, <2>2 DEF Output
  <2>4. Captured!Deliver
    BY <1>1, <1>3, <2>1, <2>3 DEF Captured!Deliver, Fate
  <2>5. QED
    BY <2>4 DEF Captured!Next
<1>6. QED
  BY <1>4, <1>5

\* Nobody can write when the call has returned.
LEMMA WriteSeen ==
  ASSUME ProcTypeOK, CaptureOK, place # "idle", Write
  PROVE  Captured!Next \/ UNCHANGED Captured!vars
<1>1. UNCHANGED <<mode, place, told, child, got>> /\ Writers /\ script # <<>>
  BY DEF Write
<1>2. CASE UNCHANGED written
  BY <1>1, <1>2, Unseen DEF Fate, Running
<1>3. CASE Pipes(mode) # {}
  <2> DEFINE q == Target(Head(script))
             n == Len(script)
  <2>1. script \in Seq(Stream) /\ Head(script) \in Stream /\ n \in Nat
    BY <1>1, HeadTailProperties DEF ProcTypeOK
  <2>2. q \in Pipes(mode) /\ q \in Stream
    BY <1>3, <2>1 DEF Target, Pipes, ProcTypeOK, Mode, Stream
  <2>3. place \in {"reading", "waiting"}
    BY <1>1, <2>2 DEF CaptureOK, PipeOK, ProcTypeOK
  <2>4. Phase = "running" /\ Phase' = "running"
    BY <1>1, <2>3 DEF Phase
  <2>5. Output' = Output
    BY <2>4 DEF Output, Nothing
  <2>6. written' = [written EXCEPT ![q] = Append(written[q], n)]
    BY <1>3 DEF Write
  <2>7. written \in [Stream -> Seq(Nat)]
    BY DEF ProcTypeOK
  <2> HIDE DEF q, n
  <2>8. ASSUME NEW r \in Stream
        PROVE  /\ written'[r] \in Seq(Nat)
               /\ Captured!Grows(written[r], written'[r])
    <3>1. written[r] \in Seq(Nat)
      BY <2>7
    <3>2. written'[r] = written[r] \/ written'[r] = Append(written[r], n)
      BY <2>2, <2>6, <2>7
    <3>3. Append(written[r], n) \in Seq(Nat)
      BY <2>1, <3>1, AppendProperties
    <3>4. Captured!Grows(written[r], written[r])
      BY <3>1 DEF Captured!Grows
    <3>5. Captured!Grows(written[r], Append(written[r], n))
      BY <2>1, <3>1, AppendProperties DEF Captured!Grows
    <3>6. QED
      BY <3>1, <3>2, <3>3, <3>4, <3>5
  <2>9. written' \in [Stream -> Seq(Nat)]
    BY <2>6, <2>7, <2>8
  <2>10. Captured!Emit
    BY <1>1, <2>4, <2>5, <2>8, <2>9 DEF Captured!Emit, Want, Fate, Running
  <2>11. QED
    BY <2>10 DEF Captured!Next
<1>4. QED
  BY <1>2, <1>3 DEF Write

LEMMA ChildSeen ==
  ASSUME ProcTypeOK, CaptureOK, place # "idle", ChildStep
  PROVE  Captured!Next \/ UNCHANGED Captured!vars
<1>1. CASE Write
  BY <1>1, WriteSeen
<1>2. CASE ChildExits \/ ChildKilled
  <2>1. /\ Running /\ child' \in {"ok", "failed"}
        /\ UNCHANGED <<mode, place, told, got, written>>
    BY <1>2 DEF ChildExits, ChildKilled, Running, pipeVars
  <2>2. Phase' = Phase /\ Output' = Output /\ Want' = Want
    BY <2>1 DEF Phase, Output, Nothing, Returned, Want
  <2>3. Captured!End
    BY <2>1, <2>2 DEF Captured!End, Fate, Running
  <2>4. QED
    BY <2>3 DEF Captured!Next
<1>3. CASE HeirEnds \/ ChildCloses
  BY <1>3, Unseen DEF HeirEnds, ChildCloses, Fate, Running, pipeVars
<1>4. QED
  BY <1>1, <1>2, <1>3 DEF ChildStep

LEMMA CallerSeen ==
  ASSUME ProcTypeOK, CaptureOK, CallerStep
  PROVE  Captured!Next \/ UNCHANGED Captured!vars
<1>1. CASE \E q \in Stream : Read(q)
  BY <1>1, ReadUnseen
<1>2. CASE \E q \in Stream : EndOfPipe(q)
  BY <1>2, Unseen DEF EndOfPipe, childVars, Fate, Running
<1>3. CASE Drained \/ Reap
  <2>1. CASE place' = "returned"
    BY <1>3, <2>1, ReturnSeen
  <2>2. CASE place' # "returned"
    <3>1. /\ place = "reading" /\ place' = "waiting"
          /\ UNCHANGED <<mode, told, childVars, pipeVars>>
      BY <1>3, <2>2 DEF Drained, Reap
    <3>2. QED
      BY <3>1, Unseen DEF childVars, pipeVars, Fate, Running
  <2>3. QED
    BY <2>1, <2>2
<1>4. QED
  BY <1>1, <1>2, <1>3 DEF CallerStep

LEMMA ResultUsed ==
  ASSUME ToolReturns
  PROVE  Captured!Next
<1>1. /\ place = "returned" /\ place' = "idle"
      /\ UNCHANGED <<mode, told, child, got, written>>
  BY DEF ToolReturns, childVars, pipeVars
<1>2. Phase = "done" /\ Phase' = "free" /\ Output' = Output
  BY <1>1 DEF Phase, Output, Returned
<1>3. Captured!Forget
  BY <1>1, <1>2 DEF Captured!Forget, Want, Fate, Running
<1>4. QED
  BY <1>3 DEF Captured!Next

LEMMA StepSeen == IndInv /\ [Next]_vars => [Captured!Next]_(Captured!vars)
<1> SUFFICES ASSUME IndInv, [Next]_vars
             PROVE  Captured!Next \/ UNCHANGED Captured!vars
  OBVIOUS
<1>1. ProcTypeOK /\ CaptureOK /\ (pc = "child" <=> place # "idle")
  BY DEF IndInv, TypeOK
<1>2. CASE UNCHANGED procVars
  BY <1>2, Unseen DEF procVars, childVars, pipeVars, Fate, Running
<1>3. CASE Execute \/ \E c \in Listed[DevOps] : RunTool(c)
  <2>1. pc # "child" /\ \E m \in Mode : Call(m) \/ CallFails(m)
    BY <1>3 DEF Execute, RunTool, Finds, CaptureMode, Mode
  <2>2. QED
    BY <1>1, <2>1, CallSeen
<1>4. CASE ToolReturns
  BY <1>4, ResultUsed
<1>5. CASE pc = "child" /\ CallerStep
  BY <1>1, <1>5, CallerSeen
<1>6. CASE pc = "child" /\ ChildStep
  BY <1>1, <1>6, ChildSeen
<1>7. QED
  BY <1>2, <1>3, <1>4, <1>5, <1>6
  DEF Next, OwnStep, Outside, Ask, Load, Loaded, ReplyArrives, StackReused, LookupCrashes,
      IssueGet, Misfit, vars

\* Every way in which phgit and its installer run a command implements Capture,
\* for pipes of any size, any output and any lines: four of them return all of
\* it, and the exit code of a command that has ended, in the step in which the
\* call returns; get_output_from_command returns the first line.
THEOREM KeepsCapture == Spec => RefinesCapture
<1>1. Spec => Init /\ [][Next]_vars
  BY PTL DEF Spec
<1>2. QED
  BY <1>1, CaptureStarts, StepSeen, Invariant, PTL DEF RefinesCapture, Captured!Spec

(***************************************************************************)
(* A call is finite                                                        *)
(***************************************************************************)

One(holds) == IF holds THEN 1 ELSE 0

\* Where the caller is, counted from the end.
Ahead ==
  IF place = "reading" THEN 3 ELSE IF place = "waiting" THEN 2
  ELSE IF place = "returned" THEN 1 ELSE 0

Unended == One("out" \in open) + One("err" \in open)

Unwritten == Len(script)

Piped(q) == Len(pipe[q])

\* Who may still close its pipes or end: a child may leave a descendant behind.
Alive ==
  One(child = "runs") + One(child = "runs") + One(child = "runs")
    + One(child = "quiet") + One(heir)

\* The steps that a call and its command have before them at most: a chunk is
\* written, and then it is read.
Left ==
  Unwritten + Unwritten + Piped("out") + Piped("err") + Unended + Alive + Ahead

\* Every step of a call brings its end nearer, whoever takes it: what waits can
\* be kept waiting, but nothing is read, reported or asked for twice.
EndComesNearer ==
  [][pc = "child" =>
       /\ CallerStep \/ ChildStep \/ ToolReturns => Left' < Left
       /\ Left' <= Left]_vars

\* The parts of the sum before and after a step.
LEMMA PartsAre ==
  ASSUME ProcTypeOK
  PROVE  /\ Unwritten \in Nat /\ Piped("out") \in Nat /\ Piped("err") \in Nat
         /\ Unended \in 0..2 /\ Alive \in 0..4 /\ Ahead \in 0..3
         /\ Left \in Nat
<1>1. Unwritten \in Nat /\ Piped("out") \in Nat /\ Piped("err") \in Nat
  BY DEF ProcTypeOK, Stream, Unwritten, Piped
<1>2. Unended \in 0..2 /\ Alive \in 0..4 /\ Ahead \in 0..3
  BY DEF Unended, Alive, Ahead, One
<1>3. QED
  BY <1>1, <1>2 DEF Left

LEMMA PartsBecome ==
  ASSUME ProcTypeOK'
  PROVE  /\ Unwritten' \in Nat /\ Piped("out")' \in Nat /\ Piped("err")' \in Nat
         /\ Unended' \in 0..2 /\ Alive' \in 0..4 /\ Ahead' \in 0..3
         /\ Left' \in Nat
<1>1. Unwritten' \in Nat /\ Piped("out")' \in Nat /\ Piped("err")' \in Nat
  BY DEF ProcTypeOK, Stream, Unwritten, Piped
<1>2. Unended' \in 0..2 /\ Alive' \in 0..4 /\ Ahead' \in 0..3
  BY DEF Unended, Alive, Ahead, One
<1>3. QED
  BY <1>1, <1>2 DEF Left

LEMMA ReadNearer ==
  ASSUME ProcTypeOK, ProcTypeOK', NEW q \in Stream, Read(q)
  PROVE  Left' < Left
<1>1. /\ pipe[q] # <<>> /\ pipe' = [pipe EXCEPT ![q] = Tail(pipe[q])]
      /\ pipe \in [Stream -> Seq(Nat)]
      /\ UNCHANGED <<place, child, heir, script, open>>
  BY DEF Read, childVars, ProcTypeOK
<1>2. Unwritten' = Unwritten /\ Unended' = Unended /\ Alive' = Alive /\ Ahead' = Ahead
  BY <1>1 DEF Unwritten, Unended, Alive, Ahead, One
<1>3. Piped(q)' = Piped(q) - 1
  BY <1>1, HeadMoves DEF Piped
<1>4. \A r \in Stream \ {q} : Piped(r)' = Piped(r)
  BY <1>1 DEF Piped
<1>5. CASE q = "out"
  BY <1>2, <1>3, <1>4, <1>5, PartsAre, PartsBecome DEF Left, Stream
<1>6. CASE q = "err"
  BY <1>2, <1>3, <1>4, <1>6, PartsAre, PartsBecome DEF Left, Stream
<1>7. QED
  BY <1>5, <1>6 DEF Stream

LEMMA EndOfPipeNearer ==
  ASSUME ProcTypeOK, ProcTypeOK', NEW q \in Stream, EndOfPipe(q)
  PROVE  Left' < Left
<1>1. /\ q \in open /\ open' = open \ {q}
      /\ UNCHANGED <<place, child, heir, script, pipe>>
  BY DEF EndOfPipe, Turn, childVars
<1>2. /\ Unwritten' = Unwritten /\ \A r \in Stream : Piped(r)' = Piped(r)
      /\ Alive' = Alive /\ Ahead' = Ahead
  BY <1>1 DEF Unwritten, Piped, Alive, Ahead, One
<1>3. Unended' = Unended - 1
  BY <1>1 DEF Unended, One, Stream
<1>4. QED
  BY <1>2, <1>3, PartsAre, PartsBecome DEF Left, Stream

\* The caller goes on.
LEMMA PlaceNearer ==
  ASSUME ProcTypeOK, ProcTypeOK', Drained \/ Reap \/ ToolReturns
  PROVE  Left' < Left
<1>1. UNCHANGED <<child, heir, script, pipe, open>>
  BY DEF Drained, Reap, ToolReturns, childVars, pipeVars
<1>2. /\ Unwritten' = Unwritten /\ \A r \in Stream : Piped(r)' = Piped(r)
      /\ Alive' = Alive /\ Unended' = Unended
  BY <1>1 DEF Unwritten, Piped, Alive, Unended, One
<1>3. Ahead' < Ahead
  BY DEF Drained, Reap, ToolReturns, Ahead
<1>4. QED
  BY <1>2, <1>3, PartsAre, PartsBecome DEF Left, Stream

LEMMA WriteNearer ==
  ASSUME ProcTypeOK, ProcTypeOK', Write
  PROVE  Left' < Left
<1>1. /\ script # <<>> /\ script' = Tail(script) /\ script \in Seq(Stream)
      /\ UNCHANGED <<place, child, heir, open>>
  BY DEF Write, ProcTypeOK
<1>2. Head(script) \in Stream /\ Unwritten' = Unwritten - 1
  BY <1>1, HeadTailProperties DEF Unwritten
<1>3. Unended' = Unended /\ Alive' = Alive /\ Ahead' = Ahead
  BY <1>1 DEF Unended, Alive, Ahead, One
<1>4. \/ \A r \in Stream : Piped(r)' = Piped(r)
      \/ \E q \in Stream : /\ Piped(q)' = Piped(q) + 1
                           /\ \A r \in Stream \ {q} : Piped(r)' = Piped(r)
  <2>1. CASE UNCHANGED pipe
    BY <2>1 DEF Piped
  <2>2. CASE Pipes(mode) # {}
    <3>1. PICK q \in Stream, n \in Nat : pipe' = [pipe EXCEPT ![q] = Append(pipe[q], n)]
      <4>1. Target(Head(script)) \in Stream /\ Len(script) \in Nat
        BY <1>1, <1>2 DEF Target, Stream
      <4>2. QED
        BY <2>2, <4>1 DEF Write
    <3>2. pipe \in [Stream -> Seq(Nat)]
      BY DEF ProcTypeOK
    <3>3. pipe[q] \in Seq(Nat) /\ Len(Append(pipe[q], n)) = Len(pipe[q]) + 1
      BY <3>2, AppendProperties
    <3>4. Piped(q)' = Piped(q) + 1
      BY <3>1, <3>2, <3>3 DEF Piped
    <3>5. \A r \in Stream \ {q} : Piped(r)' = Piped(r)
      BY <3>1, <3>2 DEF Piped
    <3>6. QED
      BY <3>4, <3>5
  <2>3. QED
    BY <2>1, <2>2 DEF Write
<1>5. /\ Piped("out")' + Piped("err")' <= Piped("out") + Piped("err") + 1
  BY <1>4, PartsAre, PartsBecome DEF Stream
<1>6. QED
  BY <1>2, <1>3, <1>5, PartsAre, PartsBecome DEF Left

LEMMA ChildNearer ==
  ASSUME ProcTypeOK, ProcTypeOK', ChildCloses \/ ChildExits \/ ChildKilled \/ HeirEnds
  PROVE  Left' < Left
<1>1. UNCHANGED <<place, script, pipe, open>>
  BY DEF ChildCloses, ChildExits, ChildKilled, HeirEnds, pipeVars
<1>2. /\ Unwritten' = Unwritten /\ \A r \in Stream : Piped(r)' = Piped(r)
      /\ Ahead' = Ahead /\ Unended' = Unended
  BY <1>1 DEF Unwritten, Piped, Ahead, Unended, One
<1>3. Alive' < Alive
  <2>1. /\ \/ child = "runs" /\ child' \in {"quiet", "ok", "failed"}
           \/ child = "quiet" /\ child' \in {"ok", "failed"} /\ heir' = heir
           \/ child' = child /\ heir /\ ~heir'
        /\ heir \in BOOLEAN /\ heir' \in BOOLEAN
    BY DEF ChildCloses, ChildExits, ChildKilled, HeirEnds, Running, ProcTypeOK
  <2>2. QED
    BY <2>1 DEF Alive, One
<1>4. QED
  BY <1>2, <1>3, PartsAre, PartsBecome DEF Left, Stream

LEMMA StepNearer ==
  ASSUME ProcTypeOK, ProcTypeOK', CallerStep \/ ChildStep \/ ToolReturns
  PROVE  Left' < Left
<1>1. CASE \E q \in Stream : Read(q)
  BY <1>1, ReadNearer
<1>2. CASE \E q \in Stream : EndOfPipe(q)
  BY <1>2, EndOfPipeNearer
<1>3. CASE Drained \/ Reap \/ ToolReturns
  BY <1>3, PlaceNearer
<1>4. CASE Write
  BY <1>4, WriteNearer
<1>5. CASE ChildCloses \/ ChildExits \/ ChildKilled \/ HeirEnds
  BY <1>5, ChildNearer
<1>6. QED
  BY <1>1, <1>2, <1>3, <1>4, <1>5 DEF CallerStep, ChildStep

\* More than the safety half of CallReturns, for children that print any number
\* of chunks: a call and everything it has started come to an end after at most
\* Left steps, or stop.
THEOREM Finite == Spec => EndComesNearer
<1>1. ASSUME IndInv, IndInv', [Next]_vars, pc = "child"
      PROVE  /\ CallerStep \/ ChildStep \/ ToolReturns => Left' < Left
             /\ Left' <= Left
  <2>1. ProcTypeOK /\ ProcTypeOK'
    BY <1>1 DEF IndInv, TypeOK
  <2>2. Left \in Nat /\ Left' \in Nat
    BY <2>1, PartsAre, PartsBecome
  <2>3. CallerStep \/ ChildStep \/ ToolReturns => Left' < Left
    BY <2>1, StepNearer
  <2>4. CASE CallerStep \/ ChildStep \/ ToolReturns
    BY <2>2, <2>3, <2>4
  <2>5. CASE ~ (CallerStep \/ ChildStep \/ ToolReturns)
    <3>1. UNCHANGED procVars
      BY <1>1, <2>5
      DEF Next, OwnStep, Outside, Ask, Execute, Load, Loaded, ReplyArrives, StackReused,
          LookupCrashes, IssueGet, Misfit, RunTool, Finds, vars
    <3>2. Left' = Left
      BY <3>1 DEF procVars, childVars, pipeVars, Left, Unwritten, Piped, Unended, Alive, Ahead, One
    <3>3. QED
      BY <2>2, <2>5, <3>2
  <2>6. QED
    BY <2>4, <2>5
<1>2. IndInv /\ IndInv' /\ [Next]_vars =>
        [pc = "child" =>
           /\ CallerStep \/ ChildStep \/ ToolReturns => Left' < Left
           /\ Left' <= Left]_vars
  BY <1>1
<1>3. QED
  BY <1>2, Invariant, PTL DEF Spec, EndComesNearer
=============================================================================
