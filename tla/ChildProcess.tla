---------------------------- MODULE ChildProcess ----------------------------
(***************************************************************************)
(* Running an external command and collecting what it prints, in the five  *)
(* ways that phgit and its installer have.  The child is outside: it       *)
(* writes, closes its pipes and goes on running, ends, is killed, or       *)
(* leaves a descendant behind that holds the same pipes.  A pipe takes a   *)
(* bounded number of chunks; writing to a full one, and reading from an    *)
(* empty one, waits.                                                       *)
(***************************************************************************)
EXTENDS Naturals, Sequences

CONSTANTS
  Cap,      \* chunks that a pipe takes
  Scripts,  \* what children print: the stream of each chunk, in order
  LineEnds  \* the chunks that end a line

Stream == {"out", "err"}

ASSUME CapAssumption == Cap \in Nat \ {0}
ASSUME ScriptsAssumption == Scripts \subseteq Seq(Stream)

\* inOrder:   ProcessExecutor on Windows, one pipe after the other;
\* merged:    ProcessExecutor elsewhere, popen with 2>&1;
\* firstLine: get_output_from_command of the DependencyManager's predecessor,
\*            merged, too, of which it returns the first line;
\* both:      Command::output, which serves whichever pipe has something;
\* inherited: Command::status, without pipes.
Mode == {"inOrder", "merged", "firstLine", "both", "inherited"}

Pipes(m) ==
  CASE m \in {"inOrder", "both"}      -> Stream
    [] m \in {"merged", "firstLine"}  -> {"out"}
    [] m = "inherited"                -> {}

VARIABLES
  mode,     \* how the present command is run
  place,    \* where the caller is
  child,    \* the child; "quiet" is one that runs and has closed its pipes
  heir,     \* a descendant of the child has the write ends, too
  script,   \* what is still to be printed
  pipe,     \* pipe[q]: chunks that are in it
  open,     \* pipes whose end the caller has not seen
  got,      \* got[q]: what the caller has read
  told,     \* what the caller knows of the exit code
  written   \* history: written[q] is everything that went into q

pipeVars  == <<pipe, open, got, written>>
childVars == <<child, heir, script>>
procVars  == <<mode, place, told, childVars, pipeVars>>

ProcTypeOK ==
  /\ mode \in Mode
  /\ place \in {"idle", "reading", "waiting", "returned"}
  /\ child \in {"none", "runs", "quiet", "ok", "failed"}
  /\ heir \in BOOLEAN
  /\ script \in Seq(Stream)
  /\ pipe \in [Stream -> Seq(Nat)]
  /\ open \subseteq Pipes(mode)
  /\ got \in [Stream -> Seq(Nat)]
  /\ told \in {"nothing", "ok", "failed"}
  /\ written \in [Stream -> Seq(Nat)]

Nothing == [q \in Stream |-> <<>>]

ProcInit ==
  /\ mode = "inherited"
  /\ place = "idle"
  /\ child = "none"
  /\ heir = FALSE
  /\ script = <<>>
  /\ pipe = Nothing
  /\ open = {}
  /\ got = Nothing
  /\ told = "nothing"
  /\ written = Nothing
-----------------------------------------------------------------------------
(***************************************************************************)
(* The caller                                                              *)
(***************************************************************************)

\* The child starts.  The caller has closed its own write ends.
Call(m) ==
  /\ place = "idle"
  /\ mode' = m
  /\ child' = "runs"
  /\ heir' = FALSE
  /\ script' \in Scripts
  /\ pipe' = Nothing /\ got' = Nothing /\ written' = Nothing
  /\ open' = Pipes(m)
  /\ told' = "nothing"
  /\ place' = IF Pipes(m) = {} THEN "waiting" ELSE "reading"

\* No pipes, or no child: the exit code is -1, or there is no result at all.
CallFails(m) ==
  /\ place = "idle"
  /\ mode' = m
  /\ child' = "none"
  /\ heir' = FALSE
  /\ script' = <<>>
  /\ pipe' = Nothing /\ got' = Nothing /\ written' = Nothing
  /\ open' = {}
  /\ told' = "failed"
  /\ place' = "returned"

Writers == child = "runs" \/ heir

Running == child \in {"runs", "quiet"}

\* Mutant of WriteEnds: the caller keeps its own write ends open.
WriteEndsKept == TRUE

\* Somebody can still write.
WriteEnds == Writers

\* Mutant of Turn: Command::output, too, reads one pipe after the other.
OneByOne == IF "out" \in open THEN open \cap {"out"} ELSE open

\* The pipes that the caller reads from now.
Turn == IF mode = "inOrder" /\ "out" \in open THEN {"out"} ELSE open

Read(q) ==
  /\ place = "reading"
  /\ q \in Turn
  /\ pipe[q] # <<>>
  /\ got' = [got EXCEPT ![q] = Append(@, Head(pipe[q]))]
  /\ pipe' = [pipe EXCEPT ![q] = Tail(@)]
  /\ UNCHANGED <<mode, place, told, childVars, open, written>>

\* Mutant of EndOfPipe: the caller stops reading when the child is gone.
EndWithChild(q) ==
  /\ place = "reading"
  /\ q \in Turn
  /\ ~Running
  /\ open' = open \ {q}
  /\ UNCHANGED <<mode, place, told, childVars, pipe, got, written>>

EndOfPipe(q) ==
  /\ place = "reading"
  /\ q \in Turn
  /\ pipe[q] = <<>>
  /\ ~WriteEnds
  /\ open' = open \ {q}
  /\ UNCHANGED <<mode, place, told, childVars, pipe, got, written>>

\* firstLine asks for no exit code, and on Windows does not wait for the child.
Drained ==
  /\ place = "reading"
  /\ open = {}
  /\ \/ place' = "waiting"
     \/ mode = "firstLine" /\ place' = "returned"
  /\ UNCHANGED <<mode, told, childVars, pipeVars>>

\* Mutant of Reap: the caller asks for the exit code and does not wait.
ReapUnwaited ==
  /\ place = "waiting"
  /\ place' = "returned"
  /\ told' = IF mode = "firstLine" THEN told
             ELSE IF Running THEN "failed" ELSE child
  /\ UNCHANGED <<mode, childVars, pipeVars>>

\* An abnormal end is no exit code 0 either.
Reap ==
  /\ place = "waiting"
  /\ ~Running
  /\ place' = "returned"
  /\ told' = IF mode = "firstLine" THEN told ELSE child
  /\ UNCHANGED <<mode, childVars, pipeVars>>

\* The first line of what was read, and all of it when no line ends in it.
FirstLine(s) ==
  LET ends == {i \in DOMAIN s : s[i] \in LineEnds}
  IN  IF ends = {} THEN s
      ELSE SubSeq(s, 1, CHOOSE m \in ends : \A i \in ends : m <= i)

\* What the call returns of what the caller has read.
Returned(q) == IF mode = "firstLine" THEN FirstLine(got[q]) ELSE got[q]
-----------------------------------------------------------------------------
(***************************************************************************)
(* The child and its descendants                                           *)
(***************************************************************************)
Target(q) == IF Pipes(mode) = Stream THEN q ELSE "out"

Room(q) == Len(pipe[Target(q)]) < Cap

\* Chunks are numbered downwards.  Without pipes they go to the terminal.
Write ==
  /\ Writers
  /\ script # <<>>
  /\ script' = Tail(script)
  /\ IF Pipes(mode) = {}
     THEN UNCHANGED <<pipe, written>>
     ELSE LET q == Target(Head(script)) IN
          /\ Room(Head(script))
          /\ pipe' = [pipe EXCEPT ![q] = Append(@, Len(script))]
          /\ written' = [written EXCEPT ![q] = Append(@, Len(script))]
  /\ UNCHANGED <<mode, place, told, child, heir, open, got>>

\* It has printed everything, or left the rest to a descendant.
Leaves == heir' \in BOOLEAN /\ (script = <<>> \/ heir')

\* It closes its pipes and goes on without them.
ChildCloses ==
  /\ child = "runs"
  /\ child' = "quiet"
  /\ Leaves
  /\ UNCHANGED <<mode, place, told, script, pipeVars>>

ChildExits ==
  /\ \/ child = "runs" /\ Leaves
     \/ child = "quiet" /\ UNCHANGED heir
  /\ child' \in {"ok", "failed"}
  /\ UNCHANGED <<mode, place, told, script, pipeVars>>

ChildKilled ==
  /\ Running
  /\ child' = "failed"
  /\ UNCHANGED <<mode, place, told, heir, script, pipeVars>>

HeirEnds ==
  /\ heir
  /\ heir' = FALSE
  /\ UNCHANGED <<mode, place, told, child, script, pipeVars>>
-----------------------------------------------------------------------------
CallerStep == (\E q \in Stream : Read(q) \/ EndOfPipe(q)) \/ Drained \/ Reap
ChildStep  == Write \/ ChildCloses \/ ChildExits \/ ChildKilled \/ HeirEnds
=============================================================================
