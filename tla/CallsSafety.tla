---------------------------- MODULE CallsSafety ----------------------------
(***************************************************************************)
(* What commands that leave the process promise.                           *)
(***************************************************************************)
EXTENDS ModuleCalls

\* Whoever captures output has read all of it when the call returns, in the
\* order in which it was written to each pipe: also what a descendant still
\* writes after the child itself has ended.
OutputComplete == place = "returned" => got = written

\* Reading is all the caller could do, and there is nothing to read.
CallerStuck ==
  place = "reading" /\ Turn # {} /\ Writers /\ \A q \in Turn : pipe[q] = <<>>

WriterStuck ==
  Writers /\ Pipes(mode) # {} /\ script # <<>> /\ ~Room(Head(script))

\* The caller and a child that has not ended never wait for each other, but
\* for one case: ProcessExecutor on Windows is at the standard output, and the
\* child has filled the pipe of the standard error.
MutualWaitOnErrorsOnly ==
  CallerStuck /\ WriterStuck =>
    mode = "inOrder" /\ Len(pipe["err"]) = Cap /\ got["err"] = <<>>

\* Success is reported only for an answer that was no error and was
\* understood, or for a program that ended well, and for vault-read only when
\* the whole of its output was a document.
SuccessMeansAnswered ==
  pc = "core" /\ status = "Success" =>
    CASE mod = Issues -> reply.arrives /\ ~reply.error /\ reply.wellFormed
      [] mod = DevOps -> /\ child = "ok"
                         /\ command = "vault-read" => document /\ got["out"] = written["out"]

\* When the child and whatever holds its pipes have ended, the call returns,
\* with everything that is still in the pipes.
CallReturns == (pc = "child" /\ ~Running /\ ~heir) ~> pc # "child"

\* A call as its caller sees it: what is read counts when the call returns.
Phase ==
  CASE place = "idle"                   -> "free"
    [] place \in {"reading", "waiting"} -> "running"
    [] place = "returned"               -> "done"

Output == IF Phase = "running" THEN Nothing ELSE [q \in Stream |-> Returned(q)]

Want == IF mode = "firstLine" THEN "line" ELSE "all"

Fate == IF Running THEN "runs" ELSE child

Captured == INSTANCE Capture
  WITH Chunk <- Nat, phase <- Phase, want <- Want, printed <- written,
       output <- Output, fate <- Fate, verdict <- told

\* All five ways to run a command keep the promise of Capture.  Four of them
\* return the whole output in the step in which the call returns, and the exit
\* code of a command that has ended: also when it closed its pipes long before,
\* and when a descendant printed after its end.  get_output_from_command returns
\* the first line of all that was printed, whatever chunks it was read in.
RefinesCapture == Captured!Spec
-----------------------------------------------------------------------------
(***************************************************************************)
(* The inductive invariant behind the proofs (CallsProofs)                 *)
(***************************************************************************)

\* What went into a pipe was read or is in it still, and a pipe whose end the
\* caller has seen is empty for good.
PipeOK(q) ==
  /\ written[q] = got[q] \o pipe[q]
  /\ Len(pipe[q]) <= Cap
  /\ q \notin open => pipe[q] = <<>>
  /\ q \in Pipes(mode) \ open => ~Writers

CaptureOK ==
  /\ \A q \in Stream : PipeOK(q)
  /\ place # "reading" => open = {}
  /\ mode = "inOrder" /\ "out" \in open => got["err"] = <<>>
  /\ told = "ok" => child = "ok"
  /\ place \in {"reading", "waiting"} => child # "none" /\ told = "nothing"

\* Who is at work, and how.
ActorOK ==
  /\ pc = "loading" => status = "none"
  /\ pc = "request" => mod = Issues
  /\ pc = "child" => mod = "installer" \/ (mod = DevOps /\ mode = CaptureMode(command))
  /\ pc = "core" /\ status = "Success" => mod \in Module

IndInv == TypeOK /\ CaptureOK /\ ActorOK /\ SuccessMeansAnswered
=============================================================================
