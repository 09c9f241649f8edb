------------------------------ MODULE Capture ------------------------------
(***************************************************************************)
(* What the capture of an external command promises, without pipes.  Who   *)
(* wants the whole output gets everything that was printed, at once and    *)
(* when nothing more can be printed, and the exit code of a command that   *)
(* has ended.  Who wants a line gets the first one, and no exit code.      *)
(***************************************************************************)
EXTENDS Naturals, Sequences

CONSTANTS
  Stream,   \* what a command prints to
  Chunk,    \* what it prints
  LineEnds  \* the chunks that end a line

VARIABLES
  phase,     \* of the call
  want,      \* what the caller wants: "all", or the first "line"
  printed,   \* printed[q]: what the command and its descendants printed to q
  output,    \* output[q]: what the caller has of it
  fate,      \* how the command ended, if it did
  verdict    \* what the caller knows of that

vars == <<phase, want, printed, output, fate, verdict>>

Empty == [q \in Stream |-> <<>>]

Init ==
  /\ phase = "free"
  /\ want = "all"
  /\ printed = Empty
  /\ output = Empty
  /\ fate = "none"
  /\ verdict = "nothing"

Start ==
  /\ phase = "free"
  /\ phase' = "running"
  /\ want' \in {"all", "line"}
  /\ printed' = Empty
  /\ output' = Empty
  /\ fate' = "runs"
  /\ verdict' = "nothing"

\* The command cannot be run.
Refuse ==
  /\ phase = "free"
  /\ phase' = "done"
  /\ want' \in {"all", "line"}
  /\ printed' = Empty
  /\ output' = Empty
  /\ fate' = "none"
  /\ verdict' = "failed"

Grows(s, t) == Len(s) <= Len(t) /\ \A i \in 1..Len(s) : t[i] = s[i]

\* The command, or a descendant that has outlived it, prints.
Emit ==
  /\ phase = "running"
  /\ printed' \in [Stream -> Seq(Chunk)]
  /\ \A q \in Stream : Grows(printed[q], printed'[q])
  /\ UNCHANGED <<phase, want, output, fate, verdict>>

End ==
  /\ fate = "runs"
  /\ fate' \in {"ok", "failed"}
  /\ UNCHANGED <<phase, want, printed, output, verdict>>

\* l is the first line of s: no line ends before the end of l, and l goes to the
\* end of a line or of s.
IsFirstLine(l, s) ==
  /\ Grows(l, s)
  /\ \A i \in 1..Len(l) : l[i] \in LineEnds => i = Len(l)
  /\ l = s \/ (l # <<>> /\ l[Len(l)] \in LineEnds)

\* The call returns.
Deliver ==
  /\ phase = "running"
  /\ phase' = "done"
  /\ \/ /\ want = "all"
        /\ fate \in {"ok", "failed"}
        /\ output' = printed
        /\ verdict' = fate
     \/ /\ want = "line"
        /\ output' \in [Stream -> Seq(Chunk)]
        /\ \A q \in Stream : IsFirstLine(output'[q], printed[q])
        /\ verdict' = "nothing"
  /\ UNCHANGED <<want, printed, fate>>

\* The caller has used the result.
Forget ==
  /\ phase = "done"
  /\ phase' = "free"
  /\ UNCHANGED <<want, printed, output, fate, verdict>>

Next == Start \/ Refuse \/ Emit \/ End \/ Deliver \/ Forget

Spec == Init /\ [][Next]_vars
=============================================================================
