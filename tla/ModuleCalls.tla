---------------------------- MODULE ModuleCalls ----------------------------
(***************************************************************************)
(* Calls that leave the process.  In phgit they are the commands of two    *)
(* modules: issue_tracker (issue-get, a request to GitHub) and             *)
(* devops_automation (tf-plan, tf-apply and vault-read, external           *)
(* programs).  In the installer they are the commands it executes.  Both   *)
(* do one thing at a time; ChildProcess is what happens meanwhile.         *)
(*                                                                         *)
(* The core passes on a command only to a module that lists it, so no      *)
(* module is asked for a command that it does not know.  The list of       *)
(* devops_automation is read through a pointer into the stack frame of the *)
(* function that made it, which has returned: what is read there is a      *)
(* choice once the stack was used again.                                   *)
(***************************************************************************)
EXTENDS ChildProcess

Issues == "issue_tracker"
DevOps == "devops_automation"
Module == {Issues, DevOps}

\* The commands of each module.
Listed == [m \in Module |-> IF m = Issues THEN {"issue-get"}
                            ELSE {"tf-plan", "tf-apply", "vault-read"}]

Command == UNION {Listed[m] : m \in Module}

\* What a request for an issue may come to.  Only 4xx and 5xx are errors.
Reply == [arrives : BOOLEAN, error : BOOLEAN, wellFormed : BOOLEAN]

Lost == [arrives |-> FALSE, error |-> FALSE, wellFormed |-> FALSE]

VARIABLES
  pc,        \* where the program is
  ready,     \* modules whose module_init succeeded
  frame,     \* what is in the frame that devops_automation's list was made in
  mod,       \* who acts: a module, or the installer
  command,   \* the command it acts for
  status,    \* what it returned last
  reply,     \* history: what GitHub answered last
  document   \* history: the last program printed a JSON document

ownVars  == <<ready, frame>>
callVars == <<mod, command, status, reply, document>>
vars     == <<pc, ownVars, callVars, procVars>>

TypeOK ==
  /\ ProcTypeOK
  /\ pc \in {"loading", "core", "installer", "request", "child", "aborted"}
  /\ ready \subseteq Module
  /\ frame \in {"own", "other"}
  /\ mod \in Module \cup {"installer", "none"}
  /\ command \in Command \cup {"none"}
  /\ status \in {"none", "Success", "ErrorExecFailed"}
  /\ reply \in Reply
  /\ document \in BOOLEAN
  /\ pc = "child" <=> place # "idle"

Init ==
  /\ ProcInit
  /\ pc \in {"loading", "installer"}
  /\ ready = {}
  /\ frame = "own"
  /\ mod = "none"
  /\ command = "none"
  /\ status = "none"
  /\ reply = Lost
  /\ document = FALSE
-----------------------------------------------------------------------------
(***************************************************************************)
(* The core                                                                *)
(***************************************************************************)

\* module_get_info and module_init.  Making the Tokio runtime may panic, which
\* ends the program at the boundary to C.
Load(m) ==
  /\ pc = "loading"
  /\ m \notin ready
  /\ \/ ready' = ready \cup {m} /\ UNCHANGED pc
     \/ m = Issues /\ pc' = "aborted" /\ UNCHANGED ready
  /\ UNCHANGED <<frame, callVars, procVars>>

Loaded ==
  /\ pc = "loading"
  /\ pc' = "core"
  /\ UNCHANGED <<ownVars, callVars, procVars>>

\* Any call may use the stack that the list was made in.
StackReused ==
  /\ DevOps \in ready
  /\ pc # "aborted"
  /\ frame' = "other"
  /\ UNCHANGED <<pc, ready, callVars, procVars>>

\* The lookup of any command reads the lists of all modules before it.
LookupCrashes ==
  /\ pc = "core"
  /\ DevOps \in ready
  /\ frame = "other"
  /\ pc' = "aborted"
  /\ UNCHANGED <<ownVars, callVars, procVars>>

Finds(m, c) ==
  /\ pc = "core"
  /\ m \in ready
  /\ c \in Listed[m]
  /\ m = DevOps => frame = "own"
  /\ mod' = m
  /\ command' = c

Returns(s) ==
  /\ status' = s
  /\ pc' = IF mod = "installer" THEN "installer" ELSE "core"

\* issue-get wants two arguments, vault-read one: nothing is called without.
Misfit(m, c) ==
  /\ Finds(m, c)
  /\ c \in {"issue-get", "vault-read"}
  /\ status' = "ErrorExecFailed"
  /\ UNCHANGED <<pc, ownVars, reply, document, procVars>>
-----------------------------------------------------------------------------
(***************************************************************************)
(* issue_tracker                                                           *)
(***************************************************************************)
IssueGet ==
  /\ Finds(Issues, "issue-get")
  /\ pc' = "request"
  /\ status' = "none"
  /\ UNCHANGED <<ownVars, reply, document, procVars>>

\* get_issue_details
Fetched(r) == r.arrives /\ ~r.error /\ r.wellFormed

\* The client has no timeout: an answer may never come.
ReplyArrives ==
  /\ pc = "request"
  /\ \E r \in Reply :
       /\ reply' = r
       /\ Returns(IF Fetched(r) THEN "Success" ELSE "ErrorExecFailed")
  /\ UNCHANGED <<ownVars, mod, command, document, procVars>>
-----------------------------------------------------------------------------
(***************************************************************************)
(* devops_automation and the installer: external programs                  *)
(***************************************************************************)
CaptureMode(c) == IF c = "vault-read" THEN "both" ELSE "inherited"

RunTool(c) ==
  /\ Finds(DevOps, c)
  /\ pc' = "child"
  /\ status' = "none"
  /\ Call(CaptureMode(c)) \/ CallFails(CaptureMode(c))
  /\ document' \in BOOLEAN
  /\ UNCHANGED <<ownVars, reply>>

\* The installer checks a version, or runs a package manager or an installer.
Execute ==
  /\ pc = "installer"
  /\ pc' = "child"
  /\ mod' = "installer"
  /\ status' = "none"
  /\ \E m \in {"inOrder", "merged", "firstLine"} : Call(m) \/ CallFails(m)
  /\ document' \in BOOLEAN
  /\ UNCHANGED <<ownVars, command, reply>>

\* Of what vault printed, the caller parses what it got.
Parses == document /\ Returned("out") = written["out"]

\* Mutant of Succeeds: run_command_and_capture does not look at the exit code.
SucceedsUnchecked == IF mode = "both" THEN told # "nothing" /\ Parses ELSE told = "ok"

\* run_command_with_streaming, run_command_and_capture with handle_vault_read,
\* and the callers of ProcessExecutor::execute.
Succeeds ==
  CASE mode = "both"      -> told = "ok" /\ Parses
    [] mode = "firstLine" -> told = "nothing"
    [] OTHER              -> told = "ok"

\* Mutant of ToolReturns: the record of the call is not given up.
ToolReturnsKept ==
  /\ pc = "child"
  /\ place = "returned"
  /\ Returns(IF Succeeds THEN "Success" ELSE "ErrorExecFailed")
  /\ UNCHANGED <<ownVars, mod, command, reply, document, procVars>>

ToolReturns ==
  /\ pc = "child"
  /\ place = "returned"
  /\ place' = "idle"
  /\ Returns(IF Succeeds THEN "Success" ELSE "ErrorExecFailed")
  /\ UNCHANGED <<ownVars, mod, command, reply, document,
                 mode, told, childVars, pipeVars>>
-----------------------------------------------------------------------------
OwnStep ==
  \/ (\E m \in Module : Load(m)) \/ Loaded
  \/ ToolReturns
  \/ pc = "child" /\ CallerStep /\ UNCHANGED <<pc, ownVars, callVars>>

Outside == pc = "child" /\ ChildStep /\ UNCHANGED <<pc, ownVars, callVars>>

Ask ==
  \/ IssueGet
  \/ \E c \in Listed[DevOps] : RunTool(c)
  \/ \E m \in Module : \E c \in Listed[m] : Misfit(m, c)

Next ==
  \/ OwnStep \/ Outside \/ Ask \/ Execute \/ ReplyArrives
  \/ StackReused \/ LookupCrashes

\* The program is scheduled.  Nothing is assumed of children, of GitHub, and of
\* who asks for commands.
Spec == Init /\ [][Next]_vars /\ WF_vars(OwnStep)
=============================================================================
