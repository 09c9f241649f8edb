----------------------------- MODULE CoreSafety -----------------------------
(***************************************************************************)
(* What the core process promises its modules and its user.                *)
(***************************************************************************)
EXTENDS PhgitCore

\* The modules whose module_init succeeded and whose library is mapped.
Live == {l \in Lib : lib[l] = "ready"}

\* add_module_to_registry never writes behind the array that realloc returned,
\* whatever the directory holds and whenever an allocation fails.
RegistryFits == Len(registry) <= capacity

\* A registered module holds the core's callbacks (log, get_config_value) and
\* may use them from threads of its own.  Until its module_cleanup has run,
\* what they use exists: on every path through main, early exits included.
CallbacksUsable ==
  \A l \in Live \ dropped :
    /\ config \in {"defaults", "loaded", "partial"}
    /\ pc \notin {"lua_cleanup", "config_cleanup", "exited"}

\* Once main has come to modules_cleanup, after the last command or from a start
\* that failed, module_cleanup is called in every module of the registry, and not
\* a second time: the loop neither stops early nor comes back to a module.
\* (Modules that never got into the registry: see EveryInitialisedIsCleaned.)
RegisteredIsCleaned ==
  \A l \in Lib :
    pc = "modules_cleanup" /\ l \in Registered ~> pc = "exited" /\ cleanups[l] = 1

\* Commands run in modules that are mapped, initialised and registered, and
\* that list the command: never in one that modules_cleanup has unmapped, and
\* never before modules_load, from a plugin.
RunsInLiveModule ==
  pc = "exec" =>
    /\ running \in Registered
    /\ lib[running] = "ready"
    /\ request \in Offers[running]
    /\ entry \in {"enter", "modules_cleanup"}

\* While modules are loaded a command that has an owner keeps it: a library
\* that is listed later never takes over a command of one listed earlier, and
\* the menu and the command line agree on who runs it.
OwnerKeepsCommand ==
  [][\A c \in Command :
       Handler(c) # NoLib /\ pc # "modules_cleanup" => Handler(c)' = Handler(c)]_vars

\* What is left of a line that is longer than the buffer of the menu is never
\* taken for the next choice, whether the line ran a command or was refused:
\* every way back to the menu leads through wait_for_enter.
NoLeftoverChoice == pc = "menu" => typed = "nothing"

\* Once main cleans the modules up, nothing can be dispatched any more.
Closing == {"modules_cleanup", "lua_cleanup", "config_cleanup", "exited"}

Owner == [c \in Command |-> IF pc \in Closing THEN NoLib ELSE Handler(c)]

Host == INSTANCE ModuleHost WITH live <- Live, owner <- Owner

\* The core keeps the promise of ModuleHost: the first module that lists a
\* command owns it until the host closes, a command runs in its owner and alone,
\* and no module is unloaded while anything can still be asked of it (loader.c,
\* cli_parser.c and main).
RefinesHost == Host!Spec

-----------------------------------------------------------------------------
(***************************************************************************)
(* The inductive invariant behind them.                                    *)
(***************************************************************************)

\* No library is registered twice.
Distinct ==
  \A i, j \in 1..Len(registry) : registry[i] = registry[j] => i = j

\* The live modules are the registered ones and the dropped ones.
LiveTracked ==
  /\ Live = Registered \cup dropped
  /\ Registered \cap dropped = {}

\* What the scan has not reached is not loaded.
UnseenClosed == \A l \in unseen : lib[l] = "closed"

CleanupsCounted == \A l \in Lib : cleanups[l] = IF lib[l] = "cleaned" THEN 1 ELSE 0

Configured == config \in {"defaults", "loaded", "partial"}

\* Modules are registered only while main is between the scan and the cleanup,
\* or over before it got there, and then there is a configuration.
PhaseOK ==
  /\ pc \in Phase \ {"logger_init", "config_load", "exited", "hung", "aborted"} => Configured
  /\ registry # <<>> =>
       /\ Configured
       /\ pc \in {"scan", "mode", "menu", "enter", "exec", "modules_cleanup",
                "hung", "aborted"}

\* No command runs while main is anywhere else, except one that ended it.
RunningOK == running # NoLib => pc \in {"exec", "aborted"}

\* The rest of a line is there only behind the menu: until wait_for_enter has
\* taken it, or for good when the process is on its way out.
LeftoverOK == typed = "rest" => pc \in {"enter", "exec", "aborted"} \cup Closing

IndInv ==
  /\ TypeOK
  /\ RegistryFits
  /\ Distinct
  /\ LiveTracked
  /\ UnseenClosed
  /\ CleanupsCounted
  /\ PhaseOK
  /\ RunsInLiveModule
  /\ RunningOK
  /\ LeftoverOK

-----------------------------------------------------------------------------
\* The process does not stop on its own: it is over, or it waits for the user
\* at the menu or after a command, or for a module that runs a command.
WaitsOrEnds ==
  []<>(\/ pc \in {"menu", "exec"} \cup Ended
       \/ pc = "enter" /\ typed = "nothing")

-----------------------------------------------------------------------------
\* phgit_core_api.h and the guides on module_cleanup: "called once by the core
\* just before the application exits", in "every loaded module".  A module whose
\* module_init has succeeded holds resources, and is reported as loaded.
EveryInitialisedIsCleaned == pc = "exited" => \A l \in Lib : lib[l] # "ready"

\* What the code does instead: module_cleanup runs once in each initialised
\* module, but for exactly those that add_module_to_registry had no room for.
CleanedOnceButDropped ==
  /\ \A l \in Lib : cleanups[l] = IF lib[l] = "cleaned" THEN 1 ELSE 0
  /\ pc = "exited" => Live = dropped
=============================================================================
