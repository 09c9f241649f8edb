----------------------------- MODULE PhgitCore -----------------------------
(***************************************************************************)
(* The core process of phgit: start-up and shutdown (src/core/main/main.c),*)
(* the module loader and its registry (src/core/module_loader/loader.c),   *)
(* the dispatch of a command from the command line, from the menu and from *)
(* a Lua plugin (cli_parser.c, tui.c, lua_bridge.c), what the menu reads   *)
(* of the lines typed at it, and the locks that are taken on the way       *)
(* (liblogger/Logger.cpp, api_client/src/lib.rs).                          *)
(*                                                                         *)
(* The process is sequential.  What it does not control is a choice: which *)
(* files the directory holds and in which order it lists them, which calls *)
(* fail, what the modules return, and what the user types.                 *)
(*                                                                         *)
(* Locking a std::mutex or a Rust Mutex that the thread already holds is   *)
(* undefined or unspecified.  The outcomes that builds produce are all     *)
(* modelled: the thread waits for itself ("hung"), the program is ended    *)
(* ("aborted"), or the lock is not a real one (libstdc++ without threads)  *)
(* and nothing happens.                                                    *)
(***************************************************************************)
EXTENDS Sequences, Naturals

CONSTANTS
  Lib,       \* shared libraries in ./modules
  Command,   \* command names
  Offers,    \* Offers[l]: the commands in the module info of l
  Lacks,     \* Lacks[l]: required functions that l does not export
  Relocks,   \* modules whose module_init logs with their own lock held
  Capacity,  \* entries the registry gets at first (8 in the code)
  NoLib      \* no module

\* The functions that the header asks every module to export.
Symbol == {"module_get_info", "module_init", "module_exec", "module_cleanup"}

ASSUME OffersAssumption == Offers \in [Lib -> SUBSET Command]
ASSUME LacksAssumption == Lacks \in [Lib -> SUBSET Symbol]
ASSUME RelocksAssumption == Relocks \subseteq Lib
ASSUME CapacityAssumption == Capacity \in Nat \ {0}
ASSUME NoLibAssumption == NoLib \notin Lib

VARIABLES
  pc,        \* where main is
  config,    \* the configuration table
  lua,       \* the Lua state
  plugins,   \* commands that plugin scripts still to be run will request
  unseen,    \* libraries that readdir has not returned yet
  lib,       \* lib[l]: state of library l
  registry,  \* g_loaded_modules
  capacity,  \* g_module_capacity
  entry,     \* where main continues when the running command returns
  running,   \* the module whose module_exec is running, or NoLib
  request,   \* the command that was asked for last
  typed,     \* what of the last line typed at the menu is still to be read
  cleanups,  \* history: how often module_cleanup of l was called
  dropped    \* history: modules that main could not register

startVars == <<config, lua, plugins>>
loadVars  == <<unseen, lib, registry, capacity, dropped>>
execVars  == <<entry, running, request>>
vars      == <<pc, startVars, loadVars, execVars, typed, cleanups>>

Phase == {"logger_init", "config_load", "lua_init", "plugins", "opendir", "scan",
          "mode", "menu", "enter", "exec", "modules_cleanup",
          "lua_cleanup", "config_cleanup", "exited", "hung", "aborted"}

Ended == {"exited", "hung", "aborted"}

\* The answer is read into 16 bytes: of a longer line the rest stays.
Unread == {"nothing", "rest"}

TypeOK ==
  /\ pc \in Phase
  /\ config \in {"none", "defaults", "loaded", "partial", "freed"}
  /\ lua \in {"none", "open", "closed"}
  /\ plugins \subseteq Command
  /\ unseen \subseteq Lib
  /\ lib \in [Lib -> {"closed", "ready", "cleaned"}]
  /\ registry \in Seq(Lib)
  /\ capacity \in Nat
  /\ entry \in {"none", "plugins", "enter", "modules_cleanup"}
  /\ running \in Lib \cup {NoLib}
  /\ request \in Command \cup {"none"}
  /\ typed \in Unread
  /\ cleanups \in [Lib -> Nat]
  /\ dropped \subseteq Lib

Init ==
  /\ pc = "logger_init"
  /\ config = "none"
  /\ lua = "none"
  /\ plugins \in SUBSET Command
  /\ unseen \in SUBSET Lib
  /\ lib = [l \in Lib |-> "closed"]
  /\ registry = <<>>
  /\ capacity = 0
  /\ entry = "none"
  /\ running = NoLib
  /\ request = "none"
  /\ typed = "nothing"
  /\ cleanups = [l \in Lib |-> 0]
  /\ dropped = {}

Goto(from, to) == pc = from /\ pc' = to

Registered == {registry[i] : i \in 1..Len(registry)}
-----------------------------------------------------------------------------
(***************************************************************************)
(* Start-up                                                                *)
(***************************************************************************)

\* Logger::init opens the file and, with m_mutex held, calls log(), which
\* locks it again.  Without the file there is no call, and stderr is used.
LoggerInit ==
  /\ pc = "logger_init"
  /\ pc' \in {"config_load", "hung", "aborted"}
  /\ UNCHANGED <<startVars, loadVars, execVars, typed, cleanups>>

\* A missing file leaves the defaults; running out of memory leaves the lines
\* read so far, and main goes on.
ConfigLoad ==
  /\ Goto("config_load", "lua_init")
  /\ config' \in {"defaults", "loaded", "partial"}
  /\ UNCHANGED <<lua, plugins, loadVars, execVars, typed, cleanups>>

\* Mutant of LuaInit: main tries again when Lua does not start.
LuaInitRetried ==
  /\ pc = "lua_init"
  /\ \/ pc' = "plugins" /\ lua' = "open"
     \/ pc' = "config_load" /\ UNCHANGED lua
  /\ UNCHANGED <<config, plugins, loadVars, execVars, typed, cleanups>>

LuaInit ==
  /\ pc = "lua_init"
  /\ \/ pc' = "plugins" /\ lua' = "open"
     \/ pc' = "modules_cleanup" /\ UNCHANGED lua
  /\ UNCHANGED <<config, plugins, loadVars, execVars, typed, cleanups>>

\* Mutant of Handlers: the names are compared, the result is not looked at.
AnyHandlers(c) == {i \in 1..Len(registry) : Offers[registry[i]] # {}}

\* The registered modules that list the command.
Handlers(c) == {i \in 1..Len(registry) : c \in Offers[registry[i]]}

\* Mutant of Handler: the module registered last wins.
LastHandler(c) ==
  IF Handlers(c) = {} THEN NoLib
  ELSE registry[CHOOSE i \in Handlers(c) : \A j \in Handlers(c) : i >= j]

\* modules_find_handler: the first of them.
Handler(c) ==
  IF Handlers(c) = {} THEN NoLib
  ELSE registry[CHOOSE i \in Handlers(c) : \A j \in Handlers(c) : i <= j]

\* cli_dispatch_command, which returns to where it was called.  A module
\* without module_exec was registered with a null pointer.
Dispatch(c, from) ==
  /\ request' = c
  /\ entry' = from
  /\ running' = Handler(c)
  /\ pc' = IF Handler(c) = NoLib THEN from
           ELSE IF "module_exec" \in Lacks[Handler(c)] THEN "aborted"
           ELSE "exec"

\* A plugin calls phgit.run_command while it is loaded.
PluginCommand ==
  /\ pc = "plugins"
  /\ \E c \in plugins : Dispatch(c, "plugins") /\ plugins' = plugins \ {c}
  /\ UNCHANGED <<config, lua, loadVars, typed, cleanups>>

PluginsDone ==
  /\ plugins = {}
  /\ Goto("plugins", "opendir")
  /\ UNCHANGED <<startVars, loadVars, execVars, typed, cleanups>>
-----------------------------------------------------------------------------
(***************************************************************************)
(* modules_load: the directory is scanned file by file.                    *)
(***************************************************************************)
OpenDir ==
  /\ pc = "opendir"
  /\ pc' \in {"scan", "modules_cleanup"}
  /\ UNCHANGED <<startVars, loadVars, execVars, typed, cleanups>>

\* The file l is looked at; what else changes is up to the caller.
Scan(l) ==
  /\ pc = "scan"
  /\ l \in unseen
  /\ unseen' = unseen \ {l}
  /\ UNCHANGED <<startVars, execVars, typed, cleanups>>

\* dlerror is asked once, after the four lookups: where a later success clears
\* an earlier error (glibc), only the last function is really required.
Undetected(l) == "module_cleanup" \notin Lacks[l]

\* The library does not load, does not conform, or its module_init returns an
\* error: it is closed again.
Skipped(l) ==
  /\ Scan(l)
  /\ UNCHANGED <<pc, lib, registry, capacity, dropped>>

\* A call through the null pointer of a function that was not missed; no
\* memory for the LoadedModule; or a module_init that locks its own lock twice.
LoadAborts(l) ==
  /\ Scan(l)
  /\ Undetected(l)
  /\ pc' = "aborted"
  /\ UNCHANGED <<lib, registry, capacity, dropped>>

LoadHangs(l) ==
  /\ Scan(l)
  /\ l \in Relocks
  /\ pc' = "hung"
  /\ UNCHANGED <<lib, registry, capacity, dropped>>

\* module_get_info and module_init were called, and init succeeded.
Initialised(l) ==
  /\ Scan(l)
  /\ Undetected(l)
  /\ {"module_get_info", "module_init"} \cap Lacks[l] = {}
  /\ l \notin Relocks
  /\ lib' = [lib EXCEPT ![l] = "ready"]
  /\ UNCHANGED pc

\* Mutant of Full: the array grows one entry too late.
OverFull == Len(registry) > capacity

Full == Len(registry) >= capacity

\* add_module_to_registry
Register(l) ==
  /\ Initialised(l)
  /\ registry' = Append(registry, l)
  /\ capacity' = IF ~Full THEN capacity
                 ELSE IF capacity = 0 THEN Capacity ELSE 2 * capacity
  /\ UNCHANGED dropped

\* Mutant of RegisterFails: the entry is counted although it was not stored.
RegisterFailsButCounts(l) ==
  /\ Initialised(l)
  /\ Full
  /\ registry' = Append(registry, NoLib)
  /\ UNCHANGED <<capacity, dropped>>

\* realloc fails; modules_load ignores it and reports the module as loaded.
RegisterFails(l) ==
  /\ Initialised(l)
  /\ Full
  /\ dropped' = dropped \cup {l}
  /\ UNCHANGED <<registry, capacity>>

ScanDone ==
  /\ unseen = {}
  /\ Goto("scan", "mode")
  /\ UNCHANGED <<startVars, loadVars, execVars, typed, cleanups>>
-----------------------------------------------------------------------------
(***************************************************************************)
(* The menu, the command line, and the running command                     *)
(***************************************************************************)

\* No arguments: the menu.  --help and --version end at once.
ChooseMode ==
  /\ pc = "mode"
  /\ pc' \in {"menu", "modules_cleanup"}
  /\ UNCHANGED <<startVars, loadVars, execVars, typed, cleanups>>

RunCommandLine ==
  /\ pc = "mode"
  /\ \E c \in Command : Dispatch(c, "modules_cleanup")
  /\ UNCHANGED <<startVars, loadVars, typed, cleanups>>

\* tui_prompt_user reads one line of the user's, or its first 15 characters.
ReadLine == typed' \in Unread

\* An item of the menu stands for a command of a module, but only the command
\* is passed on: of two modules with the same command both items run the first.
ChooseItem ==
  /\ pc = "menu"
  /\ \E m \in Registered : \E c \in Offers[m] : Dispatch(c, "enter")
  /\ ReadLine
  /\ UNCHANGED <<startVars, loadVars, cleanups>>

\* Mutant of InvalidChoice: the menu is shown again at once.
InvalidChoiceAgain ==
  /\ pc = "menu"
  /\ ReadLine
  /\ UNCHANGED <<pc, startVars, loadVars, execVars, cleanups>>

\* A number that is not in the menu, or no number.
InvalidChoice ==
  /\ Goto("menu", "enter")
  /\ ReadLine
  /\ UNCHANGED <<startVars, loadVars, execVars, cleanups>>

\* Exit, end of input, or no memory for the menu.
LeaveMenu ==
  /\ Goto("menu", "modules_cleanup")
  /\ ReadLine
  /\ UNCHANGED <<startVars, loadVars, execVars, cleanups>>

\* wait_for_enter reads up to the next end of line, or of the input.  The rest
\* of a long answer satisfies it at once; otherwise it waits for the user.
WaitForEnter ==
  /\ Goto("enter", "menu")
  /\ typed' = "nothing"
  /\ UNCHANGED <<startVars, loadVars, execVars, cleanups>>

\* module_exec returns, with whatever status, to the caller of the dispatch.
ExecReturns ==
  /\ Goto("exec", entry)
  /\ running' = NoLib
  /\ UNCHANGED <<startVars, loadVars, entry, request, typed, cleanups>>
-----------------------------------------------------------------------------
(***************************************************************************)
(* Shutdown                                                                *)
(***************************************************************************)

\* modules_cleanup: module_cleanup, dlclose and free, in registry order.
CleanModule ==
  /\ pc = "modules_cleanup"
  /\ registry # <<>>
  /\ cleanups' = [cleanups EXCEPT ![Head(registry)] = @ + 1]
  /\ lib' = [lib EXCEPT ![Head(registry)] = "cleaned"]
  /\ registry' = Tail(registry)
  /\ UNCHANGED <<pc, startVars, unseen, capacity, dropped, execVars, typed>>

\* Mutant of ModulesCleaned: the loop stops before the last module.
LastModuleKept ==
  /\ Len(registry) <= 1
  /\ Goto("modules_cleanup", "lua_cleanup")
  /\ registry' = <<>>
  /\ capacity' = 0
  /\ UNCHANGED <<startVars, unseen, lib, dropped, execVars, typed, cleanups>>

\* Mutant of ModulesCleaned: Lua and the configuration are cleaned up first.
CleanedInWrongOrder ==
  /\ Goto("modules_cleanup", "lua_cleanup")
  /\ UNCHANGED <<startVars, loadVars, execVars, typed, cleanups>>

ModulesCleaned ==
  /\ registry = <<>>
  /\ Goto("modules_cleanup", "lua_cleanup")
  /\ capacity' = 0
  /\ UNCHANGED <<startVars, unseen, lib, registry, dropped, execVars, typed, cleanups>>

LuaCleanup ==
  /\ Goto("lua_cleanup", "config_cleanup")
  /\ lua' = IF lua = "open" THEN "closed" ELSE lua
  /\ UNCHANGED <<config, plugins, loadVars, execVars, typed, cleanups>>

\* config_cleanup; logger_cleanup only writes a line; main returns.
ConfigCleanup ==
  /\ Goto("config_cleanup", "exited")
  /\ config' = "freed"
  /\ UNCHANGED <<lua, plugins, loadVars, execVars, typed, cleanups>>
-----------------------------------------------------------------------------
LoadStep(l) ==
  \/ Skipped(l) \/ LoadAborts(l) \/ LoadHangs(l) \/ Register(l) \/ RegisterFails(l)

\* Steps of phgit that wait for nobody.
CoreStep ==
  \/ LoggerInit \/ ConfigLoad \/ LuaInit \/ PluginCommand \/ PluginsDone
  \/ OpenDir \/ (\E l \in Lib : LoadStep(l)) \/ ScanDone
  \/ ChooseMode \/ RunCommandLine
  \/ (typed = "rest" /\ WaitForEnter)
  \/ CleanModule \/ ModulesCleaned \/ LuaCleanup \/ ConfigCleanup

Next ==
  \/ CoreStep
  \/ ChooseItem \/ InvalidChoice \/ LeaveMenu \/ WaitForEnter \/ ExecReturns

Spec == Init /\ [][Next]_vars

\* The process is scheduled.  A module may run a command for ever, and the
\* user may never answer the menu.
FairSpec == Spec /\ WF_vars(CoreStep)
=============================================================================
