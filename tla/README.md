# phgit: a verification project

TLA+ models of phgit, the properties they are checked for with TLC, and proofs
of the most important ones with TLAPS. Source paths are relative to the
repository.

## 1. The system

phgit is a C program that loads modules (shared libraries, mostly in Rust) and
dispatches commands to them, from the command line, from a text menu, or from
Lua plugins. Two of the modules hold logic in which order, failure and
concurrency matter: `git_ops` (the command `SND`) and `sync_engine` (the command
`sync-run`). A separate C++ program installs phgit and its dependencies.

| Component | State | Operations | Talks to | Modelled in |
|---|---|---|---|---|
| `src/modules/sync_engine` | the state file in the source's `.git`, the pair of saved heads, base | `sync-run` | libgit2, two repositories and their remotes | `SyncEngine` |
| `src/modules/git_ops` | none of its own; git's index, branches, remote | `SND`, `status` | the program `git`, the user's prompt | `GitSend`, `Delivery` |
| `src/core/main` | phase of start-up and shutdown | `main` | all parts of the core | `PhgitCore` |
| `src/core/module_loader` | registry of loaded modules, its capacity | `modules_load`, `modules_find_handler`, `modules_cleanup` | dynamic linker, `module_init`, `module_exec`, `module_cleanup` | `PhgitCore`, `ModuleHost` |
| `src/core/cli`, `src/core/ui` | the menu items, unread input | dispatch of a command, the menu, reading a line | registry, modules | `PhgitCore`, `ModuleHost` |
| `src/core/scripting` | the Lua state | init with plugins, `phgit.run_command`, hooks (never called) | dispatch | `PhgitCore` (hooks not) |
| `src/core/config` | hash table with chaining | `config_load`, `config_get_value`, `config_cleanup` | file, modules through a callback | `ConfigTable`, `ConfigMap` |
| `src/libs/liblogger` | mutex, log file | `logger_init`, `logger_log` | every part, modules through a callback | its locking, in `PhgitCore` |
| `src/modules/api_client` | a mutex around the core's callbacks | `srp` | GitHub | `module_init`, in `PhgitCore` |
| `src/modules/issue_tracker` | Tokio runtime | `issue-get` | GitHub | `ModuleCalls` |
| `src/modules/devops_automation` | the list of its commands | `tf-plan`, `tf-apply`, `vault-read` | terraform, vault | `ModuleCalls`, `ChildProcess` |
| `src/modules/ci_cd_manager` | none | parsing and drawing of pipelines; not a module that the core could load | nothing calls it | not modelled |
| `installer/src/main.cpp`, `dependencies`, `platform` | findings about dependencies; the machine's tools, files and registry | detect, check, install | package managers, git's installer, the utilities below | `Installer`, `Platform`, `Versions` |
| `installer/src/utils`: api manager, downloader | temporary files | `fetch_latest_asset`, `download_file` | GitHub, HashiCorp | `Installer` |
| `installer/src/utils/process_executor.cpp` | pipes | `execute` | external programs | `ChildProcess`, `Capture`, `ModuleCalls` |
| `installer/src/utils/sha256.hpp` | words of a digest | `update`, `final` | | `Sha256` |
| platform layer, libcommon, RPC schema, packaging | none | | | not modelled |

How they interact: `main` initialises the logger, the configuration, Lua (whose
plugins may dispatch commands at once) and then the modules, which get pointers
to the log and configuration functions. A command goes through
`cli_dispatch_command` to `modules_find_handler` and the module's `module_exec`,
on the same thread. Shutdown cleans up modules, Lua, configuration and logger in
this order. The core is sequential; concurrency comes from several phgit
processes in the same repository, from users and teammates working with git
itself, from external programs that run beside their caller, and from the
operating system.

The installer is a program of its own and runs once: read `config.json`, detect
the platform, ask every dependency for its version, then run the engine of the
platform. On Linux and macOS the engine asks a package manager for git. On
Windows it fetches git, terraform and vault one after the other: look up a
release, download it to a fixed name in the temporary directory, compare a
checksum, run or unpack it, remove it. Two installers at once share these names.

What is hard to test, and so what the properties are for (each at its line in
`PROJECT.json`, "hazards"): state read before a prompt or a fetch and used after
it; users moving branches between two steps; two processes sharing one index or
one state file; a crash between truncation and write; a multi-step command that
fails after a part of it is done; allocations that fail half-way through; locks
taken twice; early exits from start-up; pipes that fill while their reader is at
another one; files that are checked by name and used by name; answers of programs
that look like success.

## 2. Modules

`SyncEngine` is one `sync-run` per process `p`. Its steps are those of
`SyncEngine::run`: `New`, `FetchSource`, `FetchTarget`, `ReadSource`,
`ReadTarget`, `FindSyncBase`, `Compare`, and `Truncate` and `Write` for
`fs::write` in `save_state`. Each `?` of the code is an action of its own
(`FetchFails`, `ReadFails`, ...) that ends the run. `main`, `odb`, `tracking` and
`origin` are git's state: local heads, object databases, remote-tracking
branches, remotes. A commit is an identifier with its set of ancestors. libgit2
is modelled by its contract: a merge base is any best common ancestor, and a
commit can only be compared in a repository that has it (two equal arguments are
not looked up). Users and `Crash` are the environment. `interrupted` is a history
variable: whether the last save of the state file was cut off; the next one that
opens or writes the file resets it. The code of propagation is a TODO in the source, so no head moves.

`GitSend` is one `SND` or `status` per process: `GitAdd`, `GitCommit`, `FindUpstream`, the
prompt (`Confirm`, `Decline`), `GitPush`, with the failures of each; `HandleStatus`
is the other command, one call of git. `ExitStatus` is what `module_exec` makes of
a result. The wrapper
returns a failing git's stderr only (`FailureText`), which decides what the match
in `handle_send` sees (`CommitOutcome`). An edit is made once and is in the working tree, the index or
commits; a branch is the set of its commits. `git push <remote> <branch>`
resolves the branch name locally, so the model pushes `local[target]`. `found`,
`made` and `madeOn` are history variables: the edits that a run found, its commit,
and the branch that still has to have it (none, once a user has moved that branch
to another history). git's behaviour (streams, fast-forward rule, scope of
`git add .`) is marked external in the map.

`Delivery` is the promise without index, prompt and steps that fail. An edit waits
until a commit records it, once. A run records one commit at most (`RecordByRun`),
settles on a branch only after that (`Settle`), and says `sent` in no other step
than the one in which this branch of the remote becomes what the clone has under
its name (`Send`): nothing else of the remote changes, nothing is lost there, and
if the run's own commit was recorded on that branch, and nobody moved the branch
back, the commit is on the remote from this step on. A push that
arrives and whose answer is lost is `SendUnnoticed`; then nothing is claimed. `clean`
and `changes` are what is the case in the step of the claim (`Look`). `Delivery` does
not promise that the branch sent is the one the commit is on, because the code does
not (`SendWrongBranch`). `GitSend` implements it: what waits is the working tree and
the index together, a run's goal is the branch it pushes next, and its commit is
`made` (`SendSafety`).

`PhgitCore` is the process: `pc` is the place in `main`, `registry` and
`capacity` the array of the loader, `lib[l]` a library's state. A library is
described by the commands it offers, the functions it lacks (`Lacks`) and whether
its `module_init` logs under its own lock (`Relocks`). Locking a held mutex is
undefined or unspecified, so its outcomes are choices: waiting for ever, being
ended, or (without real threads) nothing. The menu reads a line of at most 15
characters; `typed` says whether a rest of it is still in the input, and
`WaitForEnter` takes it away. `cleanups` and `dropped` are history variables; `dropped`
holds the modules that were initialised and for which `add_module_to_registry` had no
memory.
`ModuleHost` is the promise without directory, array and menu: a command belongs to
the first module that lists it until the host closes, one command runs at a time,
in its owner, and modules leave only after the host has closed.

`ConfigTable` is the hash table: `config_load` line by line with failing `malloc`
and unchecked `strdup`, lookup along a chain, cleanup. The hash function is a
constant, so that any collision can be chosen. `ConfigMap` is the abstract map
that `config_manager.h` promises; `ConfigTable` implements it with the mapping
`map[k] = Found(k)`.

`Installer` is one run of the installer per process `p`, on a shared machine:
`tool[d]` is what `d --version` answers, `temp[d]` the file under the temporary
name for `d`, `bin[d]` what was unpacked. `Start`, `ReadEntry` and `EntriesRead` are
the reading of `config.json`, whose entries may lack a name (left out) or be
malformed (what was read before counts); `Check` and `CheckBuiltin` the question for
one version, in the two versions of `check_dependency`, where `Asked` says that
`<tool> --version` is running and the installer waits for it; `EngineStarts` and `NoEngine`
the choice of the engine. `LinuxDone`, `LinuxInstalls`, `MacDone`, `BrewInstalls`,
`Refresh` and `Manage` are the engines of Linux and macOS; `Ensure`, `Lookup`, `Open`, `Download`,
`Verify`, `GitInstalls`, `Unzip`, `Integrate` and their failures the one of
Windows. `GiveUp` is what an early return leads to: the end for git, the next tool
otherwise. `Killed` is the environment. Content of a file is the published release
or something else. `Remove` may fail where another process has the file open, as
on Windows. `Platform` is the reading of `/etc/os-release` and the choice of a
package manager; `Versions` parses and compares version numbers. The source has
two implementations of `DependencyManager`: `dependency_manager.hpp` holds the
current one, although it is named as a header, and `dependency_manager.cpp` its
predecessor; `site.build` says which one is linked. Likewise `site.agrees` says
whether the digest is computed as publishers compute it; the code's is not
(`Sha256`), and the runs take both, so that what is shown of the steps after the
comparison does not rest on a fault. Two places of `windows_installer.cpp` do not
compile as they stand (line 157 adds two character pointers; paths are assigned
to narrow strings); the model takes their evident meaning. A program that ends well
as git's installer (`GitInstalls`) may be the published one or another; the published
one may make the git that the `PATH` finds the latest, or install one that another git
hides, and the code does not ask again. `brought[p]` keeps which of these happened;
`meddled`, `claim`, `brought` and `left` are history variables.

`ChildProcess` is an external command and its caller, in the five ways the code
has (`Mode`): two pipes read one after the other, `popen` with both streams
merged, the same for the first line only, two pipes served at once, none. `pipe[q]`
takes `Cap` chunks; the child may print in any order of streams, close its pipes and
go on running (`ChildCloses`, "quiet"), be killed, or leave a descendant that holds
its pipes. What a call returns is `Returned`: all that was read, or for
`get_output_from_command` its first line, which ends with the first chunk of
`LineEnds`. `Capture` is the promise without pipes. Who wants everything gets, in one
step, all that was printed, nothing is printed after it, and the exit code is that
of a command that has ended. Who wants a line gets the first one, and no exit code.
All five ways implement it (`RefinesCapture`). `ModuleCalls` puts it to use: commands of
`issue_tracker` (a request whose answer may be lost, an error or malformed) and
`devops_automation` (terraform and vault), dispatched by the core, and the
commands of the installer. `frame` is the stack frame that the pointer to
`devops_automation`'s list of commands points into: the list is moved out of it
after its address was taken, so once the stack is used again the lookup reads
anything, which is a choice between finding nothing and crashing.

`Sha256` is the digest word by word, for a file of one block: a word is the set
of the positions of its ones, which makes `^`, `&`, `>>` and rotation operators on
sets, and `Plus` is addition with its carries. Bytes that `final` reads behind a
literal are a choice.

`SyncSafety`, `SendSafety`, `CoreSafety`, `InstallerSafety` and `CallsSafety`
state the properties and the inductive invariants; `SyncProofs`, `SendProofs`,
`CoreProofs`, `ConfigProofs`, `InstallerProofs` and `CallsProofs` hold the
theorems; `LeastNumber` is the lemma that a search has a first hit; the
`MC` modules give TLC its constants. Definitions whose comment says "Mutant of"
are deliberate faults used to see that a property can fail; no specification
uses them.

## 3. What the runs show

| Run | Expected | Bounds | Question |
|---|---|---|---|
| `SyncHistories` | pass | 3 commits, a source and a target with one remote, 1 process | verdicts and saves, with all user actions but removing the state file |
| `SyncConcurrent` | pass | 2 commits, 2 processes on one source | torn state file, meaning of `Success`, return of every run |
| `SyncMissedDivergence` | violation | 3 commits | the guide's "detects if the branches have diverged" |
| `SyncNoFallback` | violation | 3 commits, runs one after the other | the comment's "it falls back to calculating a new merge base" |
| `Send` | pass | 2 edits, one outside the subdirectory, 2 branches, 1 process, all user actions | meaning of "sent" and of `status`, what is left behind, commits kept, edits recorded once, remote never loses, return, `Delivery` |
| `SendWrongBranch` | violation | 2 edits, 2 branches | "sent" means pushed, for a branch that tracks another name |
| `CoreProcess` | pass | 4 libraries, 2 commands, capacity 1 | registry, callbacks, cleanup, dispatch, unread input, `ModuleHost`, termination |
| `CoreUncleaned` | violation | same | the header's cleanup of every initialised module |
| `ConfigFiles` | pass | files of up to 3 lines over 3 keys, 2 of them in one bucket | the table is a map |
| `InstallTogether` | pass | 2 installers, 13 descriptions of a machine, 9 sets of answers, versions of up to 4 parts | what is accepted, unpacked, left behind; what success stands for; return |
| `ModuleCalls` | pass | pipes of 2 chunks, children that print up to 4 | complete output, mutual waiting, truth of `Success`, `Capture`, return |
| `InstallerDigest` | violation | the file "abc" | the digest is the published SHA-256 |

Why these bounds are enough to meet the interesting cases: three commits give a
base and one unique commit on each side, which is the smallest divergence, and a
diverged pair after a saved head; two commits suffice for a torn file, which does
not depend on the history. Two edits allow one in the commit and one beside it,
or one for the run and one for a user or teammate; two branches allow a switch and an upstream of
another name. A capacity of 1 makes the registry grow twice with four libraries,
which include two that claim the same command, one without `module_exec` and one
that locks twice. Three lines allow a key to be set, hidden behind another key of
its bucket, and set again. Each value is the number of its line, so no two lines
say the same. Two installers are enough for one to change a file between the
other's check and its use, and to be killed meanwhile. The answers of git cover
every way through `check_dependency` (absent, failing, no version, version on the
second line, too old by a part that is not printed, a part too many, a part too
few, a part that is no `int`: `MaxInt` stands for the greatest one); the lists of
`config.json` cover an entry without a name, a repeated name and an entry that
cannot be read. Pipes of two chunks and four chunks of output let either pipe
fill while the caller is at the other; `LineEnds` makes two of the four chunks end a
line, so that the first line may be of one chunk, of several, or all there is. "abc"
is the first example of the standard, whose digest is known from there. The longest
runs are `Send`, with 448,000 states in two and a half minutes, and
`InstallTogether`, with 434,000 in one and a half.

`Send` has one run of phgit at a time. What a second one does to the clone (stage,
commit, push) its users do in this run, in any order and at any step, and more; what
it shows is proved for any number of runs (section 4). `SyncHistories` runs in one
direction only: a run in the other one uses the other state file, and no step of a
run moves a branch. Symmetry is used over commits (and over repositories where both
directions occur) in the runs of `SyncEngine` without liveness properties.

The user actions of a run are its constant `UserOps`; they are bounded by the
number of commits or edits, which are never reused. No other counter exists.

Deadlock is checked except where the program ends or stops by itself
(`PhgitCore`: exited, hung, aborted; `ConfigTable`: crashed on a key that was not
copied; `Installer`: over; `ModuleCalls`: aborted, or a child that the caller waits
for and that waits for the caller; `Sha256`: done).

### Fairness

Liveness is checked under weak fairness of a run's own steps (`RunStep`,
`CoreStep`): the operating system schedules the process, and git and libgit2
return, with or without an error. Nothing is assumed of users, teammates, the
answer to a prompt (`Confirm`, `Decline`), the choice in the menu, the return of a
module's command, or crashes. `RunReturns` says that a `sync-run` ends,
`ReturnsOrAsks` that `SND` ends or stands at its prompt, `WaitsOrEnds` that the
core is over or waits for the user or a module; "over" includes hung, as at the first
line of the logger (section 5). `RegisteredIsCleaned` says that a module that is
registered when `main` comes to `modules_cleanup` is cleaned up, once, before it
ends.

The installer's fairness is that of the steps which end by themselves
(`OwnStep`): lookups end after a minute at the latest
(`api_manager.cpp` sets a timeout), and local work is scheduled. Nothing is
assumed of downloads, which have no timeout, and of external programs, which are
waited for without limit (`process_executor.cpp:88`, `124`): package managers, git's
installer, and every `<tool> --version` (`AwaitedStep`). `EndsOrWaits` says that a run
ends or comes to wait for one of these. In `ModuleCalls` only the program's own steps are fair; of children,
of GitHub and of who asks for commands nothing is assumed. `CallReturns` says that
a call returns once nobody holds the pipes any more.

## 4. What is proved

For every value of the constants that satisfies the named assumptions (any sets
of commits, repositories, processes, edits, branches, libraries, commands, keys
and files; any capacity, hash function and set of user actions):

- `SyncProofs`: types, `FirstRunVerdictExact`, `VerdictExactOnTrueBase`,
  `TornOnlyByUnfinishedSave`, `SaveOnlyOneSidedAdvance`, `SuccessMeansSaved`;
- `SendProofs`: types, `CommitKept`, `SentCommitArrives`, `NothingLeftBehind`,
  `EditRecordedOnce`, `RemoteNeverLoses`, and that `GitSend` implements `Delivery`;
- `CoreProofs`: types, `RegistryFits`, `CallbacksUsable`,
  `RunsInLiveModule`, `OwnerKeepsCommand`, `NoLeftoverChoice`, `CleanedOnceButDropped`
  (at the end the modules left behind are exactly those that were not registered for
  lack of memory), and that the core implements `ModuleHost`;
- `ConfigProofs`: types, `LastLineWins`, and that the table implements the map;
- `InstallerProofs`: types, `AcceptsOnlyRecent`, `GitAfterSuccess`,
  `ExtractedWasVerified`, `TempAccounted`, for any number of installers and
  versions of any length;
- `CallsProofs`: types, `OutputComplete`, `MutualWaitOnErrorsOnly`,
  `SuccessMeansAnswered`, and that every way of running a command implements
  `Capture`, for any output, any line ends and any capacity of pipes;
- `Finite` in `SyncProofs`, `SendProofs`, `InstallerProofs` and `CallsProofs`: a
  number that each step of a run makes smaller and no other process's step makes
  greater, so that a run can be stopped or left waiting, but cannot go round in
  circles; and `GoesOn` in `CoreProofs`: no step leads `main` back, and each of its
  loops except the menu has less to do every time.

Assumptions: `RemoteAssumption`, `ArgsAssumption`, `NoCommitAssumption`,
`UserOpsAssumption`; `UnderAssumption`, `UpstreamAssumption`; `OffersAssumption`,
`LacksAssumption`, `RelocksAssumption`, `CapacityAssumption`, `NoLibAssumption`;
`HashAssumption`, `FileAssumption`, `NullAssumption`; `VersionAssumption`,
`MachineAssumption`, `MaxIntAssumption`; `CapAssumption`, `ScriptsAssumption`. TLC evaluates each on the
constants of the runs.

The arguments. *Synchronisation*: the properties speak of ancestor sets, which
are only right because ancestry is a partial order (`GraphOK`) and because heads,
object databases and saved pairs name commits that exist (`RefsOK`, `SavedOK`).
A saved pair is one commit twice, so its merge base is that commit, found without
a lookup. `RunOK` carries what a run has read from step to step, since the branches
themselves may have moved. If the base is a merge base, a head is ahead of the
base exactly when it is not an ancestor of the other head, which makes the four
verdicts exact. *Sending*: `EditsApart` (an edit is in one place) is what makes
commits disjoint, and `RunOK` says that between add and commit nothing found is
still unstaged. *Core*: `Distinct` and `LiveTracked` (the live modules are the
registered and the dropped ones) give one cleanup of all but the dropped ones, `PhaseOK` that modules
are registered only while there is a configuration. *Configuration*:
`LastLineWins` is inductive as it stands, given the types; the lemma `Prepend`
says that a node in front of a chain is found first and hides no other key.
*Installer*: `compare_versions` returns at the first difference, and the lemma
`CompareIsOrder` (resting on `LeastNumber`) shows that this is the order of
versions, `ParsedIsEnough` that cutting a version out of a text and comparing the
piece accepts nothing too old. Findings are made before the engine runs, so they
must last: `FindingsLast` holds because answers only move up (`AnswersRise`), which
needs the order to be transitive (`OrderTransitive`). `GitFirst` says that
nothing is claimed of git before its turn, and that the engine of Windows gets past it
only with git found or installed (`GitDone`); `ComparedIsGenuine` what is
known of an archive between its check and its use as long as nobody meddled.
*Calls*: `PipeOK` says that what went into a pipe is what was read followed by
what is in it, and that an end of a pipe, once seen, is final; completeness
follows when every pipe is at its end, and `Turn` leaves the error pipe of the
executor on Windows as the only one that can be full and unattended.
*Refinements*: each maps a step to a step or a stutter, from the inductive
invariant. For `Delivery` the step of the commit moves what is in the index from
`pending` into a commit of `history`, which needs `EditsApart`; a push maps to `Send` when
the run learns of its success and to `SendUnnoticed` otherwise, and that it carries the
run's commit needs `CommitKept`: the commit is still on its branch when the branch is
pushed. For `ModuleHost` the owner of a
command is the first of the registry that lists it, and `Owner` is empty from the
first cleanup on. For `Capture` reading is not seen, and the step that returns must
hand over everything, or the first line of it: `PipeOK` makes what was read equal to
what was written, and rules out a writer once the pipes have ended; the lemma
`CutIsFirstLine` (resting on `LeastNumber`) says that the cut is the first line; `told`
is "nothing" until then.
*The menu*: `NoLeftoverChoice` is not inductive, since a command runs between the
line and the next prompt; `LeftoverOK` says where the rest of a line can be.
*Termination*: the numbers are ranks of the steps (`Left`); the installer's adds the
entries still to be read, counted twice, those read, and the dependencies that
follow, and needs `Counted` (the position in the list) and `GitFirst` (an engine
begins at the first dependency). A call's adds the chunks the command has not
written, counted twice, those in the pipes, the ends not yet seen, what the child and
its descendant may still do (close, leave a descendant, end) and the caller's own
steps. `main`
has an order of its places (`Order`) and in each place something that shrinks
(`LessToDo`); the menu alone goes on as long as its user does.

Only model-checked: the liveness properties (`RunReturns`, `ReturnsOrAsks`,
`WaitsOrEnds`, `RegisteredIsCleaned`, `EndsOrWaits`, `CallReturns`), since fairness and
`ENABLED` are out of the prover's reach; the theorems `Finite` and `GoesOn` are their
safety half.
`Sha256` is only run on its example. The violated
properties are statements of the documentation that the code does not satisfy.

## 5. Findings

1. `sync.rs:131` A resumed run can miss a divergence (`SyncMissedDivergence`).
2. `sync.rs:176` The comment at lines 163-165 promises a new merge base of the heads
   when the saved commits cannot be found. With a saved pair the function returns what
   the pair gives: the pair is one commit twice, for which libgit2 looks nothing up, so
   a commit that is missing becomes the base and the comparison fails
   (`SyncNoFallback`).
3. `commands.rs:147` "Successfully sent" without a push of the commit, when the
   upstream branch has another name (`SendWrongBranch`).
4. `loader.c:215` A module whose registration fails for lack of memory was
   initialised before, is reported as loaded and is never cleaned up
   (`CoreUncleaned`); the API header and the guides promise `module_cleanup` in every
   loaded module.
5. `sha256.hpp:79` The digest is not SHA-256 (`InstallerDigest`): the schedule
   lacks parentheses and uses the wrong function. On Windows the archives of
   terraform and vault are always rejected.

Met while modelling, without a run of their own:

- `Logger.cpp:71` The logger locks its mutex again while `init` holds it (line 56), on
  the first line of every process: undefined, with POSIX threads it waits for
  itself. `api_client/src/lib.rs:153` does the same with its own mutex. `LoggerInit` and
  `LoadHangs` have each outcome, and all that is shown of the core beyond them is shown
  for builds in which the lock does nothing.
- `git_ops/src/commands.rs:108` git says "nothing to commit" on standard output,
  the wrapper returns standard error, so `SND` without changes is reported as a
  failure.
- `loader.c:190` `dlerror` is asked once after four lookups, so a module that
  lacks one of the first three functions can be registered.
- `devops_automation/src/lib.rs:111` The pointer to the list of commands dangles.
- `process_executor.cpp:85` On Windows a child that fills its error pipe first and
  the installer wait for each other; `MutualWaitOnErrorsOnly` says that this is the
  only such case.
- `linux_installer.cpp:74` and `darwin-mac_installer.cpp:81` The engine ends with
  success although the package manager failed, and never asks git again. Nor does
  `windows_installer.cpp:135`: success stands for git's installer having ended well, and
  an older git that comes first on the `PATH` goes unnoticed (`GitAfterSuccess` states
  what is left).
- `api_manager.cpp:126` No checksum comes with git's installer, which is run with
  the words "Download verified".
- `windows_installer.cpp:203` The `PATH` is not changed, so the next run finds
  neither terraform nor vault and fetches them again.
- `windows_installer.cpp:246` A directory that cannot be made ends the installer
  with the archive left behind (`TempAccounted` names this case).

## 6. Not modelled

Formatting and wording of messages; bytes of lines and files (trimming, the split
of long lines); the platform layer and libcommon, which keep no state; a digest
over more than one block, which repeats the same transform; build files, packages
and continuous integration. Of code that nothing calls: `lua_bridge_run_hook`, the
tarball and `.pkg` strategies of the installer, `checksum::verify_file`,
`are_core_dependencies_met`, the CI/CD manager, and the RPC schema. The command
`srp` of the API client cannot be reached behind its `module_init`, which locks its
own mutex again. `sync-config` and `sync-status` are advertised but not
implemented. Configuration values held by modules across `config_cleanup` are not
modelled because the core cleans up modules first (`CallbacksUsable`).

What a later stage could add: the bytes of configuration lines, and with them the
split of lines longer than 1023 bytes; a digest of several blocks; and the fixes
for the findings above, for which the violated properties become invariants.
