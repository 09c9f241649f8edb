----------------------------- MODULE Installer -----------------------------
(***************************************************************************)
(* The installer of phgit (installer/src): it finds out which of its       *)
(* dependencies the machine has, and then runs the engine of the platform. *)
(* On Windows this downloads, checks and unpacks them; on Linux and macOS  *)
(* it asks a package manager for git.  Every Proc is one run of the        *)
(* program; runs share the machine, and on Windows the names of the        *)
(* temporary files.                                                        *)
(*                                                                         *)
(* What the network and external programs answer is a choice.  Content of  *)
(* a file is only what the properties tell apart: the published release,   *)
(* or anything else.                                                       *)
(***************************************************************************)
EXTENDS Platform, Versions

CONSTANTS
  Proc,      \* runs of the installer
  Min,       \* Min[d]: the version of d that is required
  Lists,     \* the lists of dependencies that config.json may hold, entry by entry
  Sites,     \* the platforms the installer may run on
  Replies,   \* what `d --version` may answer before any installer ran
  Packaged,  \* the versions of git that package managers have
  Latest     \* the version of git that its own installer brings

Git    == "git"
Wanted == <<Git, "terraform", "vault">>
Dep    == {Git, "terraform", "vault"}
Tool   == Dep \ {Git}

\* An entry of the list may have no name, or be no entry at all: then reading
\* it throws.
Unnamed   == ""
Malformed == "malformed"
Entry     == Dep \cup {Unnamed, Malformed}

\* The version is printed on line number `line`; <<>> is no version at all.
Reply  == [fails : BOOLEAN, line : {1, 2}, version : Version]
Absent == [fails |-> TRUE, line |-> 2, version |-> <<>>]

\* build: which of the two DependencyManagers is linked.
\* agrees: SHA256::from_file computes the digest that publishers publish.  It
\* does not in the code as it stands (module Sha256); runs are checked both ways.
Site == [family : Families, release : Seq([key : STRING, value : STRING]) \cup {NoFile},
         brew : BOOLEAN, build : {"config", "builtin"}, agrees : BOOLEAN]

ASSUME VersionAssumption ==
  /\ Min \in [Dep -> {v \in Version : Len(v) <= 3}]
  /\ Packaged \subseteq Version
  /\ Latest \in Version /\ AtLeast(Latest, Min[Git])
ASSUME MachineAssumption ==
  /\ Lists \subseteq Seq(Entry)
  /\ Sites \subseteq Site
  /\ Replies \subseteq [Dep -> Reply]
ASSUME MaxIntAssumption == MaxInt \in Nat

Content == {"none", "partial", "genuine", "other"}
Step    == {"idle", "configure", "check", "engine", "refresh", "manage", "ensure", "lookup",
            "open", "download", "hash", "use", "integrate", "over"}

VARIABLES
  site,        \* the platform, which no step changes
  tool,        \* tool[d]: what `d --version` answers now
  temp,        \* temp[d]: the temporary file for d
  bin,         \* bin[d]: what is in the directory of tools
  registered,  \* the uninstaller's registry entry exists
  pc,          \* pc[p]: the place of p in the program
  job,         \* job[p]: the dependency p is at, by its position
  unread,      \* unread[p]: the entries of its configuration p has yet to read
  list,        \* list[p]: the dependencies p has to check
  ok,          \* ok[p]: the dependencies p found recent enough
  sum,         \* sum[p]: the checksum the release of p's download came with
  result,      \* result[p]: how p ended
  meddled,     \* history: another run changed the file between check and use
  claim,       \* history: what p said of git last
  brought,     \* history: what p's installation of git brought, if it ended well
  left         \* history: temporary files whose run was cut off

machine == <<tool, temp, bin, registered>>
history == <<meddled, claim, brought, left>>
run     == <<unread, list, ok, sum>>
vars    == <<site, machine, pc, job, run, result, history>>

TypeOK ==
  /\ site \in Site
  /\ tool \in [Dep -> Reply]
  /\ temp \in [Dep -> Content]
  /\ bin \in [Tool -> Content]
  /\ registered \in BOOLEAN
  /\ pc \in [Proc -> Step]
  /\ job \in [Proc -> Nat \ {0}]
  /\ unread \in [Proc -> Seq(Entry)]
  /\ list \in [Proc -> Seq(Dep)]
  /\ ok \in [Proc -> SUBSET Dep]
  /\ sum \in [Proc -> {"none", "published"}]
  /\ result \in [Proc -> {"none", "success", "failure", "killed"}]
  /\ meddled \in [Proc -> BOOLEAN]
  /\ claim \in [Proc -> {"nothing", "ok", "installed", "missing"}]
  /\ brought \in [Proc -> {"nothing", "latest", "unknown"}]
  /\ left \subseteq Dep
  /\ \A p \in Proc : pc[p] \notin {"check", "over"} => job[p] \in DOMAIN Wanted

Init ==
  /\ site \in Sites
  /\ tool \in Replies
  /\ temp = [d \in Dep |-> "none"]
  /\ bin = [d \in Tool |-> "none"]
  /\ registered = FALSE
  /\ pc = [p \in Proc |-> "idle"]
  /\ job = [p \in Proc |-> 1]
  /\ unread = [p \in Proc |-> <<>>]
  /\ list = [p \in Proc |-> <<>>]
  /\ ok = [p \in Proc |-> {}]
  /\ sum = [p \in Proc |-> "none"]
  /\ result = [p \in Proc |-> "none"]
  /\ meddled = [p \in Proc |-> FALSE]
  /\ claim = [p \in Proc |-> "nothing"]
  /\ brought = [p \in Proc |-> "nothing"]
  /\ left = {}
-----------------------------------------------------------------------------
Go(p, step) == pc' = [pc EXCEPT ![p] = step]

End(p, r) ==
  /\ pc' = [pc EXCEPT ![p] = "over"]
  /\ result' = [result EXCEPT ![p] = r]

Says(p, what) == claim' = [claim EXCEPT ![p] = what]

Brings(p, what) == brought' = [brought EXCEPT ![p] = what]

(***************************************************************************)
(* main: configuration, detection, and the check of every dependency       *)
(***************************************************************************)
Start(p) ==
  /\ pc[p] = "idle"
  /\ \/ /\ site.build = "builtin"
        /\ Go(p, "check")
        /\ list' = [list EXCEPT ![p] = Wanted]
        /\ UNCHANGED <<unread, result>>
     \/ /\ site.build = "config"
        /\ Go(p, "configure")
        /\ \E entries \in Lists : unread' = [unread EXCEPT ![p] = entries]
        /\ UNCHANGED <<list, result>>
     \/ End(p, "failure") /\ UNCHANGED <<unread, list>>
  /\ UNCHANGED <<site, machine, job, ok, sum, history>>

\* get_dependencies: an entry without a name is left out.
ReadEntry(p) ==
  /\ pc[p] = "configure"
  /\ unread[p] # <<>>
  /\ Head(unread[p]) # Malformed
  /\ list' = IF Head(unread[p]) = Unnamed THEN list
             ELSE [list EXCEPT ![p] = Append(@, Head(unread[p]))]
  /\ unread' = [unread EXCEPT ![p] = Tail(@)]
  /\ UNCHANGED <<site, machine, pc, job, ok, sum, result, history>>

\* The end of the list, or an entry that throws: what was read before counts.
EntriesRead(p) ==
  /\ pc[p] = "configure"
  /\ unread[p] # <<>> => Head(unread[p]) = Malformed
  /\ Go(p, "check")
  /\ unread' = [unread EXCEPT ![p] = <<>>]
  /\ UNCHANGED <<site, machine, job, list, ok, sum, result, history>>

\* find_executable_in_path
InPath(d) == tool[d] # Absent

\* get_status looks for the first entry of a name.
FirstEntry(p, d) == First({i \in DOMAIN list[p] : list[p][i] = d})

\* check_dependency, where it reads `version` in the answer of the next entry.
\* stoi throws to main.
Examine(p, version) ==
  LET d == list[p][job[p]]
  IN  IF InPath(d) /\ Unreadable(version)
      THEN End(p, "failure") /\ UNCHANGED <<job, ok>>
      ELSE /\ ok' = [ok EXCEPT ![p] = @ \cup {e \in {d} :
                         /\ FirstEntry(p, d) = job[p]
                         /\ InPath(d)
                         /\ version # <<>>
                         /\ Compare(version, Min[d]) >= 0}]
           /\ job' = [job EXCEPT ![p] = @ + 1]
           /\ UNCHANGED <<pc, result>>

\* What is read: a version, when the tool ends well.
Found(reply) == IF reply.fails THEN <<>> ELSE ParsedPair(reply.version)

\* What the predecessor read: a version in three parts on the first line.
FoundOnLine(reply) == IF reply.line > 1 THEN <<>> ELSE ParsedTriple(reply.version)

Examining(p) == pc[p] = "check" /\ job[p] <= Len(list[p])

\* A tool that is there is run, and its answer is waited for without limit.
Asked(p) == Examining(p) /\ InPath(list[p][job[p]])

Check(p) ==
  /\ Examining(p)
  /\ site.build = "config"
  /\ Examine(p, Found(tool[list[p][job[p]]]))
  /\ UNCHANGED <<site, machine, unread, list, sum, history>>

\* The same in the predecessor, dependency_manager.cpp.
CheckBuiltin(p) ==
  /\ Examining(p)
  /\ site.build = "builtin"
  /\ Examine(p, FoundOnLine(tool[list[p][job[p]]]))
  /\ UNCHANGED <<site, machine, unread, list, sum, history>>

AllExamined(p) == pc[p] = "check" /\ job[p] > Len(list[p])

\* Mutant of EngineStarts: the engine begins where the check ended.
EngineKeepsJob(p) ==
  /\ AllExamined(p)
  /\ site.family # "unknown"
  /\ Go(p, "engine")
  /\ UNCHANGED <<site, machine, job, run, result, history>>

EngineStarts(p) ==
  /\ AllExamined(p)
  /\ site.family # "unknown"
  /\ Go(p, "engine")
  /\ job' = [job EXCEPT ![p] = 1]
  /\ UNCHANGED <<site, machine, run, result, history>>

\* There is no engine for the system.
NoEngine(p) ==
  /\ AllExamined(p)
  /\ site.family = "unknown"
  /\ End(p, "failure")
  /\ UNCHANGED <<site, machine, job, run, history>>
-----------------------------------------------------------------------------
(***************************************************************************)
(* The engines of Linux and macOS                                          *)
(***************************************************************************)
Manager == PackageManager(OsId(site.release))

\* On Linux nothing is to be done, or there is nobody to ask for git.
LinuxDone(p) ==
  /\ pc[p] = "engine"
  /\ site.family = "linux"
  /\ \/ Manager = "none" /\ UNCHANGED claim
     \/ Manager # "none" /\ Git \in ok[p] /\ Says(p, "ok")
  /\ End(p, "success")
  /\ UNCHANGED <<site, machine, job, run, meddled, brought, left>>

LinuxInstalls(p) ==
  /\ pc[p] = "engine"
  /\ site.family = "linux"
  /\ Manager # "none"
  /\ Git \notin ok[p]
  /\ Go(p, IF Manager \in Refreshed THEN "refresh" ELSE "manage")
  /\ UNCHANGED <<site, machine, job, run, result, history>>

\* On macOS git is there, or without brew the user is told how to get it.
MacDone(p) ==
  /\ pc[p] = "engine"
  /\ site.family = "macos"
  /\ \/ Git \in ok[p] /\ Says(p, "ok")
     \/ Git \notin ok[p] /\ ~site.brew /\ Says(p, "missing")
  /\ End(p, "success")
  /\ UNCHANGED <<site, machine, job, run, meddled, brought, left>>

BrewInstalls(p) ==
  /\ pc[p] = "engine"
  /\ site.family = "macos"
  /\ site.brew
  /\ Git \notin ok[p]
  /\ Go(p, "manage")
  /\ UNCHANGED <<site, machine, job, run, result, history>>

\* The result of the refresh is not looked at.
Refresh(p) ==
  /\ pc[p] = "refresh"
  /\ Go(p, "manage")
  /\ UNCHANGED <<site, machine, job, run, result, history>>

\* A package manager reports success: it brought its version of git, or the
\* one that is on the PATH is another one.
Managed ==
  {tool[Git]} \cup
  {[fails |-> FALSE, line |-> 1, version |-> v] :
     v \in {w \in Packaged : tool[Git] = Absent \/ AtLeast(w, tool[Git].version)}}

\* Its failure is logged; the engine ends well in either case.
Manage(p) ==
  /\ pc[p] = "manage"
  /\ \/ /\ \E reply \in Managed : tool' = [tool EXCEPT ![Git] = reply]
        /\ Brings(p, "unknown")
        /\ Says(p, "installed")
     \/ Says(p, "missing") /\ UNCHANGED <<tool, brought>>
  /\ End(p, "success")
  /\ UNCHANGED <<site, temp, bin, registered, job, run, meddled, left>>
-----------------------------------------------------------------------------
(***************************************************************************)
(* The engine of Windows: one dependency after the other                   *)
(***************************************************************************)
Item(p) == Wanted[job[p]]

\* Other runs that have checked the file of d and not used it yet.
Trusting(p, d) == {q \in Proc \ {p} : pc[q] = "use" /\ Item(q) = d}

Put(p, d, content) ==
  /\ temp' = [temp EXCEPT ![d] = content]
  /\ meddled' = [q \in Proc |-> meddled[q] \/ q \in Trusting(p, d)]

\* A file that another run has open is not removed.
Remove(p, d) ==
  \/ Put(p, d, "none")
  \/ /\ \E q \in Proc \ {p} : pc[q] \in {"download", "use"} /\ Item(q) = d
     /\ UNCHANGED <<temp, meddled>>

Proceed(p) ==
  /\ IF job[p] = Len(Wanted)
     THEN Go(p, "integrate") /\ UNCHANGED job
     ELSE Go(p, "ensure") /\ job' = [job EXCEPT ![p] = @ + 1]
  /\ UNCHANGED result

\* Mutant of GiveUp: an optional tool is tried again.
GiveUpRetries(p) ==
  IF Item(p) = Git
  THEN End(p, "failure") /\ Says(p, "missing") /\ UNCHANGED job
  ELSE Go(p, "ensure") /\ UNCHANGED <<job, result, claim>>

\* Without git main ends with an exception; an optional tool is done without.
GiveUp(p) ==
  IF Item(p) = Git
  THEN End(p, "failure") /\ Says(p, "missing") /\ UNCHANGED job
  ELSE Proceed(p) /\ UNCHANGED claim

\* The installation directory is determined and made, or not.
WindowsStarts(p) ==
  /\ pc[p] = "engine"
  /\ site.family = "windows"
  /\ \/ Go(p, "ensure") /\ UNCHANGED result
     \/ End(p, "failure")
  /\ UNCHANGED <<site, machine, job, run, history>>

Ensure(p) ==
  /\ pc[p] = "ensure"
  /\ IF Item(p) \in ok[p]
     THEN /\ Proceed(p)
          /\ IF Item(p) = Git THEN Says(p, "ok") ELSE UNCHANGED claim
     ELSE Go(p, "lookup") /\ UNCHANGED <<job, result, claim>>
  /\ UNCHANGED <<site, machine, run, meddled, brought, left>>

\* The directory of tools is made once git is there.
ToolsDirFails(p) ==
  /\ pc[p] = "ensure"
  /\ job[p] = 2
  /\ End(p, "failure")
  /\ UNCHANGED <<site, machine, job, run, history>>

\* handle_github_api: no checksum is published with a release.
GithubSums == {"none"}

\* handle_hashicorp_api: the checksum is empty when its list cannot be read.
HashicorpSums == {"none", "published"}

\* fetch_latest_asset: both requests end after a minute at the latest.
Lookup(p) ==
  /\ pc[p] = "lookup"
  /\ \/ /\ \E s \in IF Item(p) = Git THEN GithubSums ELSE HashicorpSums :
             sum' = [sum EXCEPT ![p] = s]
        /\ Go(p, "open")
        /\ UNCHANGED <<job, result, claim>>
     \/ GiveUp(p) /\ UNCHANGED sum
  /\ UNCHANGED <<site, machine, unread, list, ok, meddled, brought, left>>

\* fopen(.., "wb") cuts the file off, or fails.
Open(p) ==
  /\ pc[p] = "open"
  /\ \/ /\ Put(p, Item(p), "partial")
        /\ Go(p, "download")
        /\ UNCHANGED <<job, result, claim>>
     \/ GiveUp(p) /\ UNCHANGED <<temp, meddled>>
  /\ UNCHANGED <<site, tool, bin, registered, run, brought, left>>

\* Mutant of DownloadFails: the partial file stays.
DownloadFailsUnclean(p) ==
  /\ pc[p] = "download"
  /\ GiveUp(p)
  /\ UNCHANGED <<site, machine, run, meddled, brought, left>>

\* curl or the server reports an error.
DownloadFails(p) ==
  /\ pc[p] = "download"
  /\ GiveUp(p)
  /\ Remove(p, Item(p))
  /\ UNCHANGED <<site, tool, bin, registered, run, brought, left>>

\* The server's answer is in the file.  It may be another one than the
\* release, and fclose is not asked whether all of it was written.
Download(p) ==
  /\ pc[p] = "download"
  /\ \E content \in {"genuine", "other"} : Put(p, Item(p), content)
  /\ Go(p, "hash")
  /\ UNCHANGED <<site, tool, bin, registered, job, run, result, claim, brought, left>>

\* from_file returns "" when there is no file.
DigestMatches(p) ==
  IF sum[p] = "none" THEN temp[Item(p)] = "none"
  ELSE site.agrees /\ temp[Item(p)] = "genuine"

\* Mutant of Accepted: optional tools, too, may come without a checksum.
AcceptedUnsummed(p) == DigestMatches(p) \/ sum[p] = "none"

\* For git an empty checksum is no mismatch.
Accepted(p) == DigestMatches(p) \/ (Item(p) = Git /\ sum[p] = "none")

Verify(p) ==
  /\ pc[p] = "hash"
  /\ IF Accepted(p)
     THEN Go(p, "use") /\ UNCHANGED <<temp, meddled, job, result, claim>>
     ELSE Remove(p, Item(p)) /\ GiveUp(p)
  /\ UNCHANGED <<site, tool, bin, registered, run, brought, left>>

Using(p) == pc[p] = "use"

\* What is run as git's installer ends with 0.  Nobody asks git again: it may
\* have been something else than git's installer, and another git, or none, may
\* be what the PATH finds.
GitInstalls(p) ==
  /\ Using(p) /\ Item(p) = Git
  /\ temp[Git] \in {"genuine", "other"}
  /\ \/ /\ temp[Git] = "genuine"
        /\ tool' = [tool EXCEPT ![Git] = [fails |-> FALSE, line |-> 1, version |-> Latest]]
        /\ Brings(p, "latest")
     \/ Brings(p, "unknown") /\ UNCHANGED tool
  /\ Remove(p, Git)
  /\ Says(p, "installed")
  /\ Proceed(p)
  /\ UNCHANGED <<site, bin, registered, run, left>>

\* Mutant of GitInstallFails: the exit code of git's installer is not looked at.
GitExitIgnored(p) ==
  /\ Using(p) /\ Item(p) = Git
  /\ Remove(p, Git)
  /\ Says(p, "installed")
  /\ Proceed(p)
  /\ UNCHANGED <<site, tool, bin, registered, run, brought, left>>

\* It does not start, or ends with another code.
GitInstallFails(p) ==
  /\ Using(p) /\ Item(p) = Git
  /\ Remove(p, Git)
  /\ GiveUp(p)
  /\ UNCHANGED <<site, tool, bin, registered, run, brought, left>>

\* unzip_archive extracts every entry.
Unzip(p) ==
  /\ Using(p) /\ Item(p) # Git
  /\ temp[Item(p)] \in {"genuine", "other"}
  /\ bin' = [bin EXCEPT ![Item(p)] = temp[Item(p)]]
  /\ Remove(p, Item(p))
  /\ Proceed(p)
  /\ UNCHANGED <<site, tool, registered, run, claim, brought, left>>

\* What an extraction that stops half-way leaves.
Spoilt(d) == {bin[d]} \cup (IF temp[d] = "none" THEN {} ELSE {"partial"})

UnzipFails(p) ==
  /\ Using(p) /\ Item(p) # Git
  /\ \E content \in Spoilt(Item(p)) : bin' = [bin EXCEPT ![Item(p)] = content]
  /\ Remove(p, Item(p))
  /\ Proceed(p)
  /\ UNCHANGED <<site, tool, registered, run, claim, brought, left>>

\* create_directories throws: main ends, and the archive stays.
UnzipThrows(p) ==
  /\ Using(p) /\ Item(p) # Git
  /\ temp[Item(p)] # "none"
  /\ \E content \in Spoilt(Item(p)) : bin' = [bin EXCEPT ![Item(p)] = content]
  /\ left' = left \cup {Item(p)}
  /\ End(p, "failure")
  /\ UNCHANGED <<site, tool, temp, registered, job, run, meddled, claim, brought>>

\* The PATH is not changed (update_path_environment_variable is empty), and a
\* registry entry that cannot be made is not noticed.
Integrate(p) ==
  /\ pc[p] = "integrate"
  /\ registered' \in {registered, TRUE}
  /\ End(p, "success")
  /\ UNCHANGED <<site, tool, temp, bin, job, run, history>>
-----------------------------------------------------------------------------
Active(p) == pc[p] \notin {"idle", "over"}

\* Steps between which p has a file under its temporary name.
Holds(p) == pc[p] \in {"download", "hash", "use"}

\* The process is ended from outside.
Killed(p) ==
  /\ Active(p)
  /\ End(p, "killed")
  /\ left' = IF Holds(p) THEN left \cup {Item(p)} ELSE left
  /\ UNCHANGED <<site, machine, job, run, meddled, claim, brought>>

\* Steps that end by themselves: nothing but a transfer without a timeout and
\* external programs, `<tool> --version` among them, can keep a run waiting.
OwnStep(p) ==
  \/ Start(p) \/ ReadEntry(p) \/ EntriesRead(p)
  \/ ~Asked(p) /\ (Check(p) \/ CheckBuiltin(p))
  \/ EngineStarts(p) \/ NoEngine(p)
  \/ LinuxDone(p) \/ LinuxInstalls(p) \/ MacDone(p) \/ BrewInstalls(p)
  \/ WindowsStarts(p) \/ Ensure(p) \/ ToolsDirFails(p) \/ Lookup(p) \/ Open(p)
  \/ Verify(p) \/ Unzip(p) \/ UnzipFails(p) \/ UnzipThrows(p) \/ Integrate(p)

AwaitedStep(p) ==
  \/ Asked(p) /\ (Check(p) \/ CheckBuiltin(p))
  \/ Refresh(p) \/ Manage(p)
  \/ Download(p) \/ DownloadFails(p) \/ GitInstalls(p) \/ GitInstallFails(p)

Next == \E p \in Proc : OwnStep(p) \/ AwaitedStep(p) \/ Killed(p)

Spec == Init /\ [][Next]_vars /\ \A p \in Proc : WF_vars(OwnStep(p))
=============================================================================
