-------------------------- MODULE InstallerSafety --------------------------
(***************************************************************************)
(* What the installer must never do, and what it comes to.                 *)
(***************************************************************************)
EXTENDS Installer

\* Where an answer shows at least the version that d has to have.
Recent(d) == tool[d] # Absent /\ AtLeast(tool[d].version, Min[d])

\* Whenever the check finds a dependency recent enough (is_version_ok), the
\* tool is there and its whole version, compared part by part, is not behind
\* the required one: neither the text that the version is cut out of, nor
\* parts that one of the two versions lacks, can mislead check_dependency.
AcceptsOnlyRecent ==
  [][\A p \in Proc : \A d \in ok'[p] \ ok[p] : Recent(d)]_vars

\* What a run says of git is so, whatever other runs do to the machine: "ok"
\* stands for a git that is there and recent, "installed" for an installation
\* that the run began and that ended well; a git that it brought and that the
\* PATH finds is recent.  Success of the Windows engine stands for one of the
\* two.  On Linux and macOS, where results of package managers are not looked
\* at, a run that ends with success has said what became of git, unless it
\* knows no package manager.
GitAfterSuccess ==
  \A p \in Proc :
    /\ claim[p] = "ok" \/ brought[p] = "latest" => Recent(Git)
    /\ claim[p] = "installed" <=> brought[p] # "nothing"
    /\ result[p] = "success" =>
         \/ claim[p] \in {"ok", "installed"}
         \/ claim[p] = "missing" /\ site.family \in {"linux", "macos"}
         \/ claim[p] = "nothing" /\ site.family = "linux" /\ Manager = "none"

Meddled == \E p \in Proc : meddled[p]

\* The directory of tools holds the content of published releases only, and
\* nothing at all as long as the digest is computed wrongly, unless another
\* run of the installer changed an archive after its checksum was compared.
ExtractedWasVerified ==
  \A t \in Tool :
    /\ bin[t] = "other" => Meddled
    /\ bin[t] # "none" => site.agrees \/ Meddled

\* A temporary file is always that of a run that is still at it, or was left
\* by one that was cut off: every failure of a download, a checksum, an
\* installer or an extraction removes it.
TempAccounted ==
  \A d \in Dep :
    temp[d] # "none" => d \in left \/ \E p \in Proc : Holds(p) /\ Item(p) = d

\* Outside the installer's hands: a download has no timeout, and external
\* commands are waited for, also those that are asked for their version.
Waits(p) ==
  \/ Asked(p)
  \/ pc[p] \in {"refresh", "manage", "download"}
  \/ Using(p) /\ Item(p) = Git

\* Every run that has begun ends or comes to wait for something outside it,
\* whatever fails on the way and however runs disturb each other.
EndsOrWaits == \A p \in Proc : Active(p) ~> (pc[p] = "over" \/ Waits(p))
-----------------------------------------------------------------------------
(***************************************************************************)
(* The inductive invariant behind the proofs (InstallerProofs)             *)
(***************************************************************************)

\* What a run found recent enough stays so: versions only move up.
FindingsLast == \A p \in Proc : \A d \in ok[p] : Recent(d)

\* git was found recent, or an installation of it ended well.
GitDone(p) == claim[p] \in {"ok", "installed"}

\* Nothing is said of git before its turn, and the engine of Windows comes to
\* the optional tools over git only.
GitFirst(p) ==
  /\ pc[p] \in {"idle", "configure", "check", "engine", "refresh", "manage"} =>
       claim[p] = "nothing"
  /\ pc[p] = "engine" => job[p] = 1
  /\ pc[p] \in {"refresh", "manage"} => site.family \in {"linux", "macos"}
  /\ pc[p] \in {"ensure", "lookup", "open", "download", "hash", "use"} =>
       IF job[p] = 1 THEN claim[p] = "nothing" ELSE GitDone(p)
  /\ pc[p] = "integrate" => GitDone(p)

\* Between the checksum and the extraction.
ComparedIsGenuine(p) ==
  Using(p) /\ Item(p) # Git /\ ~meddled[p] =>
    temp[Item(p)] = "none" \/ (temp[Item(p)] = "genuine" /\ site.agrees)

IndInv ==
  /\ TypeOK
  /\ FindingsLast
  /\ \A p \in Proc : GitFirst(p) /\ ComparedIsGenuine(p)
  /\ GitAfterSuccess
  /\ ExtractedWasVerified
  /\ TempAccounted
=============================================================================
