------------------------------ MODULE Platform ------------------------------
(***************************************************************************)
(* What the installer knows of the system it runs on                       *)
(* (platform_detector.cpp), and the engine it then chooses (main.cpp,      *)
(* linux_installer.cpp).  A Linux system describes itself in               *)
(* /etc/os-release, a sequence of lines; an empty line, or one without     *)
(* "=", is left out.                                                       *)
(***************************************************************************)
EXTENDS Naturals, Sequences

CONSTANT NoFile  \* there is no /etc/os-release

Families == {"windows", "linux", "macos", "unknown"}

IdLines(release) == {i \in DOMAIN release : release[i].key = "ID"}

\* detect_linux_distro: the last line with the key ID counts.
OsId(release) ==
  IF release = NoFile THEN "linux"
  ELSE IF IdLines(release) = {} THEN ""
  ELSE release[CHOOSE m \in IdLines(release) : \A i \in IdLines(release) : i <= m].value

\* dispatch_installation_strategy of the Linux engine.
PackageManager(id) ==
  CASE id \in {"debian", "ubuntu", "mint", "elementary", "pop"}   -> "apt"
    [] id \in {"fedora", "rhel", "centos", "rocky", "alma"}       -> "dnf"
    [] id \in {"arch", "manjaro", "endeavouros", "garuda"}        -> "pacman"
    [] id \in {"opensuse", "sles"}                                -> "zypper"
    [] OTHER                                                      -> "none"

\* dnf needs no refresh of its package lists.
Refreshed == {"apt", "pacman", "zypper"}
=============================================================================
