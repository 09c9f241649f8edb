---------------------------- MODULE MCInstaller ----------------------------
EXTENDS InstallerSafety

CONSTANTS p1, p2

Procs == {p1, p2}

MinVersions == [d \in Dep |-> CASE d = Git          -> <<2, 2, 1>>
                                [] d = "terraform"  -> <<1, 0>>
                                [] d = "vault"      -> <<1, 1>>]

\* The second list has an entry without a name, names a tool twice, and ends in
\* an entry that cannot be read.
ConfigLists == {Wanted, <<Git, Unnamed, "terraform", "vault", "vault", Malformed>>}

Line(key, value) == [key |-> key, value |-> value]

Releases == {NoFile,
             <<Line("ID", "debian"), Line("NAME", "x"), Line("ID", "ubuntu")>>,
             <<Line("NAME", "x"), Line("ID", "fedora")>>,
             <<Line("NAME", "x")>>}

Linux(b) == {[family |-> "linux", release |-> r, brew |-> FALSE, build |-> b,
              agrees |-> FALSE] : r \in Releases}
MacOS == {[family |-> "macos", release |-> NoFile, brew |-> b, build |-> "config",
           agrees |-> FALSE] : b \in BOOLEAN}
Windows == {[family |-> "windows", release |-> NoFile, brew |-> FALSE, build |-> "config",
             agrees |-> a] : a \in BOOLEAN}
Nowhere == [family |-> "unknown", release |-> NoFile, brew |-> FALSE, build |-> "config",
            agrees |-> FALSE]

Machines == Linux("config") \cup Linux("builtin") \cup MacOS \cup Windows \cup {Nowhere}

Prints(v) == [fails |-> FALSE, line |-> 1, version |-> v]

\* git is absent, fails, prints no version, prints it on its second line, is
\* too old by a part it does not print, has a part more or less than asked for,
\* or a part that is no int.
GitAnswers == {Absent, [Prints(<<3, 0, 0>>) EXCEPT !.fails = TRUE], Prints(<<>>),
               [Prints(<<2, 2, 1>>) EXCEPT !.line = 2], Prints(<<2, 2>>),
               Prints(<<2, 2, 1, 1>>), Prints(<<2, 3>>), Prints(<<2, 4, 0>>)}

Machine(g, t, v) == [d \in Dep |-> CASE d = Git         -> g
                                     [] d = "terraform" -> t
                                     [] d = "vault"     -> v]

\* Either git is what has to be found out, or the tools are.
Answers == {Machine(g, Prints(<<1, 0>>), Prints(<<1, 1>>)) : g \in GitAnswers}
           \cup {Machine(Prints(<<3, 0, 0>>), Absent, Prints(<<1>>))}

Packages == {<<2, 1, 0>>, <<2, 3>>}
Newest   == <<3, 1, 0>>
=============================================================================
