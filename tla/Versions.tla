------------------------------ MODULE Versions ------------------------------
(***************************************************************************)
(* Version numbers as the installer's DependencyManager reads and compares *)
(* them (dependency_manager.hpp, and its predecessor                       *)
(* dependency_manager.cpp).  A version is the sequence of its parts.       *)
(***************************************************************************)
EXTENDS Integers, Sequences

CONSTANT MaxInt  \* the greatest number that std::stoi returns

Version == Seq(Nat)

\* std::stoi throws for a part that is no int.
Unreadable(v) == \E i \in 1..Len(v) : v[i] > MaxInt

\* resize(max_size, 0): parts that are missing count as 0.
Part(v, i) == IF i <= Len(v) THEN v[i] ELSE 0

Longer(v, w) == IF Len(v) > Len(w) THEN Len(v) ELSE Len(w)

\* Mutant of Differ: parts that only one version has are not looked at.
DifferInCommon(v, w) ==
  {i \in 1..Longer(v, w) : i <= Len(v) /\ i <= Len(w) /\ v[i] # w[i]}

\* The positions at which the loop would return.
Differ(v, w) == {i \in 1..Longer(v, w) : Part(v, i) # Part(w, i)}

First(S) == CHOOSE m \in S : \A i \in S : m <= i

\* compare_versions
Compare(v, w) ==
  IF Differ(v, w) = {} THEN 0
  ELSE LET i == First(Differ(v, w))
       IN  IF Part(v, i) < Part(w, i) THEN -1 ELSE 1

\* The order of versions: where v is behind w, it was ahead of w before.
AtLeast(v, w) ==
  \A i \in 1..Longer(v, w) :
    Part(v, i) < Part(w, i) => \E j \in 1..(i - 1) : Part(v, j) > Part(w, j)

(***************************************************************************)
(* parse_version_from_output finds the first version of a text.  The       *)
(* current one takes two or three parts, its predecessor three.            *)
(***************************************************************************)
Parsed(v) == SubSeq(v, 1, IF Len(v) > 3 THEN 3 ELSE Len(v))

ParsedTriple(v) == IF Len(v) < 3 THEN <<>> ELSE Parsed(v)

ParsedPair(v) == IF Len(v) < 2 THEN <<>> ELSE Parsed(v)
=============================================================================
