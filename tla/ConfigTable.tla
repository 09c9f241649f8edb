---------------------------- MODULE ConfigTable ----------------------------
(***************************************************************************)
(* The configuration manager of the core                                   *)
(* (src/core/config/config_manager.c): a hash table with chaining that     *)
(* config_load fills from a file of key=value lines, config_get_value      *)
(* searches, and config_cleanup empties.                                   *)
(*                                                                         *)
(* The hash function is a parameter: which keys collide does not matter to *)
(* what is stated here.  A line of the file is what trimming and splitting *)
(* make of it: a pair, or Skip when it is blank, a comment, has no "=" or  *)
(* no key.  Every allocation can fail.                                     *)
(***************************************************************************)
EXTENDS Sequences, Naturals

CONSTANTS
  Key,      \* configuration keys
  Value,    \* configuration values
  Bucket,   \* 0..127 in the code
  Hash,     \* Hash[k]: the bucket of k
  File,     \* the files that config_load is given
  Skip,     \* a line that sets nothing
  None,     \* NULL: no value
  NoKey,    \* NULL: a node whose key could not be copied
  NoAnswer  \* nothing was looked up yet

Pair == [key : Key, value : Value]
Line == Pair \cup {Skip}
Node == [key : Key \cup {NoKey}, value : Value \cup {None}]

ASSUME HashAssumption == Hash \in [Key -> Bucket]
ASSUME FileAssumption == File \subseteq Seq(Line)
ASSUME NullAssumption == NoKey \notin Key /\ Skip \notin Pair

VARIABLES
  table,    \* g_config_table: table[b] is the chain of bucket b
  file,     \* the file that was opened last
  next,     \* the position in it: lines before it were read
  phase,    \* between calls, in config_load, or crashed
  status,   \* what the last config_load returned
  answer,   \* what the last config_get_value was asked and returned
  intact    \* history: no copy of a key or value failed since the table was empty

readVars == <<file, next, intact>>
vars     == <<table, readVars, phase, status, answer>>

EmptyTable == [b \in Bucket |-> <<>>]

TypeOK ==
  /\ table \in [Bucket -> Seq(Node)]
  /\ file \in Seq(Line)
  /\ next \in 1..(Len(file) + 1)
  /\ phase \in {"ready", "loading", "crashed"}
  /\ status \in {"none", "success", "error"}
  /\ answer \in [key : Key, value : Value \cup {None}] \cup {NoAnswer}
  /\ intact \in BOOLEAN

Init ==
  /\ table = EmptyTable
  /\ file = <<>>
  /\ next = 1
  /\ phase = "ready"
  /\ status = "none"
  /\ answer = NoAnswer
  /\ intact = TRUE
-----------------------------------------------------------------------------
(***************************************************************************)
(* config_cleanup and config_load                                          *)
(***************************************************************************)

\* Mutant of Reset: the chains stay.
ResetFileOnly(f) ==
  /\ file' = f
  /\ next' = 1
  /\ intact' = TRUE
  /\ UNCHANGED table

\* Every chain is freed; f is what is read next.
Reset(f) ==
  /\ table' = EmptyTable
  /\ file' = f
  /\ next' = 1
  /\ intact' = TRUE

Cleanup ==
  /\ phase = "ready"
  /\ Reset(<<>>)
  /\ UNCHANGED <<phase, status, answer>>

\* A file that does not open is no error: the defaults are used.
LoadMissing ==
  /\ phase = "ready"
  /\ Reset(<<>>)
  /\ status' = "success"
  /\ UNCHANGED <<phase, answer>>

LoadOpens ==
  /\ phase = "ready"
  /\ \E f \in File : Reset(f)
  /\ phase' = "loading"
  /\ UNCHANGED <<status, answer>>

More == phase = "loading" /\ next <= Len(file)

SkipLine ==
  /\ More
  /\ file[next] = Skip
  /\ next' = next + 1
  /\ UNCHANGED <<table, file, intact, phase, status, answer>>

\* Mutant of Linked: a new node goes to the end of its chain.
LinkedLast(node, chain) == Append(chain, node)

\* A new node goes in front of its chain.
Linked(node, chain) == <<node>> \o chain

\* malloc returned a node; whether strdup copied key and value is not checked.
InsertPair ==
  /\ More
  /\ file[next] # Skip
  /\ \E key \in {file[next].key, NoKey}, value \in {file[next].value, None} :
       /\ table' = [table EXCEPT ![Hash[file[next].key]] =
                      Linked([key |-> key, value |-> value], @)]
       /\ intact' = (intact /\ key # NoKey /\ value # None)
  /\ next' = next + 1
  /\ UNCHANGED <<file, phase, status, answer>>

\* malloc fails: the load ends with an error, and what was read stays.
NodeFails ==
  /\ More
  /\ file[next] # Skip
  /\ phase' = "ready"
  /\ status' = "error"
  /\ UNCHANGED <<table, readVars, answer>>

LoadDone ==
  /\ phase = "loading"
  /\ next > Len(file)
  /\ phase' = "ready"
  /\ status' = "success"
  /\ UNCHANGED <<table, readVars, answer>>
-----------------------------------------------------------------------------
(***************************************************************************)
(* config_get_value                                                        *)
(***************************************************************************)
Chain(k) == table[Hash[k]]

Least(S) == CHOOSE m \in S : \A i \in S : m <= i

\* The nodes of a chain that hold k; the first of them is found.
Hits(k, chain) == {i \in 1..Len(chain) : chain[i].key = k}

FoundIn(k, chain) ==
  IF Hits(k, chain) = {} THEN None ELSE chain[Least(Hits(k, chain))].value

Found(k) == FoundIn(k, Chain(k))

\* strcmp would read a key that was not copied before it comes to k.
Poisoned(k) ==
  \E i \in 1..Len(Chain(k)) :
    Chain(k)[i].key = NoKey /\ \A j \in Hits(k, Chain(k)) : i < j

\* Mutant of GetValue: the first node of the chain is returned.
GetFirst(k) ==
  /\ phase = "ready"
  /\ ~Poisoned(k)
  /\ answer' = [key |-> k, value |-> IF Chain(k) = <<>> THEN None ELSE Chain(k)[1].value]
  /\ UNCHANGED <<table, readVars, phase, status>>

\* Mutant of GetValue: the key of the node is returned for its value.
GetKey(k) ==
  /\ phase = "ready"
  /\ ~Poisoned(k)
  /\ answer' = [key |-> k, value |-> IF Found(k) = None THEN None ELSE k]
  /\ UNCHANGED <<table, readVars, phase, status>>

GetValue(k) ==
  /\ phase = "ready"
  /\ ~Poisoned(k)
  /\ answer' = [key |-> k, value |-> Found(k)]
  /\ UNCHANGED <<table, readVars, phase, status>>

GetCrashes(k) ==
  /\ phase = "ready"
  /\ Poisoned(k)
  /\ phase' = "crashed"
  /\ UNCHANGED <<table, readVars, status, answer>>
-----------------------------------------------------------------------------
Next ==
  \/ Cleanup \/ LoadMissing \/ LoadOpens
  \/ SkipLine \/ InsertPair \/ NodeFails \/ LoadDone
  \/ \E k \in Key : GetValue(k) \/ GetCrashes(k)

Spec == Init /\ [][Next]_vars
-----------------------------------------------------------------------------
(***************************************************************************)
(* Properties                                                              *)
(***************************************************************************)

\* The lines read so far that set k; the last of them counts.
Setting(k) == {i \in 1..(next - 1) : file[i] # Skip /\ file[i].key = k}

LastSetting(k) == CHOOSE m \in Setting(k) : \A i \in Setting(k) : i <= m

Expected(k) == IF Setting(k) = {} THEN None ELSE file[LastSetting(k)].value

\* The table says of every key what the last line read with that key says, and
\* nothing of a key that the current file has not set: no collision hides a
\* key, no value of a file loaded before survives, and a load that runs out of
\* nodes keeps exactly the lines before (config_load and config_get_value).
LastLineWins == intact => \A k \in Key : Found(k) = Expected(k)

\* The table implements the map that config_manager.h describes, whatever fails.
Map == INSTANCE ConfigMap WITH map <- [k \in Key |-> Found(k)]
RefinesMap == Map!Spec
=============================================================================
