---------------------------- MODULE ConfigProofs ----------------------------
(***************************************************************************)
(* For every set of keys, every hash function and every set of files: the  *)
(* table is well typed, a key has the value of the last line that sets it, *)
(* and the table implements the map of ConfigMap.                          *)
(***************************************************************************)
EXTENDS ConfigTable, LeastNumber

(***************************************************************************)
(* Searching a chain                                                       *)
(***************************************************************************)

\* The node that a search stops at is known by being the first hit.
LEMMA FirstHit ==
  ASSUME NEW k, NEW chain, NEW m \in Hits(k, chain),
         Hits(k, chain) \in SUBSET Nat,
         \A i \in Hits(k, chain) : m <= i
  PROVE  FoundIn(k, chain) = chain[m].value
<1>1. Least(Hits(k, chain)) = m
  BY DEF Least
<1>2. QED
  BY <1>1 DEF FoundIn

\* A node in front of a chain is found first, and hides no other key.
LEMMA Prepend ==
  ASSUME NEW k \in Key, NEW chain \in Seq(Node), NEW node \in Node
  PROVE  FoundIn(k, Linked(node, chain)) =
           IF node.key = k THEN node.value ELSE FoundIn(k, chain)
<1> DEFINE longer == Linked(node, chain)
           old    == Hits(k, chain)
           new    == Hits(k, longer)
<1>1. /\ Len(longer) = Len(chain) + 1
      /\ longer[1] = node
      /\ \A i \in 1..Len(chain) : longer[i + 1] = chain[i]
      /\ Len(chain) \in Nat
  BY DEF Linked
<1>2. old \in SUBSET Nat /\ new \in SUBSET Nat
  BY <1>1 DEF Hits
<1>3. \A i \in 1..Len(chain) : i + 1 \in new <=> i \in old
  BY <1>1 DEF Hits
<1>4. CASE node.key = k
  <2>1. 1 \in new /\ \A i \in new : 1 <= i
    BY <1>1, <1>4 DEF Hits
  <2>2. FoundIn(k, longer) = longer[1].value
    <3> HIDE DEF longer
    <3> QED BY <2>1, <1>2, FirstHit
  <2>3. QED
    BY <2>2, <1>1, <1>4
<1>5. CASE node.key # k
  <2>1. \A i \in new : i - 1 \in old
    BY <1>1, <1>5 DEF Hits
  <2>2. CASE old = {}
    <3>1. new = {}
      BY <2>1, <2>2
    <3>2. QED
      BY <3>1, <2>2, <1>5 DEF FoundIn
  <2>3. CASE old # {}
    <3>1. PICK m \in old : \A i \in old : m <= i
      <4> HIDE DEF old
      <4> QED BY <2>3, <1>2, LeastExists
    <3>2. m \in 1..Len(chain)
      BY DEF Hits
    <3>3. m + 1 \in new
      BY <1>3, <3>2
    <3>4. \A i \in new : m + 1 <= i
      BY <2>1, <3>1, <1>2, <3>2, <1>1
    <3>5. FoundIn(k, longer) = longer[m + 1].value
      <4> HIDE DEF longer
      <4> QED BY <3>3, <3>4, <1>2, FirstHit
    <3>6. FoundIn(k, chain) = chain[m].value
      BY <3>1, <1>2, FirstHit
    <3>7. QED
      BY <3>5, <3>6, <3>2, <1>1, <1>5
  <2>4. QED
    BY <2>2, <2>3
<1>6. QED
  BY <1>4, <1>5

\* No key is found in a table that was just emptied.
LEMMA NothingInEmpty ==
  ASSUME NEW k \in Key
  PROVE  FoundIn(k, EmptyTable[Hash[k]]) = None
<1>1. EmptyTable[Hash[k]] = <<>>
  BY HashAssumption DEF EmptyTable
<1>2. Hits(k, <<>>) = {}
  BY DEF Hits
<1>3. QED
  BY <1>1, <1>2 DEF FoundIn

\* What a search returns is a value or NULL.
LEMMA FoundIsValue ==
  ASSUME NEW k \in Key, NEW chain \in Seq(Node)
  PROVE  FoundIn(k, chain) \in Value \cup {None}
<1>1. Hits(k, chain) \in SUBSET Nat
  BY DEF Hits
<1>2. CASE Hits(k, chain) = {}
  BY <1>2 DEF FoundIn
<1>3. CASE Hits(k, chain) # {}
  <2>1. PICK m \in Hits(k, chain) : \A i \in Hits(k, chain) : m <= i
    BY <1>1, <1>3, LeastExists
  <2>2. FoundIn(k, chain) = chain[m].value
    BY <1>1, <2>1, FirstHit
  <2>3. chain[m] \in Node
    BY DEF Hits
  <2>4. QED
    BY <2>2, <2>3 DEF Node
<1>4. QED
  BY <1>2, <1>3

(***************************************************************************)
(* What the actions do to the table                                        *)
(***************************************************************************)

\* The node that InsertPair adds, and what a search finds after it: the line's
\* key, when it was copied, has the copied value; every other key what it had.
LEMMA InsertFinds ==
  ASSUME TypeOK, InsertPair
  PROVE  \E key \in {file[next].key, NoKey}, value \in {file[next].value, None} :
           /\ table' = [table EXCEPT ![Hash[file[next].key]] =
                          Linked([key |-> key, value |-> value], @)]
           /\ table' \in [Bucket -> Seq(Node)]
           /\ intact' = (intact /\ key # NoKey /\ value # None)
           /\ \A k \in Key : FoundIn(k, table'[Hash[k]]) =
                               IF key = k THEN value ELSE Found(k)
<1>1. PICK key \in {file[next].key, NoKey}, value \in {file[next].value, None} :
        /\ table' = [table EXCEPT ![Hash[file[next].key]] =
                       Linked([key |-> key, value |-> value], @)]
        /\ intact' = (intact /\ key # NoKey /\ value # None)
  BY DEF InsertPair
<1> DEFINE node == [key |-> key, value |-> value]
           b    == Hash[file[next].key]
<1>2. file[next] \in Pair
  BY DEF InsertPair, More, TypeOK, Line
<1>3. file[next].key \in Key /\ file[next].value \in Value
  BY <1>2 DEF Pair
<1>4. node \in Node /\ b \in Bucket
  BY <1>3, HashAssumption DEF Node
<1>5. table[b] \in Seq(Node) /\ table \in [Bucket -> Seq(Node)]
  BY <1>4 DEF TypeOK
<1>6. <<node>> \in Seq(Node)
  BY <1>4
<1>7. Linked(node, table[b]) \in Seq(Node)
  BY <1>5, <1>6 DEF Linked
<1>8. table' = [table EXCEPT ![b] = Linked(node, table[b])]
  BY <1>1
<1>9. table' \in [Bucket -> Seq(Node)]
  <2> HIDE DEF b, node
  <2> QED BY <1>5, <1>7, <1>8
<1>10. ASSUME NEW k \in Key
       PROVE  FoundIn(k, table'[Hash[k]]) = IF key = k THEN value ELSE Found(k)
  <2>1. Hash[k] \in Bucket
    BY HashAssumption
  <2>2. CASE Hash[k] = b
    <3>1. table'[Hash[k]] = Linked(node, table[b])
      <4> HIDE DEF b, node
      <4> QED BY <1>4, <1>5, <1>8, <2>2
    <3>2. FoundIn(k, Linked(node, table[b])) =
            IF node.key = k THEN node.value ELSE FoundIn(k, table[b])
      <4> HIDE DEF b, node
      <4> QED BY <1>4, <1>5, Prepend
    <3>3. Found(k) = FoundIn(k, table[b])
      BY <2>2 DEF Found, Chain
    <3>4. QED
      BY <3>1, <3>2, <3>3
  <2>3. CASE Hash[k] # b
    <3>1. table'[Hash[k]] = table[Hash[k]]
      <4> HIDE DEF b, node
      <4> QED BY <1>5, <1>8, <2>1, <2>3
    <3>2. key # k
      BY <2>3, NullAssumption
    <3>3. QED
      BY <3>1, <3>2 DEF Found, Chain
  <2>4. QED
    BY <2>2, <2>3
<1>11. QED
  BY <1>1, <1>9, <1>10

(***************************************************************************)
(* Type correctness                                                        *)
(***************************************************************************)

\* A table that was just emptied is one, and Reset sets what it must.
LEMMA ResetType ==
  ASSUME NEW f \in Seq(Line), Reset(f)
  PROVE  /\ table' \in [Bucket -> Seq(Node)] /\ table' = EmptyTable
         /\ file' \in Seq(Line) /\ file' = f
         /\ next' \in 1..(Len(file') + 1) /\ next' = 1
         /\ intact' \in BOOLEAN
<1>1. <<>> \in Seq(Node)
  OBVIOUS
<1>2. EmptyTable \in [Bucket -> Seq(Node)]
  BY <1>1 DEF EmptyTable
<1>3. QED
  BY <1>2 DEF Reset

\* Every call of config_load, config_get_value and config_cleanup leaves the
\* table, the position in the file and the answers well typed.
LEMMA TypeStep ==
  ASSUME TypeOK, [Next]_vars
  PROVE  TypeOK'
<1>1. CASE Cleanup
  <2>1. Reset(<<>>) /\ <<>> \in Seq(Line)
    BY <1>1 DEF Cleanup
  <2>2. QED
    BY <1>1, <2>1, ResetType DEF Cleanup, TypeOK
<1>2. CASE LoadMissing
  <2>1. Reset(<<>>) /\ <<>> \in Seq(Line)
    BY <1>2 DEF LoadMissing
  <2>2. QED
    BY <1>2, <2>1, ResetType DEF LoadMissing, TypeOK
<1>3. CASE LoadOpens
  <2>1. PICK f \in File : Reset(f)
    BY <1>3 DEF LoadOpens
  <2>2. f \in Seq(Line)
    BY FileAssumption
  <2>3. QED
    BY <1>3, <2>1, <2>2, ResetType DEF LoadOpens, TypeOK
<1>4. CASE SkipLine
  BY <1>4 DEF SkipLine, More, TypeOK
<1>5. CASE InsertPair
  <2>1. table' \in [Bucket -> Seq(Node)] /\ intact' \in BOOLEAN
    BY <1>5, InsertFinds DEF TypeOK
  <2>2. QED
    BY <1>5, <2>1 DEF InsertPair, More, TypeOK
<1>6. CASE NodeFails
  BY <1>6 DEF NodeFails, TypeOK, readVars
<1>7. CASE LoadDone
  BY <1>7 DEF LoadDone, TypeOK, readVars
<1>8. CASE \E k \in Key : GetValue(k) \/ GetCrashes(k)
  <2>1. PICK k \in Key : GetValue(k) \/ GetCrashes(k)
    BY <1>8
  <2>2. CASE GetValue(k)
    <3>1. Chain(k) \in Seq(Node)
      BY HashAssumption DEF TypeOK, Chain
    <3>2. Found(k) \in Value \cup {None}
      BY <3>1, FoundIsValue DEF Found
    <3>3. answer' \in [key : Key, value : Value \cup {None}]
      BY <2>2, <3>2 DEF GetValue
    <3>4. QED
      BY <2>2, <3>3 DEF GetValue, TypeOK, readVars
  <2>3. CASE GetCrashes(k)
    BY <2>3 DEF GetCrashes, TypeOK, readVars
  <2>4. QED
    BY <2>1, <2>2, <2>3
<1>9. CASE UNCHANGED vars
  BY <1>9 DEF vars, readVars, TypeOK
<1>10. QED
  BY <1>1, <1>2, <1>3, <1>4, <1>5, <1>6, <1>7, <1>8, <1>9 DEF Next

\* Every reachable state of the configuration manager is well typed.
THEOREM TypeCorrect == Spec => []TypeOK
<1>1. Init => TypeOK
  <2>1. <<>> \in Seq(Node) /\ <<>> \in Seq(Line)
    OBVIOUS
  <2>2. EmptyTable \in [Bucket -> Seq(Node)]
    BY <2>1 DEF EmptyTable
  <2>3. QED
    BY <2>1, <2>2 DEF Init, TypeOK
<1>2. TypeOK /\ [Next]_vars => TypeOK'
  BY TypeStep
<1>3. QED
  BY <1>1, <1>2, PTL DEF Spec

(***************************************************************************)
(* The last line wins                                                      *)
(***************************************************************************)

\* After Reset nothing is found and nothing was set.
LEMMA ResetExpected ==
  ASSUME NEW f \in Seq(Line), Reset(f)
  PROVE  LastLineWins'
<1>1. table' = EmptyTable /\ next' = 1
  BY DEF Reset
<1>2. SUFFICES ASSUME NEW k \in Key PROVE Found(k)' = Expected(k)'
  BY DEF LastLineWins
<1>3. Found(k)' = None
  BY <1>1, NothingInEmpty DEF Found, Chain
<1>4. Setting(k)' = {}
  BY <1>1 DEF Setting
<1>5. QED
  BY <1>3, <1>4 DEF Expected

\* A line that is read becomes the last one that sets its key, and leaves the
\* last line of every other key as it was.
LEMMA LineExpected ==
  ASSUME TypeOK, next \in 1..Len(file), next' = next + 1, file' = file, NEW k \in Key
  PROVE  Expected(k)' =
           IF file[next] # Skip /\ file[next].key = k THEN file[next].value
           ELSE Expected(k)
<1>1. next \in Nat /\ next' - 1 = next
  BY DEF TypeOK
<1>2. CASE file[next] # Skip /\ file[next].key = k
  <2>1. next \in Setting(k)'
    BY <1>1, <1>2 DEF Setting
  <2>2. \A i \in Setting(k)' : i \in Nat /\ i <= next
    BY <1>1 DEF Setting
  <2>3. \A m \in Setting(k)' : (\A i \in Setting(k)' : i <= m) <=> m = next
    BY <1>1, <2>1, <2>2
  <2>4. LastSetting(k)' = next
    BY <2>1, <2>3 DEF LastSetting
  <2>5. QED
    BY <1>2, <2>1, <2>4 DEF Expected
<1>3. CASE ~(file[next] # Skip /\ file[next].key = k)
  <2>1. Setting(k)' = Setting(k)
    BY <1>1, <1>3 DEF Setting
  <2>2. QED
    BY <1>3, <2>1 DEF Expected, LastSetting
<1>4. QED
  BY <1>2, <1>3

\* A step that leaves the table and the file alone leaves the property alone.
LEMMA SameTable ==
  ASSUME LastLineWins, UNCHANGED <<table, readVars>>
  PROVE  LastLineWins'
<1>1. \A k \in Key : Found(k)' = Found(k) /\ Expected(k)' = Expected(k)
  BY DEF Found, Chain, Expected, LastSetting, Setting, readVars
<1>2. QED
  BY <1>1 DEF LastLineWins, readVars

\* The property is inductive by itself, given the types.
LEMMA LastLineStep ==
  ASSUME TypeOK, LastLineWins, [Next]_vars
  PROVE  LastLineWins'
<1>1. CASE Cleanup \/ LoadMissing
  <2>1. Reset(<<>>) /\ <<>> \in Seq(Line)
    BY <1>1 DEF Cleanup, LoadMissing
  <2>2. QED
    BY <2>1, ResetExpected
<1>2. CASE LoadOpens
  <2>1. PICK f \in File : Reset(f)
    BY <1>2 DEF LoadOpens
  <2>2. f \in Seq(Line)
    BY FileAssumption
  <2>3. QED
    BY <2>1, <2>2, ResetExpected
<1>3. CASE SkipLine
  <2>1. SUFFICES ASSUME intact', NEW k \in Key PROVE Found(k)' = Expected(k)'
    BY DEF LastLineWins
  <2>2. next \in 1..Len(file) /\ next' = next + 1 /\ file' = file /\ file[next] = Skip
    BY <1>3 DEF SkipLine, More, TypeOK
  <2>3. Expected(k)' = Expected(k)
    BY <2>2, LineExpected
  <2>4. Found(k)' = Found(k) /\ intact
    BY <1>3, <2>1 DEF SkipLine, Found, Chain
  <2>5. QED
    BY <2>3, <2>4 DEF LastLineWins
<1>4. CASE InsertPair
  <2>1. SUFFICES ASSUME intact', NEW k \in Key PROVE Found(k)' = Expected(k)'
    BY DEF LastLineWins
  <2>2. next \in 1..Len(file) /\ next' = next + 1 /\ file' = file /\ file[next] # Skip
    BY <1>4 DEF InsertPair, More, TypeOK
  <2>3. Expected(k)' = IF file[next].key = k THEN file[next].value ELSE Expected(k)
    BY <2>2, LineExpected
  <2>4. PICK key \in {file[next].key, NoKey}, value \in {file[next].value, None} :
          /\ intact' = (intact /\ key # NoKey /\ value # None)
          /\ FoundIn(k, table'[Hash[k]]) = IF key = k THEN value ELSE Found(k)
    BY <1>4, InsertFinds
  <2>5. key = file[next].key /\ value = file[next].value /\ intact
    BY <2>1, <2>4
  <2>6. Found(k)' = FoundIn(k, table'[Hash[k]])
    BY DEF Found, Chain
  <2>7. QED
    BY <2>3, <2>4, <2>5, <2>6 DEF LastLineWins
<1>5. CASE NodeFails \/ LoadDone
  BY <1>5, SameTable DEF NodeFails, LoadDone
<1>6. CASE \E k \in Key : GetValue(k) \/ GetCrashes(k)
  BY <1>6, SameTable DEF GetValue, GetCrashes
<1>7. CASE UNCHANGED vars
  BY <1>7, SameTable DEF vars
<1>8. QED
  BY <1>1, <1>2, <1>3, <1>4, <1>5, <1>6, <1>7 DEF Next

\* As long as every copy succeeded, each key has the value of the last line
\* read that sets it, whatever the hash function and the files loaded before
\* (config_load, config_get_value).
THEOREM LastLine == Spec => []LastLineWins
<1>1. Init => LastLineWins
  <2>1. SUFFICES ASSUME Init, NEW k \in Key PROVE Found(k) = Expected(k)
    BY DEF LastLineWins
  <2>2. Found(k) = None
    BY <2>1, NothingInEmpty DEF Init, Found, Chain
  <2>3. Setting(k) = {}
    BY <2>1 DEF Init, Setting
  <2>4. QED
    BY <2>2, <2>3 DEF Expected
<1>2. TypeOK /\ LastLineWins /\ [Next]_vars => LastLineWins'
  BY LastLineStep
<1>3. QED
  BY <1>1, <1>2, TypeCorrect, PTL DEF Spec

(***************************************************************************)
(* The table implements the map                                            *)
(***************************************************************************)

\* The map that the table stands for.
Stored == [k \in Key |-> Found(k)]

\* What the abstract map is after a step that changes no chain.
LEMMA SameMap ==
  ASSUME UNCHANGED table
  PROVE  Stored' = Stored
BY DEF Stored, Found, Chain

\* Emptying the table clears the map.
LEMMA ResetClears ==
  ASSUME NEW f, Reset(f), UNCHANGED answer
  PROVE  Map!Clear
<1>1. \A k \in Key : Found(k)' = None
  BY NothingInEmpty DEF Reset, Found, Chain
<1>2. QED
  BY <1>1 DEF Map!Clear, Map!Empty

\* Every step of the table is a step of the map, or leaves it alone.
LEMMA MapStep ==
  ASSUME TypeOK, [Next]_vars
  PROVE  [Map!Next]_<<Stored, answer>>
<1>1. CASE Cleanup \/ LoadMissing \/ LoadOpens
  <2>1. \E f : Reset(f)
    BY <1>1 DEF Cleanup, LoadMissing, LoadOpens
  <2>2. UNCHANGED answer
    BY <1>1 DEF Cleanup, LoadMissing, LoadOpens
  <2>3. QED
    BY <2>1, <2>2, ResetClears DEF Map!Next
<1>2. CASE InsertPair
  <2>1. PICK key \in {file[next].key, NoKey}, value \in {file[next].value, None} :
          \A k \in Key : FoundIn(k, table'[Hash[k]]) =
                            IF key = k THEN value ELSE Found(k)
    BY <1>2, InsertFinds
  <2>2. \A k \in Key : Found(k)' = IF key = k THEN value ELSE Found(k)
    BY <2>1 DEF Found, Chain
  <2>3. UNCHANGED answer
    BY <1>2 DEF InsertPair
  <2>4. file[next] \in Pair
    BY <1>2 DEF InsertPair, More, TypeOK, Line
  <2>5. CASE key = NoKey
    <3>1. Stored' = Stored
      BY <2>2, <2>5, NullAssumption DEF Stored
    <3>2. QED
      BY <3>1, <2>3
  <2>6. CASE key # NoKey
    <3>1. key \in Key /\ value \in Value \cup {None}
      BY <2>4, <2>6 DEF Pair
    <3>2. Stored' = [Stored EXCEPT ![key] = value]
      BY <2>2, <3>1 DEF Stored
    <3>3. Map!Put(key, value)
      BY <2>3, <3>2 DEF Map!Put, Stored
    <3>4. QED
      BY <3>1, <3>3 DEF Map!Next
  <2>7. QED
    BY <2>5, <2>6
<1>3. CASE SkipLine \/ NodeFails \/ LoadDone
  BY <1>3, SameMap DEF SkipLine, NodeFails, LoadDone
<1>4. CASE \E k \in Key : GetValue(k) \/ GetCrashes(k)
  <2>1. PICK k \in Key : GetValue(k) \/ GetCrashes(k)
    BY <1>4
  <2>2. CASE GetValue(k)
    <3>1. Stored' = Stored
      BY <2>2, SameMap DEF GetValue
    <3>2. answer' = [key |-> k, value |-> Stored[k]]
      BY <2>2 DEF GetValue, Stored
    <3>3. Map!Look(k)
      BY <3>1, <3>2 DEF Map!Look, Stored
    <3>4. QED
      BY <3>3 DEF Map!Next
  <2>3. CASE GetCrashes(k)
    BY <2>3, SameMap DEF GetCrashes
  <2>4. QED
    BY <2>1, <2>2, <2>3
<1>5. CASE UNCHANGED vars
  BY <1>5, SameMap DEF vars
<1>6. QED
  BY <1>1, <1>2, <1>3, <1>4, <1>5 DEF Next

\* The configuration manager implements the map its header promises, also when
\* allocations fail.
THEOREM ImplementsMap == Spec => RefinesMap
<1>1. Init => Map!Init
  <2>1. SUFFICES ASSUME Init PROVE Map!Init
    OBVIOUS
  <2>2. \A k \in Key : Found(k) = None
    BY <2>1, NothingInEmpty DEF Init, Found, Chain
  <2>3. QED
    BY <2>1, <2>2 DEF Init, Map!Init, Map!Empty
<1>2. TypeOK /\ [Next]_vars => [Map!Next]_<<[k \in Key |-> Found(k)], answer>>
  BY MapStep DEF Stored
<1>3. QED
  BY <1>1, <1>2, TypeCorrect, PTL DEF Spec, RefinesMap, Map!Spec
=============================================================================
