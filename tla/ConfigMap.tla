----------------------------- MODULE ConfigMap -----------------------------
(***************************************************************************)
(* What the configuration manager of the core is for its callers           *)
(* (src/core/config/config_manager.h): a map from keys to values that is   *)
(* cleared, assigned to, and looked up.                                    *)
(***************************************************************************)
CONSTANTS
  Key,      \* configuration keys
  Value,    \* configuration values
  None,     \* the NULL that config_get_value returns: no value
  NoAnswer  \* nothing was looked up yet

VARIABLES
  map,      \* map[k]: the value of k, or None
  answer    \* the last lookup and its result

Empty == [k \in Key |-> None]

Init == map = Empty /\ answer = NoAnswer

Clear == map' = Empty /\ UNCHANGED answer

Put(k, v) == map' = [map EXCEPT ![k] = v] /\ UNCHANGED answer

Look(k) ==
  /\ answer' = [key |-> k, value |-> map[k]]
  /\ UNCHANGED map

Next ==
  \/ Clear
  \/ \E k \in Key, v \in Value \cup {None} : Put(k, v)
  \/ \E k \in Key : Look(k)

Spec == Init /\ [][Next]_<<map, answer>>
=============================================================================
