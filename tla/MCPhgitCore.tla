---------------------------- MODULE MCPhgitCore ----------------------------
(***************************************************************************)
(* TLC instance of PhgitCore: a library that conforms, one that offers a   *)
(* command of it too, one that exports no module_exec, and the API client, *)
(* whose module_init logs while it holds its own lock.                     *)
(***************************************************************************)
EXTENDS CoreSafety

CONSTANTS good, twin, mute, client, snd, sync

Offered ==
  [l \in Lib |-> IF l = good THEN {snd, sync}
                 ELSE IF l = client THEN {} ELSE {snd}]

Missing == [l \in Lib |-> IF l = mute THEN {"module_exec"} ELSE {}]
=============================================================================
