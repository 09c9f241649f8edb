----------------------------- MODULE ModuleHost -----------------------------
(***************************************************************************)
(* What the core of phgit promises about modules, without a directory, a   *)
(* registry or a menu: a command belongs to the first module that offers   *)
(* it, for as long as the host is open; one command runs at a time, in the *)
(* module it belongs to; and modules leave only after the host has closed. *)
(***************************************************************************)
CONSTANTS
  Lib,       \* modules
  Command,   \* command names
  Offers,    \* Offers[m]: the commands that module m lists
  NoLib      \* no module

VARIABLES
  live,      \* modules that were initialised and not cleaned up
  owner,     \* owner[c]: the module that runs the command c, or NoLib
  running    \* the module that runs a command now, or NoLib

vars == <<live, owner, running>>

Nobody == [c \in Command |-> NoLib]

Init ==
  /\ live = {}
  /\ owner = Nobody
  /\ running = NoLib

\* A module is initialised.  It gets the commands that nobody owns, or, when
\* the host has no room for it, none.
Load(m) ==
  /\ m \notin live
  /\ running = NoLib
  /\ live' = live \cup {m}
  /\ \/ owner' = [c \in Command |-> IF owner[c] = NoLib /\ c \in Offers[m]
                                   THEN m ELSE owner[c]]
     \/ UNCHANGED owner
  /\ UNCHANGED running

Run(c) ==
  /\ running = NoLib
  /\ owner[c] \in live
  /\ running' = owner[c]
  /\ UNCHANGED <<live, owner>>

\* The command returns, and the host goes on or closes.
Return ==
  /\ running # NoLib
  /\ running' = NoLib
  /\ owner' \in {owner, Nobody}
  /\ UNCHANGED live

Close ==
  /\ running = NoLib
  /\ owner' = Nobody
  /\ UNCHANGED <<live, running>>

\* A module is cleaned up: nothing can be asked of anybody any more.
Unload(m) ==
  /\ m \in live
  /\ owner = Nobody
  /\ running = NoLib
  /\ live' = live \ {m}
  /\ UNCHANGED <<owner, running>>

Next ==
  \/ \E m \in Lib : Load(m) \/ Unload(m)
  \/ \E c \in Command : Run(c)
  \/ Return \/ Close

Spec == Init /\ [][Next]_vars
=============================================================================
