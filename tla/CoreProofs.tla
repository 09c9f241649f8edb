----------------------------- MODULE CoreProofs -----------------------------
(***************************************************************************)
(* Proofs about the core process for any directory of modules, any         *)
(* commands, and any capacity of the registry.                             *)
(***************************************************************************)
EXTENDS CoreSafety, SequenceTheorems, LeastNumber

(***************************************************************************)
(* Lemmas about searching the registry and about the registry as a         *)
(* sequence                                                                *)
(***************************************************************************)

\* modules_find_handler returns a registered module that lists the command, and
\* none before it in the registry does.
LEMMA HandlerFound ==
  ASSUME NEW c \in Command, Handlers(c) # {}
  PROVE  \E i \in Handlers(c) : Handler(c) = registry[i] /\ \A j \in Handlers(c) : i <= j
<1>1. Handlers(c) \in SUBSET Nat
  BY DEF Handlers
<1>2. \E m \in Handlers(c) : \A k \in Handlers(c) : m <= k
  BY <1>1, LeastExists
<1>3. QED
  BY <1>2 DEF Handler

\* So a command runs in a registered module that lists it, or nowhere.
LEMMA HandlerOwns ==
  ASSUME registry \in Seq(Lib), NEW c \in Command
  PROVE  /\ Handler(c) \in Lib \cup {NoLib}
         /\ Handler(c) # NoLib => Handler(c) \in Registered /\ c \in Offers[Handler(c)]
         /\ registry = <<>> => Handler(c) = NoLib
<1>1. CASE Handlers(c) = {}
  BY <1>1 DEF Handler
<1>2. CASE Handlers(c) # {}
  <2>1. PICK i \in Handlers(c) : Handler(c) = registry[i]
    BY <1>2, HandlerFound
  <2>2. i \in 1..Len(registry) /\ c \in Offers[registry[i]]
    BY DEF Handlers
  <2>3. registry[i] \in Lib /\ registry[i] \in Registered /\ registry # <<>>
    BY <2>2 DEF Registered
  <2>4. QED
    BY <2>1, <2>2, <2>3
<1>3. QED
  BY <1>1, <1>2

\* What Register does to the registry.
LEMMA Appended ==
  ASSUME registry \in Seq(Lib), NEW l \in Lib, registry' = Append(registry, l)
  PROVE  /\ registry' \in Seq(Lib)
         /\ registry' # <<>>
         /\ Len(registry') = Len(registry) + 1
         /\ \A i \in 1..Len(registry) : registry'[i] = registry[i]
         /\ registry'[Len(registry) + 1] = l
         /\ Registered' = Registered \cup {l}
<1>1. /\ registry' \in Seq(Lib)
      /\ registry' # <<>>
      /\ Len(registry') = Len(registry) + 1
      /\ \A i \in 1..Len(registry) : registry'[i] = registry[i]
      /\ registry'[Len(registry) + 1] = l
  BY AppendProperties
<1>2. Len(registry) \in Nat
  OBVIOUS
<1>3. Registered' \subseteq Registered \cup {l}
  BY <1>1, <1>2 DEF Registered
<1>4. Registered \cup {l} \subseteq Registered'
  BY <1>1, <1>2 DEF Registered
<1>5. QED
  BY <1>1, <1>3, <1>4

\* What CleanModule does to the registry.
LEMMA HeadTaken ==
  ASSUME registry \in Seq(Lib), registry # <<>>, Distinct, registry' = Tail(registry)
  PROVE  /\ Head(registry) \in Registered
         /\ registry' \in Seq(Lib)
         /\ Len(registry') = Len(registry) - 1
         /\ Registered' = Registered \ {Head(registry)}
         /\ Distinct'
<1>1. /\ registry' \in Seq(Lib)
      /\ Len(registry') = Len(registry) - 1
      /\ Len(registry) \in Nat \ {0}
      /\ Head(registry) = registry[1]
      /\ \A i \in 1..(Len(registry) - 1) : registry'[i] = registry[i + 1]
  BY HeadTailProperties
<1>2. Head(registry) \in Registered
  BY <1>1 DEF Registered
<1>3. Registered' \subseteq Registered \ {Head(registry)}
  BY <1>1 DEF Registered, Distinct
<1>4. ASSUME NEW m \in Registered, m # Head(registry)
      PROVE  m \in Registered'
  <2>1. PICK i \in 1..Len(registry) : registry[i] = m
    BY DEF Registered
  <2>2. i # 1 /\ i - 1 \in 1..(Len(registry) - 1)
    BY <1>1, <1>4, <2>1
  <2>3. registry'[i - 1] = m
    BY <1>1, <2>1, <2>2
  <2>4. QED
    BY <1>1, <2>2, <2>3 DEF Registered
<1>5. Distinct'
  BY <1>1 DEF Distinct
<1>6. QED
  BY <1>1, <1>2, <1>3, <1>4, <1>5

(***************************************************************************)
(* The inductive invariant                                                 *)
(***************************************************************************)

\* The steps that touch neither the registry nor a library: start-up, the
\* command line, the menu and the rest of the shutdown.
Elsewhere ==
  \/ LoggerInit \/ ConfigLoad \/ LuaInit \/ PluginCommand \/ PluginsDone
  \/ OpenDir \/ ScanDone \/ ChooseMode \/ RunCommandLine
  \/ ChooseItem \/ InvalidChoice \/ LeaveMenu \/ WaitForEnter \/ ExecReturns
  \/ LuaCleanup \/ ConfigCleanup

\* The initial states satisfy the inductive invariant.
LEMMA InitInv == Init => IndInv
<1> SUFFICES ASSUME Init PROVE IndInv
  OBVIOUS
<1>1. registry = <<>> /\ Len(registry) = 0 /\ 1..0 = {}
  BY DEF Init
<1>2. TypeOK
  BY DEF Init, TypeOK, Phase, Unread
<1>3. Registered = {} /\ Live = {}
  BY <1>1 DEF Registered, Live, Init
<1>4. QED
  BY <1>1, <1>2, <1>3
  DEF Init, IndInv, RegistryFits, Distinct, LiveTracked, UnseenClosed,
      CleanupsCounted, PhaseOK, RunsInLiveModule, Phase, RunningOK, LeftoverOK, Closing

\* Who is dispatched to is registered, whatever the dispatch was asked from.
LEMMA Dispatched ==
  ASSUME IndInv, NEW c \in Command, NEW from \in {"plugins", "enter", "modules_cleanup"},
         pc # "plugins" => from # "plugins",
         pc = "plugins" => from = "plugins",
         pc \in {"plugins", "mode", "menu"},
         Dispatch(c, from), UNCHANGED <<config, lua, loadVars, cleanups>>,
         plugins' \subseteq Command, typed' \in Unread,
         from # "enter" => typed' = typed
  PROVE  TypeOK' /\ PhaseOK' /\ RunsInLiveModule' /\ RunningOK' /\ LeftoverOK'
<1>1. registry \in Seq(Lib) /\ TypeOK
  BY DEF IndInv, TypeOK
<1>2. Handler(c) \in Lib \cup {NoLib}
      /\ (Handler(c) # NoLib => Handler(c) \in Registered /\ c \in Offers[Handler(c)])
      /\ (registry = <<>> => Handler(c) = NoLib)
  BY <1>1, HandlerOwns
<1>3. TypeOK'
  BY <1>1, <1>2 DEF Dispatch, TypeOK, Phase, loadVars
<1>4. pc = "plugins" => registry = <<>>
  BY DEF IndInv, PhaseOK
<1>5. Configured /\ Configured'
  BY DEF IndInv, PhaseOK, Phase, Configured
<1>6. PhaseOK'
  BY <1>2, <1>4, <1>5 DEF Dispatch, PhaseOK, loadVars
<1>7. \A l \in Registered : lib[l] = "ready"
  BY DEF IndInv, LiveTracked, Live
<1>8. Registered' = Registered
  BY DEF Registered, loadVars
<1>9. RunsInLiveModule'
  BY <1>2, <1>4, <1>7, <1>8 DEF Dispatch, RunsInLiveModule, loadVars
<1>10. RunningOK' /\ LeftoverOK'
  BY DEF Dispatch, RunningOK, LeftoverOK, Closing, IndInv, TypeOK
<1>11. QED
  BY <1>3, <1>6, <1>9, <1>10

\* The steps elsewhere preserve what is said of main and of the dispatch.
LEMMA ElsewhereMain ==
  ASSUME IndInv, Elsewhere
  PROVE  TypeOK' /\ PhaseOK' /\ RunsInLiveModule' /\ RunningOK' /\ LeftoverOK'
<1>1. CASE PluginCommand
  BY <1>1, Dispatched DEF PluginCommand, IndInv, TypeOK
<1>2. CASE RunCommandLine
  BY <1>2, Dispatched DEF RunCommandLine, IndInv, TypeOK, startVars
<1>3. CASE ChooseItem
  <2>1. PICK m \in Registered : \E c \in Offers[m] : Dispatch(c, "enter")
    BY <1>3 DEF ChooseItem
  <2>2. PICK c \in Offers[m] : Dispatch(c, "enter")
    BY <2>1
  <2>3. c \in Command
    <3>1. m \in Lib
      BY DEF IndInv, LiveTracked, Live
    <3>2. QED
      BY <3>1, OffersAssumption
  <2>4. QED
    BY <1>3, <2>2, <2>3, Dispatched DEF ChooseItem, ReadLine, IndInv, TypeOK, startVars
<1>4. CASE ExecReturns
  <2>1. entry \in {"enter", "modules_cleanup"}
    BY <1>4 DEF ExecReturns, Goto, IndInv, RunsInLiveModule, TypeOK
  <2>2. QED
    BY <1>4, <2>1
    DEF ExecReturns, Goto, startVars, loadVars, IndInv, TypeOK, PhaseOK, Phase,
        Configured, RunsInLiveModule, RunningOK, LeftoverOK, Closing
<1>5. CASE LoggerInit
  BY <1>5 DEF LoggerInit, startVars, loadVars, execVars, IndInv, TypeOK, PhaseOK, Phase,
              Configured, RunsInLiveModule, RunningOK, LeftoverOK, Closing
<1>6. CASE ConfigLoad
  BY <1>6 DEF ConfigLoad, Goto, loadVars, execVars, IndInv, TypeOK, PhaseOK, Phase,
              Configured, RunsInLiveModule, RunningOK, LeftoverOK, Closing
<1>7. CASE LuaInit
  BY <1>7 DEF LuaInit, loadVars, execVars, IndInv, TypeOK, PhaseOK, Phase,
              Configured, RunsInLiveModule, RunningOK, LeftoverOK, Closing
<1>8. CASE PluginsDone \/ ScanDone
  BY <1>8 DEF PluginsDone, ScanDone, Goto, startVars, loadVars, execVars,
              IndInv, TypeOK, PhaseOK, Phase, Configured, RunsInLiveModule,
              RunningOK, LeftoverOK, Closing
<1>9. CASE OpenDir
  BY <1>9 DEF OpenDir, startVars, loadVars, execVars, IndInv, TypeOK, PhaseOK, Phase,
              Configured, RunsInLiveModule, RunningOK, LeftoverOK, Closing
<1>10. CASE ChooseMode
  BY <1>10 DEF ChooseMode, startVars, loadVars, execVars, IndInv, TypeOK, PhaseOK, Phase,
               Configured, RunsInLiveModule, RunningOK, LeftoverOK, Closing
<1>11. CASE InvalidChoice \/ LeaveMenu
  BY <1>11 DEF InvalidChoice, LeaveMenu, ReadLine, Goto, startVars, loadVars, execVars,
               IndInv, TypeOK, PhaseOK, Phase, Configured, RunsInLiveModule,
               RunningOK, LeftoverOK, Closing
<1>12. CASE WaitForEnter
  BY <1>12 DEF WaitForEnter, Unread, Goto, startVars, loadVars, execVars,
               IndInv, TypeOK, PhaseOK, Phase, Configured, RunsInLiveModule,
               RunningOK, LeftoverOK, Closing
<1>13. CASE LuaCleanup \/ ConfigCleanup
  BY <1>13 DEF LuaCleanup, ConfigCleanup, Goto, loadVars, execVars,
               IndInv, TypeOK, PhaseOK, Phase, Configured, RunsInLiveModule,
               RunningOK, LeftoverOK, Closing
<1>14. QED
  BY <1>1, <1>2, <1>3, <1>4, <1>5, <1>6, <1>7, <1>8, <1>9, <1>10, <1>11, <1>12, <1>13
  DEF Elsewhere

\* They leave the modules as they were.
LEMMA ElsewhereModules ==
  ASSUME IndInv, Elsewhere
  PROVE  /\ UNCHANGED <<loadVars, cleanups>>
         /\ RegistryFits' /\ Distinct' /\ LiveTracked' /\ UnseenClosed' /\ CleanupsCounted'
<1>1. UNCHANGED <<loadVars, cleanups>>
  BY DEF Elsewhere, LoggerInit, ConfigLoad, LuaInit, PluginCommand, PluginsDone,
         OpenDir, ScanDone, ChooseMode, RunCommandLine, ChooseItem, InvalidChoice,
         LeaveMenu, WaitForEnter, ExecReturns, LuaCleanup, ConfigCleanup
<1>2. Registered' = Registered /\ Live' = Live
  BY <1>1 DEF loadVars, Registered, Live
<1>3. QED
  BY <1>1, <1>2 DEF loadVars, IndInv, RegistryFits, Distinct, LiveTracked,
                    UnseenClosed, CleanupsCounted

\* Registering an initialised library, or losing it, keeps the invariant.
LEMMA LoadInv ==
  ASSUME IndInv, NEW l \in Lib, LoadStep(l)
  PROVE  IndInv'
<1>1. /\ TypeOK /\ registry \in Seq(Lib) /\ Len(registry) \in Nat /\ capacity \in Nat
      /\ lib \in [Lib -> {"closed", "ready", "cleaned"}]
  BY DEF IndInv, TypeOK
<1>2. /\ pc = "scan" /\ l \in unseen /\ unseen' = unseen \ {l}
      /\ lib[l] = "closed" /\ Configured
      /\ UNCHANGED <<startVars, execVars, typed, cleanups>>
  BY DEF LoadStep, Skipped, LoadAborts, LoadHangs, Register, RegisterFails, Initialised,
         Scan, IndInv, UnseenClosed, PhaseOK, Phase
<1>3. l \notin Registered /\ l \notin dropped
  BY <1>2 DEF IndInv, LiveTracked, Live
<1>4. CASE Skipped(l) \/ LoadAborts(l) \/ LoadHangs(l)
  <2>1. UNCHANGED <<lib, registry, capacity, dropped>> /\ pc' \in {"scan", "aborted", "hung"}
    BY <1>2, <1>4 DEF Skipped, LoadAborts, LoadHangs
  <2>2. Registered' = Registered /\ Live' = Live
    BY <2>1 DEF Registered, Live
  <2>3. TypeOK'
    BY <1>1, <1>2, <2>1 DEF TypeOK, Phase, startVars, execVars
  <2>4. QED
    BY <1>2, <2>1, <2>2, <2>3
    DEF IndInv, RegistryFits, Distinct, LiveTracked, UnseenClosed, CleanupsCounted,
        PhaseOK, Phase, Configured, RunsInLiveModule, RunningOK, LeftoverOK, Closing,
        startVars, execVars
<1>5. CASE Register(l)
  <2>1. /\ lib' = [lib EXCEPT ![l] = "ready"] /\ UNCHANGED <<pc, dropped>>
        /\ registry' = Append(registry, l)
    BY <1>5 DEF Register, Initialised
  <2>2. /\ registry' \in Seq(Lib) /\ Len(registry') = Len(registry) + 1
        /\ \A i \in 1..Len(registry) : registry'[i] = registry[i]
        /\ registry'[Len(registry) + 1] = l
        /\ Registered' = Registered \cup {l}
    BY <1>1, <2>1, Appended
  <2>3. capacity' \in Nat /\ Len(registry') <= capacity'
    BY <1>1, <1>5, <2>2, CapacityAssumption DEF Register, Full, IndInv, RegistryFits
  <2>4. TypeOK'
    BY <1>1, <1>2, <2>1, <2>2, <2>3 DEF TypeOK, startVars, execVars
  <2>5. Distinct'
    <3>1. \A i \in 1..Len(registry) : registry[i] # l
      BY <1>3 DEF Registered
    <3>2. \A i \in 1..Len(registry') : i \in 1..Len(registry) \/ i = Len(registry) + 1
      BY <1>1, <2>2
    <3>3. QED
      BY <2>2, <3>1, <3>2 DEF Distinct, IndInv
  <2>6. Live' = Live \cup {l}
    BY <1>1, <2>1 DEF Live
  <2>7. LiveTracked'
    BY <1>3, <2>1, <2>2, <2>6 DEF LiveTracked, IndInv
  <2>8. UnseenClosed' /\ CleanupsCounted'
    BY <1>1, <1>2, <2>1 DEF UnseenClosed, CleanupsCounted, IndInv
  <2>9. PhaseOK' /\ RunsInLiveModule' /\ RunningOK' /\ LeftoverOK'
    BY <1>2, <2>1 DEF PhaseOK, RunsInLiveModule, RunningOK, LeftoverOK, Closing, Configured,
                      IndInv, startVars, execVars
  <2>10. QED
    BY <2>3, <2>4, <2>5, <2>7, <2>8, <2>9 DEF IndInv, RegistryFits
<1>6. CASE RegisterFails(l)
  <2>1. /\ lib' = [lib EXCEPT ![l] = "ready"] /\ dropped' = dropped \cup {l}
        /\ UNCHANGED <<pc, registry, capacity>>
    BY <1>6 DEF RegisterFails, Initialised
  <2>2. Registered' = Registered /\ Live' = Live \cup {l}
    BY <1>1, <2>1 DEF Registered, Live
  <2>3. TypeOK'
    BY <1>1, <1>2, <2>1 DEF TypeOK, startVars, execVars
  <2>4. LiveTracked'
    BY <1>3, <2>1, <2>2 DEF LiveTracked, IndInv
  <2>5. UnseenClosed' /\ CleanupsCounted'
    BY <1>1, <1>2, <2>1 DEF UnseenClosed, CleanupsCounted, IndInv
  <2>6. QED
    BY <1>2, <2>1, <2>3, <2>4, <2>5
    DEF IndInv, RegistryFits, Distinct, PhaseOK, RunsInLiveModule, RunningOK,
        LeftoverOK, Closing, Configured, startVars, execVars
<1>7. QED
  BY <1>4, <1>5, <1>6 DEF LoadStep

\* Cleaning up one module keeps it.
LEMMA CleanInv ==
  ASSUME IndInv, CleanModule
  PROVE  IndInv'
<1> DEFINE m == Head(registry)
<1>1. /\ TypeOK /\ registry \in Seq(Lib) /\ registry # <<>> /\ capacity \in Nat
      /\ Len(registry) \in Nat
      /\ lib \in [Lib -> {"closed", "ready", "cleaned"}] /\ cleanups \in [Lib -> Nat]
      /\ pc = "modules_cleanup" /\ Configured
  BY DEF IndInv, TypeOK, CleanModule, PhaseOK
<1>2. /\ registry' = Tail(registry)
      /\ cleanups' = [cleanups EXCEPT ![m] = @ + 1]
      /\ lib' = [lib EXCEPT ![m] = "cleaned"]
      /\ UNCHANGED <<pc, startVars, unseen, capacity, dropped, execVars, typed>>
  BY DEF CleanModule
<1>3. /\ m \in Registered /\ registry' \in Seq(Lib) /\ Len(registry') = Len(registry) - 1
      /\ Registered' = Registered \ {m} /\ Distinct'
  BY <1>1, <1>2, HeadTaken DEF IndInv
<1>4. m \in Lib /\ lib[m] = "ready" /\ m \notin dropped /\ cleanups[m] = 0
  BY <1>3 DEF IndInv, LiveTracked, Live, CleanupsCounted
<1> HIDE DEF m
<1>5. TypeOK'
  BY <1>1, <1>2, <1>3, <1>4 DEF TypeOK, startVars, execVars
<1>6. RegistryFits'
  BY <1>1, <1>2, <1>3 DEF IndInv, RegistryFits
<1>7. LiveTracked'
  <2>1. Live' = Live \ {m}
    BY <1>1, <1>2, <1>4 DEF Live
  <2>2. QED
    BY <1>2, <1>3, <1>4, <2>1 DEF IndInv, LiveTracked
<1>8. UnseenClosed' /\ CleanupsCounted'
  BY <1>1, <1>2, <1>4 DEF IndInv, UnseenClosed, CleanupsCounted
<1>9. PhaseOK' /\ RunsInLiveModule' /\ RunningOK' /\ LeftoverOK'
  BY <1>1, <1>2 DEF PhaseOK, RunsInLiveModule, RunningOK, LeftoverOK, Closing, Configured,
                    IndInv, startVars, execVars
<1>10. QED
  BY <1>3, <1>5, <1>6, <1>7, <1>8, <1>9 DEF IndInv

\* So does freeing the empty registry.
LEMMA CleanedInv ==
  ASSUME IndInv, ModulesCleaned
  PROVE  IndInv'
<1>1. /\ registry = <<>> /\ registry' = registry /\ capacity' = 0 /\ Len(registry) = 0
      /\ pc = "modules_cleanup" /\ pc' = "lua_cleanup"
      /\ UNCHANGED <<startVars, unseen, lib, registry, dropped, execVars, typed, cleanups>>
  BY DEF ModulesCleaned, Goto
<1>2. Registered' = Registered /\ Live' = Live
  BY <1>1 DEF Registered, Live
<1>3. TypeOK'
  BY <1>1 DEF IndInv, TypeOK, Phase, startVars, execVars
<1>4. QED
  BY <1>1, <1>2, <1>3
  DEF IndInv, RegistryFits, Distinct, LiveTracked, UnseenClosed, CleanupsCounted,
      PhaseOK, Phase, Configured, RunsInLiveModule, RunningOK, LeftoverOK, Closing,
      startVars, execVars

\* Every step keeps the inductive invariant.
LEMMA NextInv == IndInv /\ [Next]_vars => IndInv'
<1> SUFFICES ASSUME IndInv, [Next]_vars PROVE IndInv'
  OBVIOUS
<1>1. CASE Elsewhere
  BY <1>1, ElsewhereMain, ElsewhereModules DEF IndInv
<1>2. CASE \E l \in Lib : LoadStep(l)
  BY <1>2, LoadInv
<1>3. CASE CleanModule
  BY <1>3, CleanInv
<1>4. CASE ModulesCleaned
  BY <1>4, CleanedInv
<1>5. CASE UNCHANGED vars
  <2>1. Registered' = Registered /\ Live' = Live
    BY <1>5 DEF vars, loadVars, Registered, Live
  <2>2. QED
    BY <1>5, <2>1
    DEF vars, startVars, loadVars, execVars, IndInv, TypeOK, RegistryFits, Distinct,
        LiveTracked, UnseenClosed, CleanupsCounted, PhaseOK, Configured, RunsInLiveModule,
        RunningOK, LeftoverOK, Closing
<1>6. QED
  BY <1>1, <1>2, <1>3, <1>4, <1>5 DEF Next, CoreStep, Elsewhere

\* The inductive invariant holds in every reachable state of the core.
THEOREM Invariant == Spec => []IndInv
BY InitInv, NextInv, PTL DEF Spec

(***************************************************************************)
(* What follows from it                                                    *)
(***************************************************************************)

\* Type correctness.
THEOREM TypeCorrect == Spec => []TypeOK
<1>1. IndInv => TypeOK
  BY DEF IndInv
<1>2. QED
  BY <1>1, Invariant, PTL

\* No module is ever written behind the registry's array (loader.c).
THEOREM NoOverflow == Spec => []RegistryFits
<1>1. IndInv => RegistryFits
  BY DEF IndInv
<1>2. QED
  BY <1>1, Invariant, PTL

\* Registered modules are cleaned up before what their callbacks use is freed,
\* on every path through main.
THEOREM CallbacksOutliveModules == Spec => []CallbacksUsable
<1>1. IndInv => CallbacksUsable
  <2>1. SUFFICES ASSUME IndInv, NEW l \in Live \ dropped
                 PROVE  Configured /\ pc \notin {"lua_cleanup", "config_cleanup", "exited"}
    BY DEF CallbacksUsable, Configured
  <2>2. l \in Registered
    BY <2>1 DEF IndInv, LiveTracked
  <2>3. registry # <<>>
    <3>1. ASSUME registry = <<>> PROVE FALSE
      <4>1. Len(registry) = 0 /\ 1..0 = {}
        BY <3>1
      <4>2. QED
        BY <2>2, <4>1 DEF Registered
    <3>2. QED
      BY <3>1
  <2>4. QED
    BY <2>1, <2>3 DEF IndInv, PhaseOK
<1>2. QED
  BY <1>1, Invariant, PTL

\* module_cleanup never runs twice in a module, and the initialised modules in
\* which it has not run when main ends are those that were not registered for
\* lack of memory: nothing else leads to a module that is left behind.
THEOREM CleansOnce == Spec => []CleanedOnceButDropped
<1>1. IndInv => CleanedOnceButDropped
  <2>1. SUFFICES ASSUME IndInv PROVE CleanedOnceButDropped
    OBVIOUS
  <2>2. ASSUME pc = "exited" PROVE Live = dropped
    <3>1. registry = <<>>
      BY <2>1, <2>2 DEF IndInv, PhaseOK
    <3>2. Registered = {}
      <4>1. Len(registry) = 0 /\ 1..0 = {}
        BY <3>1
      <4>2. QED
        BY <4>1 DEF Registered
    <3>3. QED
      BY <2>1, <3>2 DEF IndInv, LiveTracked
  <2>3. QED
    BY <2>1, <2>2 DEF IndInv, CleanupsCounted, CleanedOnceButDropped
<1>2. QED
  BY <1>1, Invariant, PTL

\* A command runs in a mapped, initialised module that lists it.
THEOREM RunsLive == Spec => []RunsInLiveModule
<1>1. IndInv => RunsInLiveModule
  BY DEF IndInv
<1>2. QED
  BY <1>1, Invariant, PTL

\* What is left of a long answer is never taken for a choice of the menu.
THEOREM LeftoversDropped == Spec => []NoLeftoverChoice
<1>1. IndInv => NoLeftoverChoice
  BY DEF IndInv, TypeOK, Unread, LeftoverOK, Closing, NoLeftoverChoice
<1>2. QED
  BY <1>1, Invariant, PTL

\* A module that is registered later takes no command over.
LEMMA OwnerStays ==
  ASSUME IndInv, NEW l \in Lib, registry' = Append(registry, l),
         NEW c \in Command, Handler(c) # NoLib
  PROVE  Handler(c)' = Handler(c)
<1>1. /\ registry \in Seq(Lib) /\ Len(registry) \in Nat
      /\ Len(registry') = Len(registry) + 1
      /\ \A i \in 1..Len(registry) : registry'[i] = registry[i]
  <2>1. registry \in Seq(Lib)
    BY DEF IndInv, TypeOK
  <2>2. QED
    BY <2>1, Appended
<1>2. Handlers(c) # {}
  BY DEF Handler
<1>3. PICK i \in Handlers(c) : /\ Handler(c) = registry[i]
                               /\ \A j \in Handlers(c) : i <= j
  BY <1>2, HandlerFound
<1>4. i \in Nat /\ i <= Len(registry) /\ registry'[i] = registry[i]
  BY <1>1 DEF Handlers
<1>5. /\ i \in Handlers(c)'
      /\ \A j \in Handlers(c)' : j \in Nat /\ i <= j
  BY <1>1, <1>3, <1>4 DEF Handlers
<1>6. \A k \in Handlers(c)' : (\A j \in Handlers(c)' : k <= j) => k = i
  BY <1>5
<1>7. Handlers(c)' # {}
  BY <1>5
<1>8. (CHOOSE k \in Handlers(c)' : \A j \in Handlers(c)' : k <= j) = i
  BY <1>5, <1>6
<1>9. Handler(c)' = registry'[i]
  BY <1>7, <1>8 DEF Handler
<1>10. QED
  BY <1>3, <1>4, <1>9

\* The owner of a command stays its owner until the modules are cleaned up.
THEOREM OwnersKept == Spec => OwnerKeepsCommand
<1>1. IndInv /\ [Next]_vars =>
        [\A c \in Command :
           Handler(c) # NoLib /\ pc # "modules_cleanup" => Handler(c)' = Handler(c)]_vars
  <2>1. SUFFICES ASSUME IndInv, Next, NEW c \in Command,
                        Handler(c) # NoLib, pc # "modules_cleanup"
                 PROVE  Handler(c)' = Handler(c)
    OBVIOUS
  <2>2. CASE registry' = registry
    BY <2>2 DEF Handler, Handlers
  <2>3. CASE \E l \in Lib : registry' = Append(registry, l)
    BY <2>1, <2>3, OwnerStays
  <2>4. CASE Elsewhere
    BY <2>1, <2>2, <2>4, ElsewhereModules DEF loadVars
  <2>5. CASE \E l \in Lib : LoadStep(l)
    BY <2>2, <2>3, <2>5 DEF LoadStep, Skipped, LoadAborts, LoadHangs, Register, RegisterFails
  <2>6. CASE CleanModule \/ ModulesCleaned
    BY <2>1, <2>6 DEF CleanModule, ModulesCleaned, Goto
  <2>7. QED
    BY <2>1, <2>4, <2>5, <2>6 DEF Next, CoreStep, Elsewhere
<1>2. QED
  BY <1>1, Invariant, PTL DEF Spec, OwnerKeepsCommand

(***************************************************************************)
(* The core keeps the promise of ModuleHost                                *)
(***************************************************************************)

\* A command that nobody lists is taken by the module that is registered next,
\* when that one lists it.
LEMMA OwnerAdded ==
  ASSUME IndInv, NEW l \in Lib, registry' = Append(registry, l),
         NEW c \in Command, Handler(c) = NoLib
  PROVE  Handler(c)' = IF c \in Offers[l] THEN l ELSE NoLib
<1>1. /\ registry \in Seq(Lib) /\ Len(registry) \in Nat
      /\ Len(registry') = Len(registry) + 1
      /\ \A i \in 1..Len(registry) : registry'[i] = registry[i]
      /\ registry'[Len(registry) + 1] = l
  <2>1. registry \in Seq(Lib)
    BY DEF IndInv, TypeOK
  <2>2. QED
    BY <2>1, Appended
<1>2. Handlers(c) = {}
  <2>1. ASSUME Handlers(c) # {} PROVE FALSE
    <3>1. PICK i \in Handlers(c) : Handler(c) = registry[i]
      BY <2>1, HandlerFound
    <3>2. registry[i] \in Lib
      BY <1>1, <3>1 DEF Handlers
    <3>3. QED
      BY <3>1, <3>2, NoLibAssumption
  <2>2. QED
    BY <2>1
<1>3. CASE c \in Offers[l]
  <2>1. Handlers(c)' = {Len(registry) + 1}
    BY <1>1, <1>2, <1>3 DEF Handlers
  <2>2. (CHOOSE k \in Handlers(c)' : \A j \in Handlers(c)' : k <= j) = Len(registry) + 1
    BY <1>1, <2>1
  <2>3. QED
    BY <1>1, <1>3, <2>1, <2>2 DEF Handler
<1>4. CASE c \notin Offers[l]
  <2>1. Handlers(c)' = {}
    BY <1>1, <1>2, <1>4 DEF Handlers
  <2>2. QED
    BY <1>4, <2>1 DEF Handler
<1>5. QED
  BY <1>3, <1>4

\* The first state of the core is a host without modules.
LEMMA HostStarts == Init => Host!Init
<1> SUFFICES ASSUME Init PROVE Host!Init
  OBVIOUS
<1>1. Live = {} /\ running = NoLib
  BY DEF Init, Live
<1>2. \A c \in Command : Handler(c) = NoLib
  <2>1. registry = <<>> /\ registry \in Seq(Lib)
    BY DEF Init
  <2>2. QED
    BY <2>1, HandlerOwns
<1>3. Owner = [c \in Command |-> NoLib]
  BY <1>2 DEF Owner
<1>4. QED
  BY <1>1, <1>3 DEF Host!Init, Host!Nobody

\* A step that leaves the modules alone and runs nothing changes the host at
\* most by closing it.
LEMMA HostKeptOrClosed ==
  ASSUME UNCHANGED <<registry, lib>>, running = NoLib, running' = NoLib,
         pc \in Closing => pc' \in Closing
  PROVE  Host!Close \/ UNCHANGED <<Live, Owner, running>>
<1>1. Live' = Live /\ \A c \in Command : Handler(c)' = Handler(c)
  BY DEF Live, Handler, Handlers
<1>2. CASE pc' \in Closing
  BY <1>1, <1>2 DEF Owner, Host!Close, Host!Nobody
<1>3. CASE pc' \notin Closing
  BY <1>1, <1>3 DEF Owner
<1>4. QED
  BY <1>2, <1>3

\* A dispatch runs the command in its owner, or finds none.
LEMMA HostDispatches ==
  ASSUME IndInv, NEW c \in Command, NEW from, Dispatch(c, from),
         UNCHANGED <<registry, lib>>, pc \notin Closing, running = NoLib
  PROVE  Host!Next \/ UNCHANGED <<Live, Owner, running>>
<1>1. CASE Handler(c) = NoLib
  BY <1>1, HostKeptOrClosed DEF Dispatch, Host!Next
<1>2. CASE Handler(c) # NoLib
  <2>1. Handler(c) \in Live
    BY <1>2, HandlerOwns DEF IndInv, TypeOK, LiveTracked
  <2>2. pc' \notin Closing /\ running' = Handler(c)
    BY <1>2 DEF Dispatch, Closing
  <2>3. Live' = Live /\ \A d \in Command : Handler(d)' = Handler(d)
    BY DEF Live, Handler, Handlers
  <2>4. Owner' = Owner /\ Owner[c] = Handler(c)
    BY <2>2, <2>3 DEF Owner
  <2>5. Host!Run(c)
    BY <2>1, <2>2, <2>3, <2>4 DEF Host!Run
  <2>6. QED
    BY <2>5 DEF Host!Next
<1>3. QED
  BY <1>1, <1>2

\* The steps that leave the registry alone.
LEMMA HostElsewhere ==
  ASSUME IndInv, Elsewhere
  PROVE  Host!Next \/ UNCHANGED <<Live, Owner, running>>
<1>1. UNCHANGED <<registry, lib>>
  BY ElsewhereModules DEF loadVars
<1>2. CASE PluginCommand \/ RunCommandLine
  <2>1. pc \notin Closing /\ running = NoLib
    BY <1>2 DEF PluginCommand, RunCommandLine, Closing, IndInv, RunningOK
  <2>2. PICK c \in Command : \E from \in {"plugins", "modules_cleanup"} : Dispatch(c, from)
    BY <1>2 DEF PluginCommand, RunCommandLine, IndInv, TypeOK
  <2>3. QED
    BY <1>1, <2>1, <2>2, HostDispatches
<1>3. CASE ChooseItem
  <2>1. pc \notin Closing /\ running = NoLib
    BY <1>3 DEF ChooseItem, Closing, IndInv, RunningOK
  <2>2. PICK m \in Registered : \E c \in Offers[m] : Dispatch(c, "enter")
    BY <1>3 DEF ChooseItem
  <2>3. Offers[m] \subseteq Command
    BY OffersAssumption DEF IndInv, LiveTracked, Live
  <2>4. QED
    BY <1>1, <2>1, <2>2, <2>3, HostDispatches
<1>4. CASE ExecReturns
  <2>1. pc = "exec" /\ pc' = entry /\ running' = NoLib
    BY <1>4 DEF ExecReturns, Goto
  <2>2. running # NoLib
    BY <2>1, NoLibAssumption DEF IndInv, RunsInLiveModule, LiveTracked, Live
  <2>3. Live' = Live /\ \A c \in Command : Handler(c)' = Handler(c)
    BY <1>1 DEF Live, Handler, Handlers
  <2>4. Owner' \in {Owner, Host!Nobody}
    BY <2>1, <2>3 DEF Owner, Host!Nobody, Closing
  <2>5. QED
    BY <2>1, <2>2, <2>3, <2>4 DEF Host!Next, Host!Return
<1>5. CASE \/ LoggerInit \/ ConfigLoad \/ LuaInit \/ PluginsDone \/ OpenDir \/ ScanDone
           \/ ChooseMode \/ InvalidChoice \/ LeaveMenu \/ WaitForEnter
           \/ LuaCleanup \/ ConfigCleanup
  <2>1. UNCHANGED running /\ pc \notin {"exec", "aborted"}
        /\ (pc \in Closing => pc' \in Closing)
    BY <1>5 DEF LoggerInit, ConfigLoad, LuaInit, PluginsDone, OpenDir, ScanDone, ChooseMode,
                InvalidChoice, LeaveMenu, WaitForEnter, LuaCleanup, ConfigCleanup,
                Goto, Closing, execVars
  <2>2. running = NoLib /\ running' = NoLib
    BY <2>1 DEF IndInv, RunningOK
  <2>3. QED
    BY <1>1, <2>1, <2>2, HostKeptOrClosed DEF Host!Next
<1>6. QED
  BY <1>2, <1>3, <1>4, <1>5 DEF Elsewhere

\* A library that is loaded becomes a module of the host; what its scan does
\* otherwise the host does not see.
LEMMA HostLoads ==
  ASSUME IndInv, NEW l \in Lib, LoadStep(l)
  PROVE  Host!Next \/ UNCHANGED <<Live, Owner, running>>
<1>1. /\ pc = "scan" /\ l \in unseen /\ UNCHANGED running
      /\ pc' \in {"scan", "aborted", "hung"}
  BY DEF LoadStep, Skipped, LoadAborts, LoadHangs, Register, RegisterFails, Initialised,
         Scan, execVars
<1>2. pc \notin Closing /\ pc' \notin Closing /\ running = NoLib
  BY <1>1 DEF Closing, IndInv, RunningOK
<1>3. CASE Skipped(l) \/ LoadAborts(l) \/ LoadHangs(l)
  <2>1. UNCHANGED <<registry, lib>>
    BY <1>3 DEF Skipped, LoadAborts, LoadHangs
  <2>2. QED
    BY <1>1, <1>2, <2>1, HostKeptOrClosed DEF Host!Next
<1>4. CASE Register(l) \/ RegisterFails(l)
  <2>1. l \notin Live /\ lib' = [lib EXCEPT ![l] = "ready"]
    BY <1>1, <1>4 DEF Register, RegisterFails, Initialised, IndInv, UnseenClosed, Live
  <2>2. Live' = Live \cup {l}
    BY <2>1 DEF Live, IndInv, TypeOK
  <2>3. \/ Owner' = Owner
        \/ Owner' = [c \in Command |-> IF Owner[c] = NoLib /\ c \in Offers[l]
                                       THEN l ELSE Owner[c]]
    <3>1. CASE RegisterFails(l)
      <4>1. registry' = registry
        BY <3>1 DEF RegisterFails
      <4>2. \A c \in Command : Handler(c)' = Handler(c)
        BY <4>1 DEF Handler, Handlers
      <4>3. QED
        BY <1>2, <4>2 DEF Owner
    <3>2. CASE Register(l)
      <4>1. registry' = Append(registry, l)
        BY <3>2 DEF Register
      <4>2. ASSUME NEW c \in Command
            PROVE  Handler(c)' = IF Handler(c) = NoLib /\ c \in Offers[l]
                                 THEN l ELSE Handler(c)
        BY <4>1, OwnerStays, OwnerAdded
      <4>3. \A c \in Command : Owner[c] = Handler(c)
        BY <1>2 DEF Owner
      <4>4. QED
        BY <1>2, <4>2, <4>3 DEF Owner
    <3>3. QED
      BY <1>4, <3>1, <3>2
  <2>4. Host!Load(l)
    BY <1>1, <1>2, <2>1, <2>2, <2>3 DEF Host!Load
  <2>5. QED
    BY <2>4 DEF Host!Next
<1>5. QED
  BY <1>3, <1>4 DEF LoadStep

\* A module is cleaned up when the host has closed.
LEMMA HostUnloads ==
  ASSUME IndInv, CleanModule \/ ModulesCleaned
  PROVE  Host!Next \/ UNCHANGED <<Live, Owner, running>>
<1>1. /\ pc \in Closing /\ pc' \in Closing /\ running = NoLib /\ running' = NoLib
  BY DEF CleanModule, ModulesCleaned, Goto, Closing, execVars, IndInv, RunningOK
<1>2. Owner = Host!Nobody /\ Owner' = Host!Nobody
  BY <1>1 DEF Owner, Host!Nobody
<1>3. CASE CleanModule
  <2>1. Head(registry) \in Registered /\ lib' = [lib EXCEPT ![Head(registry)] = "cleaned"]
    BY <1>3, HeadTaken DEF CleanModule, IndInv, TypeOK
  <2>2. Head(registry) \in Live
    BY <2>1 DEF IndInv, LiveTracked
  <2>3. Live' = Live \ {Head(registry)}
    BY <2>1, <2>2 DEF Live, IndInv, TypeOK
  <2>4. Host!Unload(Head(registry))
    BY <1>1, <1>2, <2>2, <2>3 DEF Host!Unload
  <2>5. Head(registry) \in Lib
    BY <2>2 DEF Live
  <2>6. QED
    BY <2>4, <2>5 DEF Host!Next
<1>4. CASE ModulesCleaned
  BY <1>1, <1>2, <1>4 DEF ModulesCleaned, Live
<1>5. QED
  BY <1>3, <1>4

\* The core implements ModuleHost: the first module that lists a command owns it
\* until the host closes, a command runs in its owner and alone, and no module is
\* cleaned up before that.
THEOREM KeepsHost == Spec => RefinesHost
<1>1. IndInv /\ [Next]_vars => [Host!Next]_(Host!vars)
  <2>1. SUFFICES ASSUME IndInv, [Next]_vars
                 PROVE  Host!Next \/ UNCHANGED <<Live, Owner, running>>
    BY DEF Host!vars
  <2>2. CASE Elsewhere
    BY <2>1, <2>2, HostElsewhere
  <2>3. CASE \E l \in Lib : LoadStep(l)
    BY <2>1, <2>3, HostLoads
  <2>4. CASE CleanModule \/ ModulesCleaned
    BY <2>1, <2>4, HostUnloads
  <2>5. CASE UNCHANGED vars
    BY <2>5 DEF vars, loadVars, execVars, Live, Owner, Handler, Handlers
  <2>6. QED
    BY <2>1, <2>2, <2>3, <2>4, <2>5 DEF Next, CoreStep, Elsewhere
<1>2. QED
  BY <1>1, HostStarts, Invariant, PTL DEF Spec, RefinesHost, Host!Spec
-----------------------------------------------------------------------------
(***************************************************************************)
(* main goes one way                                                       *)
(***************************************************************************)

\* The order of main.  The menu, a command and the wait behind it are one place.
Order ==
  [logger_init |-> 0, config_load |-> 1, lua_init |-> 2, plugins |-> 3, opendir |-> 4,
   scan |-> 5, mode |-> 6, menu |-> 7, enter |-> 7, exec |-> 7,
   modules_cleanup |-> 8, lua_cleanup |-> 9, config_cleanup |-> 10,
   exited |-> 11, hung |-> 11, aborted |-> 11]

\* What a loop of main repeats: each time there is less to do, in the loops
\* over the plugins' commands, the directory and the registry.  Only the menu goes
\* on for as long as its user does.
LessToDo ==
  \/ pc = "plugins" /\ plugins' \subseteq plugins /\ plugins' # plugins
  \/ pc = "scan" /\ unseen' \subseteq unseen /\ unseen' # unseen
  \/ pc = "modules_cleanup" /\ Len(registry') < Len(registry)
  \/ pc \in {"menu", "enter", "exec"} /\ pc' \in {"menu", "enter", "exec"}

\* No step leads main back, whatever fails and whatever modules and plugins do.
MainGoesOn == [][Order[pc'] > Order[pc] \/ (Order[pc'] = Order[pc] /\ LessToDo)]_vars

\* The safety half of WaitsOrEnds, for any number of libraries and commands:
\* outside the menu main has finitely many steps.
THEOREM GoesOn == Spec => MainGoesOn
<1>1. ASSUME IndInv, Next
      PROVE  Order[pc'] > Order[pc] \/ (Order[pc'] = Order[pc] /\ LessToDo)
  <2>1. CASE \/ LoggerInit \/ ConfigLoad \/ LuaInit \/ PluginsDone \/ OpenDir
             \/ ScanDone \/ ChooseMode \/ LeaveMenu \/ ModulesCleaned \/ LuaCleanup
             \/ ConfigCleanup
    BY <2>1 DEF LoggerInit, ConfigLoad, LuaInit, PluginsDone, OpenDir, ScanDone,
                ChooseMode, LeaveMenu, ModulesCleaned, LuaCleanup, ConfigCleanup, Goto,
                Order
  <2>2. CASE PluginCommand
    <3>1. /\ pc = "plugins" /\ plugins' \subseteq plugins /\ plugins' # plugins
          /\ pc' \in {"plugins", "exec", "aborted"}
      BY <2>2 DEF PluginCommand, Dispatch
    <3>2. QED
      BY <3>1 DEF Order, LessToDo
  <2>3. CASE \E l \in Lib : LoadStep(l)
    <3>1. /\ pc = "scan" /\ unseen' \subseteq unseen /\ unseen' # unseen
          /\ pc' \in {"scan", "hung", "aborted"}
      BY <2>3 DEF LoadStep, Skipped, LoadAborts, LoadHangs, Register, RegisterFails,
                  Initialised, Scan
    <3>2. QED
      BY <3>1 DEF Order, LessToDo
  <2>4. CASE RunCommandLine \/ ChooseItem
    <3>1. /\ pc \in {"mode", "menu"}
          /\ \/ pc = "mode" /\ pc' \in {"modules_cleanup", "exec", "aborted"}
             \/ pc = "menu" /\ pc' \in {"enter", "exec", "aborted"}
      BY <2>4 DEF RunCommandLine, ChooseItem, Dispatch
    <3>2. QED
      BY <3>1 DEF Order, LessToDo
  <2>5. CASE InvalidChoice \/ WaitForEnter
    BY <2>5 DEF InvalidChoice, WaitForEnter, Goto, Order, LessToDo
  <2>6. CASE ExecReturns
    <3>1. pc = "exec" /\ pc' \in {"enter", "modules_cleanup"}
      BY <1>1, <2>6 DEF ExecReturns, Goto, IndInv, RunsInLiveModule
    <3>2. QED
      BY <3>1 DEF Order, LessToDo
  <2>7. CASE CleanModule
    <3>1. pc = "modules_cleanup" /\ pc' = pc
      BY <2>7 DEF CleanModule
    <3>2. registry \in Seq(Lib) /\ registry # <<>> /\ registry' = Tail(registry)
      BY <1>1, <2>7 DEF CleanModule, IndInv, TypeOK
    <3>3. Len(registry') < Len(registry)
      BY <3>2, HeadTailProperties
    <3>4. QED
      BY <3>1, <3>3 DEF LessToDo
  <2>8. QED
    BY <1>1, <2>1, <2>2, <2>3, <2>4, <2>5, <2>6, <2>7 DEF Next, CoreStep
<1>2. IndInv /\ [Next]_vars =>
        [Order[pc'] > Order[pc] \/ (Order[pc'] = Order[pc] /\ LessToDo)]_vars
  BY <1>1
<1>3. QED
  BY <1>2, Invariant, PTL DEF Spec, MainGoesOn
=============================================================================
