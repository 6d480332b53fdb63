----------------------------- MODULE MCRunAlone ------------------------------
(* What needs no fairness, in one run: a run without an orchestrator, the    *)
(* store of the runs with its crashes, the start and stop scripts, the       *)
(* desktop shell, the managed runtime of a family and the parts of MCParts.  *)
(* One part moves in a behaviour, the others rest in their initial states.   *)
EXTENDS MCRunEngine, MCParts, RunStore, Launcher, DesktopShell, ManagedRuntimes

aloneVars == <<part, vars, storeVars, launcherVars, shellVars, runtimeVars, partsVars>>

AloneInit ==
    /\ part \in {"engine", "store", "scripts", "shell", "runtimes"} \cup PartNames
    /\ Init /\ StoreInit /\ LauncherInit /\ ShellInit
    /\ RuntimesInit /\ (part # "runtimes" => dir = "none" /\ ~onPath)
    /\ PartsInit

AloneNext ==
    \/ /\ part = "engine" /\ Next
       /\ UNCHANGED <<part, storeVars, launcherVars, shellVars, runtimeVars, partsVars>>
    \/ /\ part = "store" /\ StoreNext
       /\ UNCHANGED <<part, vars, launcherVars, shellVars, runtimeVars, partsVars>>
    \/ /\ part = "scripts" /\ LauncherNext
       /\ UNCHANGED <<part, vars, storeVars, shellVars, runtimeVars, partsVars>>
    \/ /\ part = "shell" /\ ShellNext
       /\ UNCHANGED <<part, vars, storeVars, launcherVars, runtimeVars, partsVars>>
    \/ /\ part = "runtimes" /\ RuntimesNext
       /\ UNCHANGED <<part, vars, storeVars, launcherVars, shellVars, partsVars>>
    \/ /\ PartsNext
       /\ UNCHANGED <<part, vars, storeVars, launcherVars, shellVars, runtimeVars>>

AloneSpec == AloneInit /\ [][AloneNext]_aloneVars

(* Every variable of the parts around the engine has its type.               *)
AloneTypeOK ==
    /\ part = "store" => StoreTypeOK
    /\ part = "scripts" => LauncherTypeOK
    /\ part = "shell" => ShellTypeOK
    /\ part = "runtimes" => RuntimesTypeOK
    /\ PartsTypeOK
=============================================================================
