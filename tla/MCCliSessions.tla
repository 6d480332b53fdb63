--------------------------- MODULE MCCliSessions ---------------------------
(* Four parts of which  one moves in a behaviour: the queue of the one-shot  *)
(* CLIs, with three turns that resume the same vendor session and a fresh    *)
(* one with a key of its own, the worktrees of a run, the page and its setup *)
(* dialog. A part that rests keeps its initial state, in which no fair       *)
(* action is enabled.                                                        *)
EXTENDS CliSessions, Worktrees, WebPage, SetupDialog

CONSTANTS r1, r2, r3, r4, resumed, fresh, w1, w2

VARIABLE part

MCKeyOf == [r \in Runs |-> IF r = r4 THEN fresh ELSE resumed]

(* Two runs of one workspace and one of another.                             *)
MCOwner == <<w1, w1, w2>>

PartInit ==
    /\ part \in {"cli", "worktrees", "page", "dialog"}
    /\ Init /\ WorktreesInit /\ PageInit /\ DialogInit
    /\ part # "dialog" => mode = "device"
PartNext ==
    \/ part = "cli" /\ Next /\ UNCHANGED <<part, worktreeVars, pageVars, dialogVars>>
    \/ part = "worktrees" /\ WorktreesNext /\ UNCHANGED <<part, vars, pageVars, dialogVars>>
    \/ part = "page" /\ PageNext /\ UNCHANGED <<part, vars, worktreeVars, dialogVars>>
    \/ part = "dialog" /\ DialogNext /\ UNCHANGED <<part, vars, worktreeVars, pageVars>>
PartSpec ==
    /\ PartInit
    /\ [][PartNext]_<<part, vars, worktreeVars, pageVars, dialogVars>>
    /\ \A r \in Runs : WF_vars(KillFallback(r))
=============================================================================
