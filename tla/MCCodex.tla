------------------------------ MODULE MCCodex -------------------------------
(* Two turns of one resumed session, the first of which may be killed.       *)
EXTENDS CodexThreads

CONSTANTS t1, t2, thread

MCTurns     == {t1, t2}
MCSessionOf == [t \in MCTurns |-> thread]
=============================================================================
