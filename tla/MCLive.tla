------------------------------- MODULE MCLive --------------------------------
(* What is kept live while turns and pages come and go, in one run: the feed *)
(* of a run's events to a page, and the queries of claude. One part moves in *)
(* a behaviour, the other rests in its initial state, in which none of its   *)
(* fair actions is enabled.                                                  *)
EXTENDS EventFeed, ClaudeSessions

CONSTANTS t1, t2, t3, a, b

VARIABLE part

(* Three turns of one session of claude.                                     *)
MCTurns     == {t1, t2, t3}
MCSessionOf == [t \in MCTurns |-> a]

Init == part \in {"feed", "claude"} /\ FeedInit /\ ClaudeInit
Next ==
    \/ part = "feed"   /\ FeedNext   /\ UNCHANGED <<part, claudeVars>>
    \/ part = "claude" /\ ClaudeNext /\ UNCHANGED <<part, feedVars>>
Spec ==
    /\ Init /\ [][Next]_<<part, feedVars, claudeVars>>
    /\ FeedFairness /\ ClaudeFairness
=============================================================================
