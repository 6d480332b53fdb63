--------------------------- MODULE AttemptEvidence ----------------------------
(* The lines one attempt leaves in the event log: runNode (nodeRunner.ts)    *)
(* writes them, ProviderTurnBridge (providers/contract.ts) turns what a      *)
(* provider's transport says into them. A transport may already speak while  *)
(* it is being spawned; the log shows that only after the attempt's own      *)
(* `spawned` and `running`. The mock provider has no bridge.                 *)
EXTENDS Naturals, Sequences, FiniteSets

CONSTANTS MaxContents,  \* bound: contents a transport sends
          MaxStalls     \* bound: silences long enough to stall

ASSUME EvidenceAssumption == MaxContents \in Nat /\ MaxStalls \in Nat

VARIABLES
    provider,      \* "real" or "mock"
    attemptPhase,  \* where runNode is
    log,           \* the attempt's lines
    buffer,        \* pendingProviderEvidence
    ended,         \* the bridge has had its turn-end
    answered,      \* responded: the first content has arrived
    open,          \* anonymousToolIds
    tools,         \* toolSequence
    nodeStatus,    \* NodeRun.status
    stall,         \* stallTimer
    stalls, said

evidenceVars == <<provider, attemptPhase, log, buffer, ended, answered, open, tools,
                  nodeStatus, stall, stalls, said>>

(* A line: what it is and, for a tool, its id. `working` and `resting` are   *)
(* the provider's status while it streams and when the turn is finished.     *)
Line(kind, tool) == [kind |-> kind, tool |-> tool]
Own      == {"spawned", "running", "stalled", "recovered", "error", "result"}
Provided == {"working", "resting", "message", "use", "answer"}

EvidenceTypeOK ==
    /\ provider \in {"real", "mock"}
    /\ attemptPhase \in {"idle", "spawning", "live", "settled", "over"}
    /\ log \in Seq([kind : Own \cup Provided, tool : Nat])
    /\ buffer \in Seq([kind : Provided, tool : Nat])
    /\ ended \in BOOLEAN /\ answered \in BOOLEAN
    /\ open \in Seq(Nat) /\ tools \in Nat
    /\ nodeStatus \in {"queued", "running", "stalled", "ended", "failed"}
    /\ stall \in BOOLEAN /\ stalls \in 0..MaxStalls /\ said \in 0..MaxContents

EvidenceInit ==
    /\ provider \in {"real", "mock"} /\ attemptPhase = "idle"
    /\ log = <<>> /\ buffer = <<>> /\ ended = FALSE /\ answered = FALSE
    /\ open = <<>> /\ tools = 0 /\ nodeStatus = "queued" /\ stall = FALSE
    /\ stalls = 0 /\ said = 0

-----------------------------------------------------------------------------
(* receiveContent, receiveTechnical: kept back until the attempt is live;    *)
(* afterwards a line takes a stalled mark back and restarts the stall timer. *)
Recovery == IF nodeStatus = "stalled" THEN <<Line("recovered", 0)>> ELSE <<>>
Unbuffered(lines) ==
    /\ log' = log \o lines /\ UNCHANGED <<buffer, nodeStatus, stall>>
Receive(lines) ==
    IF attemptPhase = "spawning"
    THEN buffer' = buffer \o lines /\ UNCHANGED <<log, nodeStatus, stall>>
    ELSE /\ log' = log \o Recovery \o lines
         /\ nodeStatus' = "running" /\ stall' = TRUE /\ UNCHANGED buffer

(* responded: the first content of a turn changes the provider's status.     *)
Preface == IF provider = "real" /\ ~answered THEN <<Line("working", 0)>> ELSE <<>>

(* acceptContent: a message, or a tool with its own id, which pass through;  *)
(* a use without an id, which is given one; an answer without an id, which   *)
(* belongs to the oldest such use that has none, or to a tool nobody named.  *)
Content ==
    /\ attemptPhase \in {"spawning", "live"} /\ said < MaxContents /\ said' = said + 1
    /\ answered' = TRUE
    /\ \/ Receive(Preface \o <<Line("message", 0)>>) /\ UNCHANGED <<open, tools>>
       \/ /\ provider = "real"
          /\ tools' = tools + 1 /\ open' = Append(open, tools + 1)
          /\ Receive(Preface \o <<Line("use", tools + 1)>>)
       \/ /\ provider = "real" /\ open # <<>>
          /\ open' = Tail(open) /\ UNCHANGED tools
          /\ Receive(Preface \o <<Line("answer", Head(open))>>)
       \/ /\ provider = "real" /\ open = <<>>
          /\ tools' = tools + 1 /\ UNCHANGED open
          /\ Receive(Preface \o <<Line("answer", tools + 1)>>)
    /\ UNCHANGED <<provider, attemptPhase, ended, stalls>>

(* onRaw: an activity, once the attempt is live.                             *)
Raw ==
    /\ attemptPhase = "live" /\ Receive(<<>>)
    /\ UNCHANGED <<provider, attemptPhase, ended, answered, open, tools, stalls, said>>

-----------------------------------------------------------------------------
(* The turn starts, and with it the transport; all of it up to the first     *)
(* save is one turn of the event loop.                                       *)
StartTurn ==
    /\ attemptPhase = "idle" /\ attemptPhase' = "spawning"
    /\ buffer' = IF provider = "real" THEN <<Line("working", 0)>> ELSE <<>>
    /\ UNCHANGED <<provider, log, ended, answered, open, tools, nodeStatus, stall, stalls, said>>

(* finish: the last status, once, and the turn-end.                          *)
LastStatus == IF provider = "real" /\ ~ended THEN <<Line("resting", 0)>> ELSE <<>>

(* The spawn throws: what was said before is kept, without a lifecycle.      *)
SpawnThrows ==
    /\ attemptPhase = "spawning" /\ attemptPhase' = "over"
    /\ log' = log \o buffer \o LastStatus \o <<Line("error", 0)>>
    /\ buffer' = <<>> /\ ended' = TRUE /\ nodeStatus' = "failed"
    /\ UNCHANGED <<provider, answered, open, tools, stall, stalls, said>>
SpawnReturns ==
    /\ attemptPhase = "spawning" /\ attemptPhase' = "live"
    /\ log' = log \o <<Line("spawned", 0), Line("running", 0)>> \o buffer
    /\ buffer' = <<>> /\ nodeStatus' = "running" /\ stall' = TRUE
    /\ UNCHANGED <<provider, ended, answered, open, tools, stalls, said>>

(* armStall: only a live attempt that is running becomes stalled.            *)
StallFires ==
    /\ stall /\ stall' = FALSE
    /\ \/ /\ attemptPhase \in {"live", "settled"} /\ nodeStatus = "running" /\ stalls < MaxStalls
          /\ nodeStatus' = "stalled" /\ log' = Append(log, Line("stalled", 0))
          /\ stalls' = stalls + 1
       \/ /\ attemptPhase = "over" \/ nodeStatus # "running"
          /\ UNCHANGED <<nodeStatus, log, stalls>>
    /\ UNCHANGED <<provider, attemptPhase, buffer, ended, answered, open, tools, said>>

(* The transport completes: the bridge finishes the turn at once, a mock's   *)
(* outcome goes straight to runNode. The last status is an activity as well. *)
Complete ==
    /\ attemptPhase = "live" /\ attemptPhase' = "settled" /\ ended' = TRUE
    /\ IF provider = "real" THEN Receive(LastStatus) ELSE UNCHANGED <<log, buffer, nodeStatus, stall>>
    /\ UNCHANGED <<provider, answered, open, tools, stalls, said>>

(* runNode goes on: the timers are cleared and the result is written.        *)
Conclude ==
    /\ attemptPhase = "settled" /\ attemptPhase' = "over"
    /\ stall' = FALSE /\ nodeStatus' \in {"ended", "failed"}
    /\ log' = log \o (IF nodeStatus' = "failed" THEN <<Line("error", 0)>> ELSE <<>>)
                  \o <<Line("result", 0)>>
    /\ UNCHANGED <<provider, buffer, ended, answered, open, tools, stalls, said>>

EvidenceNext ==
    \/ StartTurn \/ Content \/ Raw \/ SpawnThrows \/ SpawnReturns \/ StallFires
    \/ Complete \/ Conclude
EvidenceSpec == EvidenceInit /\ [][EvidenceNext]_evidenceVars

-----------------------------------------------------------------------------
Of(kinds) == {n \in DOMAIN log : log[n].kind \in kinds}

(* Whatever the provider says is written between the attempt's `running` and *)
(* its `result`, whenever it was said; its last status is that it rests; and *)
(* every stalled mark is taken back by the next of its lines (receiveContent,*)
(* activity, the bridge's start and finish). An answer without an id is      *)
(* given to the oldest use without one: the uses are answered in their order *)
(* (acceptContent).                                                          *)
EvidenceInOrder ==
    /\ (attemptPhase \in {"live", "settled"} \/ nodeStatus = "ended") =>
           \A n \in Of(Provided) : \E m \in Of({"running"}) : m < n
    /\ \A n \in Of({"result"}), m \in Of(Provided) : m < n
    /\ \A n \in Of({"resting"}), m \in Of(Provided) : m <= n
    /\ (attemptPhase = "over" /\ provider = "real") => Cardinality(Of({"resting"})) = 1
    /\ \A n \in Of({"stalled"}), m \in Of(Provided) :
           n < m => log[n + 1].kind = "recovered"
    /\ \A n \in Of({"answer"}), m \in Of({"answer"}) :
           n < m => log[n].tool < log[m].tool
=============================================================================
