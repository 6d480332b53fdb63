----------------------------- MODULE EventFeed ------------------------------
(* The evidence of one run on its way to the browser: the event log          *)
(* (store/eventLog.ts), the hub (api/wsHub.ts), the reconnecting client with *)
(* its catch-up (web api/ws.ts) and the store of the page with its recovery  *)
(* of gaps (web app/store.ts). An event is its identity; its sequence number *)
(* is its place in the log.                                                  *)
(*                                                                           *)
(* Frames of one socket arrive in order. A page read over HTTP is a snapshot *)
(* of the moment at which the server answers, and is not ordered with them.  *)
EXTENDS Naturals, Sequences, FiniteSets, FiniteSetsExt

CONSTANTS Page,      \* events in a full page (1000)
          Ring,      \* EVENT_RING_LIMIT
          MaxEvents, \* bound: events of the run
          MaxBreaks  \* bound: lost sockets, crashes and unsubscriptions

ASSUME FeedAssumption == {Page, Ring, MaxEvents, MaxBreaks} \subseteq Nat \ {0}

VARIABLES
    log,       \* the lines of events.jsonl that can be read
    tail,      \* its end: "clean", "whole" (no newline yet) or "cut"
    cached,    \* #nextSeq, 0 when the server has not read the file yet
    made,      \* identities given so far
    hub,       \* the hub has a subscription of this socket
    heard,     \* history: length of the log when the hub got it
    upstream,  \* frames to the server: TRUE is sub, FALSE is unsub
    frames,    \* events on their way to the client
    conn,      \* the socket is open
    wanted,    \* #subscriptions has the run
    lastSeq,   \* #lastSeq
    fetch,     \* the page request of #catchUp, if one is active
    view,      \* the store: see ViewType
    breaks

feedVars == <<log, tail, cached, made, hub, heard, upstream, frames, conn,
              wanted, lastSeq, fetch, view, breaks>>

Numbers == 0..MaxEvents
None    == MaxEvents + 1   \* undefined, for a sequence number
Idle    == [st |-> "idle", cursor |-> 0, page |-> <<>>]
Ask(cursor) == [st |-> "asked", cursor |-> cursor, page |-> <<>>]
NoEvents == [q \in {} |-> 0]

ViewType(v) ==
    /\ DOMAIN v.events \subseteq Numbers /\ DOMAIN v.pend \subseteq Numbers
    /\ v.base \in Numbers \cup {None} /\ v.owned \in BOOLEAN
    /\ v.status \in {"unknown", "recovering", "incomplete", "live"}
    /\ v.exp \in Numbers \cup {None} /\ v.rcv \in Numbers \cup {None}
    /\ v.req.st \in {"idle", "asked", "answered"} /\ v.vain \in 0..2

FeedTypeOK ==
    /\ Len(log) <= MaxEvents /\ tail \in {"clean", "whole", "cut"}
    /\ cached \in Numbers \cup {MaxEvents + 1} /\ made \in Numbers
    /\ cached # 0 => tail = "clean" /\ cached = Len(log) + 1
    /\ heard \in Numbers /\ lastSeq \in Numbers
    /\ {hub, conn, wanted} \subseteq BOOLEAN
    /\ fetch.st \in {"idle", "asked", "answered"} /\ ViewType(view)

FeedInit ==
    /\ log = <<>> /\ tail = "clean" /\ cached = 0 /\ made = 0
    /\ hub = FALSE /\ heard = 0 /\ upstream = <<>> /\ frames = <<>>
    /\ conn = FALSE /\ wanted = FALSE /\ lastSeq = 0 /\ fetch = Idle
    /\ view = [events |-> NoEvents, pend |-> NoEvents, base |-> None,
               owned |-> FALSE, status |-> "unknown", exp |-> None, rcv |-> None,
               req |-> Idle, vain |-> 0]
    /\ breaks = 0

-----------------------------------------------------------------------------
(* The store. Its handlers are functions of the view, because a page is      *)
(* applied event by event in one step.                                       *)
Highest(f)     == Max(DOMAIN f \cup {0})
HighestKey(f)  == IF DOMAIN f = {} THEN None ELSE Highest(f)
Present(f, from, to) == from..to \subseteq DOMAIN f
Newest(f) == [q \in {n \in DOMAIN f : Cardinality({m \in DOMAIN f : m > n}) < Ring} |-> f[q]]
Overlay(f, g) == [q \in DOMAIN f \cup DOMAIN g |-> IF q \in DOMAIN f THEN f[q] ELSE g[q]]
Merge(f, g) == Newest(Overlay(f, g))
Active(v) == v.req.st # "idle"

(* startEvidenceRecovery: nothing if one is active. It asks for the page     *)
(* after the first event that is missing.                                    *)
StartRecovery(v, base) ==
    IF Active(v) THEN v
    ELSE [v EXCEPT !.owned = FALSE, !.status = "recovering", !.exp = base + 1,
                   !.rcv = HighestKey(v.pend), !.base = base, !.req = Ask(base),
                   !.vain = 0]

(* The gap is closed.                                                        *)
ViewClosed(v) == [v EXCEPT !.pend = NoEvents, !.base = None, !.owned = FALSE,
                       !.status = "live", !.exp = None, !.rcv = None]

(* applyWsMsg for an event: known already; kept for the recovery that is     *)
(* active; a jump, which starts one; or the next one (or an old one).        *)
Known(v, q) == q \in DOMAIN v.events \cup DOMAIN v.pend
ForgetKept(v, q, id) == v
Keep(v, q, id) == [v EXCEPT !.pend = Overlay([n \in {q} |-> id], @)]
NoJump(v, q) == FALSE
Jump(v, q) == q > Highest(v.events) + 1

Extend(v, q, id) ==
    LET events == Merge(v.events, [n \in {q} |-> id])
        resolved == /\ v.status = "incomplete" /\ v.exp # None /\ v.rcv # None
                    /\ Present(events, v.exp, v.rcv)
        w == [v EXCEPT !.events = events]
    IN IF resolved THEN ViewClosed(w)
       ELSE IF v.status = "unknown" THEN [w EXCEPT !.status = "live"] ELSE w
ApplyEvent(v, q, id) ==
    IF Known(v, q) THEN v
    ELSE IF Active(v)
      THEN IF q <= v.base THEN v
           ELSE LET w == Keep(v, q, id)
                IN [w EXCEPT !.status = "recovering", !.rcv = Highest(w.pend)]
    ELSE IF Jump(v, q)
      THEN StartRecovery(Keep(v, q, id), IF v.base # None THEN v.base ELSE Highest(v.events))
    ELSE Extend(v, q, id)
ApplyPage(v, req) ==
    LET after[i \in 0..Len(req.page)] ==
          IF i = 0 THEN v ELSE ApplyEvent(after[i - 1], req.cursor + i, req.page[i])
    IN after[Len(req.page)]

(* setEvidenceCatchUpState: ignored while the recovery of a gap owns the     *)
(* integrity of the run.                                                     *)
CatchUpStarted(v, cursor) ==
    IF v.base # None THEN v
    ELSE [v EXCEPT !.owned = TRUE, !.status = "recovering", !.exp = cursor + 1,
                   !.rcv = IF Highest(v.events) > cursor THEN Highest(v.events) ELSE None]
NeverEnded(v, status) == v
CatchUpEnded(v, status) ==
    IF ~v.owned THEN v
    ELSE IF v.base # None THEN [v EXCEPT !.owned = FALSE]
    ELSE [v EXCEPT !.owned = FALSE, !.status = status,
                   !.exp = IF status = "live" THEN None ELSE @,
                   !.rcv = IF status = "live" THEN None ELSE @]

(* recoverEvidenceGap, when its page arrives: what is contiguous by now is   *)
(* shown; the recovery ends, asks for more, or gives up after two pages that *)
(* did not help.                                                             *)
Reach(f, from) == CHOOSE n \in from..MaxEvents :
                     from + 1..n \subseteq DOMAIN f /\ n + 1 \notin DOMAIN f
Recovered(v) ==
    LET req  == v.req
        new  == [q \in {req.cursor + i : i \in 1..Len(req.page)} |-> req.page[q - req.cursor]]
        all  == Overlay(new, v.pend)
        upto == Reach(all, req.cursor)
        rest == [q \in {n \in DOMAIN all : n > upto \/ n <= req.cursor} |-> all[q]]
        vain == IF upto = req.cursor THEN v.vain + 1 ELSE 0
        w    == [v EXCEPT !.pend = rest, !.req = Ask(upto), !.vain = vain,
                          !.events = Merge(@, [q \in req.cursor + 1..upto |-> all[q]])]
    IN IF DOMAIN rest = {} /\ Len(req.page) < Page THEN [ViewClosed(w) EXCEPT !.req = Idle]
       ELSE IF vain < 2 THEN w
       ELSE [w EXCEPT !.req = Idle, !.status = "incomplete", !.exp = upto + 1,
                      !.rcv = Max({upto} \cup DOMAIN rest)]

(* ... and when it cannot be read: what was kept is shown, with its gap.     *)
RecoveryFailed(v) ==
    LET w == [v EXCEPT !.req = Idle, !.events = Merge(@, v.pend)]
        high == HighestKey(v.pend)
    IN IF high # None /\ Present(w.events, v.req.cursor + 1, high) THEN ViewClosed(w)
       ELSE [w EXCEPT !.status = "incomplete", !.exp = v.req.cursor + 1, !.rcv = high]

-----------------------------------------------------------------------------
(* The event log. #sequenceFor reads the file at the first append of a       *)
(* process: a last line that can be read gets its newline, anything else is  *)
(* cut off. Subscribers hear of an event when it is in the file.             *)
DroppedTail == IF tail = "whole" THEN SubSeq(log, 1, Len(log) - 1) ELSE log
KeptLines == log
AppendEvent ==
    /\ made < MaxEvents
    /\ log' = KeptLines \o <<made + 1>> /\ made' = made + 1
    /\ tail' = "clean" /\ cached' = Len(log') + 1
    /\ frames' = IF hub THEN frames \o <<<<Len(log'), made + 1>>>> ELSE frames
    /\ UNCHANGED <<hub, heard, upstream, conn, wanted, lastSeq, fetch, view, breaks>>

(* The socket is lost, with the frames on it.                                *)
Lost ==
    /\ breaks < MaxBreaks /\ breaks' = breaks + 1
    /\ conn' = FALSE /\ hub' = FALSE /\ upstream' = <<>> /\ frames' = <<>>
Drop ==
    /\ conn /\ Lost
    /\ UNCHANGED <<log, tail, cached, made, heard, wanted, lastSeq, fetch, view>>

(* The server dies, perhaps in the middle of an append.                      *)
Crash ==
    /\ Lost /\ cached' = 0
    /\ \/ UNCHANGED <<log, tail, made>>
       \/ /\ made < MaxEvents /\ made' = made + 1
          /\ \/ tail' = "whole" /\ log' = KeptLines \o <<made + 1>>
             \/ tail' = "cut" /\ log' = KeptLines
    /\ UNCHANGED <<heard, wanted, lastSeq, fetch, view>>

-----------------------------------------------------------------------------
(* The socket. #catchUp takes a new generation: a page that is asked for     *)
(* already is ignored when it comes.                                         *)
CatchUp ==
    /\ fetch' = Ask(lastSeq) /\ view' = CatchUpStarted(view, lastSeq)
Open ==
    /\ ~conn /\ conn' = TRUE
    /\ IF wanted THEN upstream' = <<TRUE>> /\ CatchUp
                 ELSE UNCHANGED <<upstream, fetch, view>>
    /\ UNCHANGED <<log, tail, cached, made, hub, heard, frames, wanted, lastSeq, breaks>>

Subscribe ==
    /\ ~wanted /\ wanted' = TRUE
    /\ IF conn THEN upstream' = upstream \o <<TRUE>> /\ CatchUp
               ELSE UNCHANGED <<upstream, fetch, view>>
    /\ UNCHANGED <<log, tail, cached, made, hub, heard, frames, conn, lastSeq, breaks>>
Unsubscribe ==
    /\ wanted /\ wanted' = FALSE /\ breaks < MaxBreaks /\ breaks' = breaks + 1
    /\ upstream' = IF conn THEN upstream \o <<FALSE>> ELSE upstream
    /\ fetch' = Idle
    /\ view' = IF fetch.st = "idle" THEN view ELSE CatchUpEnded(view, "incomplete")
    /\ UNCHANGED <<log, tail, cached, made, hub, heard, frames, conn, lastSeq>>

HubReceives ==
    /\ upstream # <<>> /\ hub' = Head(upstream) /\ upstream' = Tail(upstream)
    /\ heard' = IF Head(upstream) THEN Len(log) ELSE 0
    /\ UNCHANGED <<log, tail, cached, made, frames, conn, wanted, lastSeq, fetch, view, breaks>>
ClientReceives ==
    /\ frames # <<>> /\ frames' = Tail(frames)
    /\ lastSeq' = Max({lastSeq, Head(frames)[1]})
    /\ view' = ApplyEvent(view, Head(frames)[1], Head(frames)[2])
    /\ UNCHANGED <<log, tail, cached, made, hub, heard, upstream, conn, wanted, fetch, breaks>>

-----------------------------------------------------------------------------
(* GET /events: afterSeq, at the moment of the answer.                       *)
Answered(req) == [req EXCEPT !.st = "answered",
                             !.page = SubSeq(log, req.cursor + 1,
                                             Min({Len(log), req.cursor + Page}))]
AnswerCatchUp ==
    /\ fetch.st = "asked" /\ fetch' = Answered(fetch)
    /\ UNCHANGED <<log, tail, cached, made, hub, heard, upstream, frames, conn,
                   wanted, lastSeq, view, breaks>>
AnswerGap ==
    /\ view.req.st = "asked" /\ view' = [view EXCEPT !.req = Answered(@)]
    /\ UNCHANGED <<log, tail, cached, made, hub, heard, upstream, frames, conn,
                   wanted, lastSeq, fetch, breaks>>

(* A page of the catch-up arrives: another one is asked for if it was full.  *)
(* lastSeq follows the page, back as well as forth.                          *)
CatchUpArrives ==
    /\ fetch.st = "answered"
    /\ LET n == Len(fetch.page)
           v == ApplyPage(view, fetch)
       IN /\ lastSeq' = IF n = 0 THEN lastSeq ELSE fetch.cursor + n
          /\ IF n < Page THEN fetch' = Idle /\ view' = CatchUpEnded(v, "live")
                         ELSE fetch' = Ask(fetch.cursor + n) /\ view' = v
    /\ UNCHANGED <<log, tail, cached, made, hub, heard, upstream, frames, conn,
                   wanted, breaks>>
CatchUpFails ==
    /\ fetch.st # "idle" /\ fetch' = Idle /\ view' = CatchUpEnded(view, "incomplete")
    /\ UNCHANGED <<log, tail, cached, made, hub, heard, upstream, frames, conn,
                   wanted, lastSeq, breaks>>

GapArrives ==
    /\ view.req.st = "answered" /\ view' = Recovered(view)
    /\ UNCHANGED <<log, tail, cached, made, hub, heard, upstream, frames, conn,
                   wanted, lastSeq, fetch, breaks>>
GapFails ==
    /\ Active(view) /\ view' = RecoveryFailed(view)
    /\ UNCHANGED <<log, tail, cached, made, hub, heard, upstream, frames, conn,
                   wanted, lastSeq, fetch, breaks>>

(* The Retry button, shown while the evidence is incomplete.                 *)
Retry ==
    /\ view.status = "incomplete"
    /\ view' = StartRecovery(view, IF view.base # None THEN view.base
                                   ELSE IF view.exp # None THEN view.exp - 1
                                   ELSE Highest(view.events))
    /\ UNCHANGED <<log, tail, cached, made, hub, heard, upstream, frames, conn,
                   wanted, lastSeq, fetch, breaks>>

FeedNext ==
    \/ AppendEvent \/ Drop \/ Crash \/ Open \/ Subscribe \/ Unsubscribe
    \/ HubReceives \/ ClientReceives \/ AnswerCatchUp \/ AnswerGap
    \/ CatchUpArrives \/ CatchUpFails \/ GapArrives \/ GapFails \/ Retry
FeedSpec == FeedInit /\ [][FeedNext]_feedVars

(* Requests end, with an answer or without one.                              *)
FeedFairness ==
    /\ WF_feedVars(AnswerCatchUp) /\ WF_feedVars(CatchUpArrives \/ CatchUpFails)
    /\ WF_feedVars(AnswerGap)     /\ WF_feedVars(GapArrives \/ GapFails)

-----------------------------------------------------------------------------
(* What the page calls live has no hole (applyWsMsg, recoverEvidenceGap,     *)
(* setEvidenceCatchUpState): it is an interval of sequence numbers, from the *)
(* first one unless the ring is full.                                        *)
LiveIsContiguous ==
    /\ FeedTypeOK
    /\ view.status = "live" =>
        LET shown == DOMAIN view.events
        IN /\ \A q \in shown : q = Max(shown) \/ q + 1 \in shown
           /\ shown = {} \/ 1 \in shown \/ Cardinality(shown) = Ring

(* When nothing is under way and the page says live, it has the whole log,   *)
(* unless nothing was appended since the hub heard of the subscription: a    *)
(* tail that was written between the page of the catch-up and that moment is *)
(* noticed with the next event only (#open, #catchUp, registerWsHub).        *)
LiveMissesOnlyUnheard ==
    /\ hub /\ wanted /\ view.status = "live" /\ fetch.st = "idle" /\ ~Active(view)
    /\ frames = <<>> /\ upstream = <<>> /\ Len(log) > heard
    => Highest(view.events) = Len(log)

(* A sequence number never comes to mean another event, whatever the restart *)
(* of the server did to the end of the file (#sequenceFor).                  *)
EvidenceImmutable ==
    \A f \in {view.events, view.pend} : \A q \in DOMAIN f :
        q <= Len(log) /\ f[q] = log[q]

(* "Recovering" is no state to stay in.                                      *)
RecoveringEnds == view.status = "recovering" ~> view.status # "recovering"
=============================================================================
