------------------------------- MODULE WebPage -------------------------------
(* What the page of one browser shows of the runs: the workspace selected,   *)
(* the active and the viewed run, and the snapshots of the runs that HTTP    *)
(* replies and run frames bring in an order nobody controls (web/src/app).   *)
(*                                                                           *)
(* A run is a number, given in the order of creation; its revision counts    *)
(* the changes of its status that matter here: 0 before it exists, odd while *)
(* it is active, even when it is terminal. React runs an effect with the     *)
(* change of the store that it follows.                                      *)
EXTENDS Naturals, Sequences, FiniteSetsExt

CONSTANTS Owner,     \* workspace of each run, in a sequence
          NoSpace,   \* no workspace is selected
          MaxRev,    \* bound: changes of all runs together
          MaxCalls,  \* bound: requests of the page
          MaxFrames, \* bound: run frames in flight
          MaxBreaks  \* bound: lost sockets

Items  == DOMAIN Owner
PageSpaces == {Owner[r] : r \in Items}

ASSUME PageAssumption ==
    /\ Owner \in Seq(PageSpaces) /\ NoSpace \notin PageSpaces
    /\ {MaxRev, MaxCalls, MaxFrames, MaxBreaks} \subseteq Nat

VARIABLES
    rev,          \* server: revision of each run
    frames,       \* run frames on their way to the page
    conn,         \* the socket is open
    breaks,
    selected,     \* selectedWorkspaceId
    activeRunId,  \* activeRunId, 0 when undefined
    viewed,       \* viewedRunId
    known,        \* runs: revision of the snapshot, 0 when the page has none
    loading,      \* runsLoading
    failed,       \* bootError of the last list
    paging,       \* historyLoading
    replaying,    \* replayLoading: the replay loop of the last generation runs
    session,      \* liveSessionRunId
    pageCalls,        \* requests in flight
    asked,        \* requests made
    stale         \* history: a frame was lost, a reply was older than the page,
                  \* or two runs of a workspace were active at a time

pageVars == <<rev, frames, conn, breaks, selected, activeRunId, viewed, known,
              loading, failed, paging, replaying, session, pageCalls, asked, stale>>

Working(v) == v % 2 = 1
RunsOf(w)      == {r \in Items : Owner[r] = w}

(* A call: what was asked, of which workspace or run, whether the page still *)
(* wants the reply, and the revisions the server answered with. A refused    *)
(* call is answered with none.                                               *)
Nothing == [r \in {} |-> 0]
Call(kind, w, r) == [kind |-> kind, space |-> w, run |-> r, live |-> TRUE,
                     answered |-> FALSE, reply |-> Nothing]
CallsOf(kind) == {c \in pageCalls : c.kind = kind}
Issue(c) == asked < MaxCalls /\ asked' = asked + 1 /\ pageCalls' = pageCalls \cup {c}

PageTypeOK ==
    /\ rev \in [Items -> Nat] /\ known \in [Items -> Nat]
    /\ Len(frames) <= MaxFrames /\ breaks \in 0..MaxBreaks
    /\ selected \in PageSpaces \cup {NoSpace}
    /\ {activeRunId, viewed, session} \subseteq Items \cup {0}
    /\ {conn, loading, failed, paging, replaying, stale} \subseteq BOOLEAN
    /\ asked \in 0..MaxCalls
    /\ \A kind \in {"create", "act"} : \A c, d \in CallsOf(kind) : c = d

PageInit ==
    /\ rev = [r \in Items |-> 0] /\ known = rev /\ frames = <<>> /\ conn = TRUE
    /\ breaks = 0 /\ selected = NoSpace /\ activeRunId = 0 /\ viewed = 0
    /\ loading = FALSE /\ failed = FALSE /\ paging = FALSE /\ replaying = FALSE
    /\ session = 0 /\ pageCalls = {} /\ asked = 0 /\ stale = FALSE

---------------------------------------------------------------------------
(* The server. Every change of a run is a frame to every open socket. The    *)
(* server lets any number of runs of one workspace be active; the page       *)
(* starts one only when it knows of none.                                    *)
NoneWorks(w) == \A r \in RunsOf(w) : ~Working(rev[r])
Unborn(w) == {r \in RunsOf(w) : rev[r] = 0 /\ \A s \in Items : rev[s] > 0 => s < r}

Changes == MapThenSumSet(LAMBDA s : rev[s], Items)
PublishRun(r) ==
    /\ Changes < MaxRev
    /\ (conn => Len(frames) < MaxFrames)
    /\ rev[r] = 0 => r \in Unborn(Owner[r])
    /\ rev' = [rev EXCEPT ![r] = @ + 1]
    /\ frames' = IF conn THEN Append(frames, <<r, rev[r] + 1>>) ELSE frames
    /\ stale' = (stale \/ ~conn \/ (~Working(rev[r]) /\ ~NoneWorks(Owner[r])))

PageRest == <<conn, breaks, selected, activeRunId, viewed, known, loading, failed,
              paging, replaying, session>>

(* A run is created or retried by another client, or ends.                   *)
RunChanges(r) == PublishRun(r) /\ UNCHANGED <<PageRest, pageCalls>>

PageReplied(c, answer) ==
    pageCalls' = (pageCalls \ {c}) \cup {[c EXCEPT !.reply = answer, !.answered = TRUE]}

(* Reads answer with what the server has at that moment. createRun makes a   *)
(* run; abort and retry change the run, a kill or a steer does not; each of  *)
(* them answers with the run, or with an error.                              *)
AnswerRead(c) ==
    /\ ~c.answered /\ c.kind \in {"list", "more"}
    /\ PageReplied(c, [r \in {s \in RunsOf(c.space) : rev[s] > 0} |-> rev[r]])
    /\ UNCHANGED <<rev, frames, stale, PageRest>>
AnswerCreate(c) ==
    /\ ~c.answered /\ c.kind = "create"
    /\ \E r \in Unborn(c.space) : PublishRun(r) /\ PageReplied(c, [s \in {r} |-> 1])
    /\ UNCHANGED PageRest
AnswerAct(c) ==
    /\ ~c.answered /\ c.kind = "act"
    /\ \/ PublishRun(c.run) /\ PageReplied(c, [s \in {c.run} |-> rev'[s]])
       \/ PageReplied(c, [s \in {c.run} |-> rev[s]]) /\ UNCHANGED <<rev, frames, stale>>
    /\ UNCHANGED PageRest
Refuse(c) ==
    /\ ~c.answered
    /\ PageReplied(c, Nothing) /\ c.kind # "list"
    /\ UNCHANGED <<rev, frames, stale, PageRest>>

---------------------------------------------------------------------------
(* Effects of a change of the viewed or the active run (RunWorkspace): the   *)
(* run that was viewed while active stays a live session until another is    *)
(* viewed; otherwise the pages of its evidence are read again, and the loops *)
(* of earlier generations no longer count.                                   *)
SessionOf(a, v) == IF v # 0 /\ v = a THEN v ELSE IF session = v THEN v ELSE 0
ViewingLive(a, v, s) == v # 0 /\ (v = a \/ s = v)

Show(a, v) ==
    /\ activeRunId' = a /\ viewed' = v /\ session' = SessionOf(a, v)
    /\ IF v = viewed /\ ViewingLive(a, v, session') = ViewingLive(activeRunId, viewed, session)
       THEN UNCHANGED replaying
       ELSE replaying' = (v # 0 /\ ~ViewingLive(a, v, session'))

(* The replay loop of the last generation ends, well or not. A loop of an    *)
(* earlier one changes nothing of the page any more.                         *)
ReplayEnds ==
    /\ replaying /\ replaying' = FALSE
    /\ UNCHANGED <<rev, frames, stale, conn, breaks, selected, activeRunId, viewed, known,
                   loading, failed, paging, session, pageCalls>>

(* The snapshots a reply brings replace those of the page, whatever their    *)
(* age (upsertRun).                                                          *)
Upserted(reply) == [r \in Items |-> IF r \in DOMAIN reply THEN reply[r] ELSE known[r]]
Older(c) ==
    \E r \in Items :
       \/ r \in DOMAIN c.reply /\ c.reply[r] < known[r]
       \/ c.kind = "list" /\ Owner[r] = c.space /\ r \notin DOMAIN c.reply /\ known[r] > 0

(* setSelectedWorkspaceId and the two effects that follow it.                *)
SelectWorkspace(w) ==
    /\ w # selected
    /\ selected' = w /\ loading' = (w # NoSpace) /\ failed' = FALSE /\ paging' = FALSE
    /\ Show(0, 0)
    /\ LET kept == {IF c.kind \in {"list", "more"} THEN [c EXCEPT !.live = FALSE] ELSE c
                      : c \in pageCalls}
       IN  IF w = NoSpace THEN pageCalls' = kept /\ UNCHANGED asked
           ELSE /\ asked < MaxCalls /\ asked' = asked + 1
                /\ pageCalls' = kept \cup {Call("list", w, 0)}
    /\ stale' = \E r \in RunsOf(w) :
                  Working(rev[r]) /\ \E s \in RunsOf(w) \ {r} : Working(rev[s])
    /\ UNCHANGED <<rev, frames, conn, breaks, known>>

(* The list of the selected workspace arrives; a reply that the page no      *)
(* longer wants is dropped.                                                  *)
AnyReply(c) == TRUE
Wanted(c) == c.live

ListArrives(c) ==
    /\ c.kind = "list" /\ c.answered /\ pageCalls' = pageCalls \ {c}
    /\ IF Wanted(c)
       THEN LET running == {r \in DOMAIN c.reply : Working(c.reply[r])}
                newest  == IF DOMAIN c.reply = {} THEN 0 ELSE Max(DOMAIN c.reply)
                a       == IF running = {} THEN 0 ELSE Max(running)
            IN  /\ known' = Upserted(c.reply) /\ stale' = (stale \/ Older(c))
                /\ Show(a, IF a # 0 THEN a ELSE newest)
                /\ loading' = FALSE /\ failed' = FALSE
       ELSE UNCHANGED <<known, stale, activeRunId, viewed, session, replaying,
                        loading, failed>>
    /\ UNCHANGED <<rev, frames, conn, breaks, selected, paging>>

ListFails(c) ==
    /\ c.kind = "list" /\ pageCalls' = pageCalls \ {c}
    /\ IF Wanted(c)
       THEN Show(0, 0) /\ loading' = FALSE /\ failed' = TRUE
       ELSE UNCHANGED <<activeRunId, viewed, session, replaying, loading, failed>>
    /\ UNCHANGED <<rev, frames, stale, conn, breaks, selected, known, paging>>

(* loadMoreRuns: one page at a time, dropped after another selection.        *)
AskMore ==
    /\ selected # NoSpace /\ ~paging
    /\ paging' = TRUE /\ Issue(Call("more", selected, 0))
    /\ UNCHANGED <<rev, frames, stale, conn, breaks, selected, activeRunId, viewed, known,
                   loading, failed, replaying, session>>
MoreArrives(c) ==
    /\ c.kind = "more" /\ c.answered /\ pageCalls' = pageCalls \ {c}
    /\ known' = IF c.live THEN Upserted(c.reply) ELSE known
    /\ stale' = (stale \/ (c.live /\ Older(c)))
    /\ paging' = (paging /\ ~c.live)
    /\ UNCHANGED <<rev, frames, conn, breaks, selected, activeRunId, viewed, loading,
                   failed, replaying, session>>

(* startRun: refused while the page knows an active run of the workspace,    *)
(* while the list loads or another start is pending. A late reply is kept,   *)
(* but shown only in the workspace it was asked for.                         *)
PageStartRun ==
    /\ selected # NoSpace /\ ~loading /\ CallsOf("create") = {}
    /\ \A r \in RunsOf(selected) : ~Working(known[r])
    /\ Issue(Call("create", selected, 0))
    /\ UNCHANGED <<rev, frames, stale, PageRest>>
ShownIn(w) == selected = w
CreateArrives(c) ==
    /\ c.kind = "create" /\ c.answered /\ pageCalls' = pageCalls \ {c}
    /\ known' = Upserted(c.reply) /\ stale' = (stale \/ Older(c))
    /\ IF DOMAIN c.reply # {} /\ ShownIn(c.space)
       THEN Show(Max(DOMAIN c.reply), Max(DOMAIN c.reply))
       ELSE UNCHANGED <<activeRunId, viewed, session, replaying>>
    /\ UNCHANGED <<rev, frames, conn, breaks, selected, loading, failed, paging>>

(* Abort of the active run; kill, retry and steer of the viewed one.         *)
PageAct(r) ==
    /\ r \in {activeRunId, viewed} \ {0} /\ CallsOf("act") = {}
    /\ Issue(Call("act", Owner[r], r))
    /\ UNCHANGED <<rev, frames, stale, PageRest>>
ActArrives(c) ==
    /\ c.kind = "act" /\ c.answered /\ pageCalls' = pageCalls \ {c}
    /\ known' = Upserted(c.reply) /\ stale' = (stale \/ Older(c))
    /\ UNCHANGED <<rev, frames, conn, breaks, selected, activeRunId, viewed, loading,
                   failed, paging, replaying, session>>

(* selectRun: any run of the workspace that the page knows.                  *)
SelectRun(r) ==
    /\ r # 0 => known[r] > 0 /\ Owner[r] = selected
    /\ r # viewed /\ Show(activeRunId, r)
    /\ UNCHANGED <<rev, frames, stale, conn, breaks, selected, known, loading,
                   failed, paging, pageCalls>>

(* applyWsMsg of a run frame.                                                *)
Activates(r, v) ==
    /\ Owner[r] = selected /\ Working(v)
    /\ activeRunId \notin {0, r} => ~Working(known[activeRunId])
KeepsEnded(r, v) == FALSE
EndsActive(r, v) == activeRunId = r /\ ~Working(v)

FrameArrives ==
    /\ frames # <<>> /\ frames' = Tail(frames)
    /\ LET r == Head(frames)[1]
           v == Head(frames)[2]
           a == IF Activates(r, v) THEN r ELSE IF EndsActive(r, v) THEN 0 ELSE activeRunId
           shown == Activates(r, v) /\ viewed \in {0, activeRunId}
       IN  /\ known' = [known EXCEPT ![r] = v]
           /\ stale' = (stale \/ v < known[r])
           /\ Show(a, IF shown THEN r ELSE viewed)
    /\ UNCHANGED <<rev, conn, breaks, selected, loading, failed, paging, pageCalls>>

(* The socket closes and opens again. Run frames are not asked for again.    *)
Break ==
    /\ conn /\ breaks < MaxBreaks /\ breaks' = breaks + 1
    /\ conn' = FALSE /\ frames' = <<>> /\ stale' = (stale \/ frames # <<>>)
    /\ UNCHANGED <<rev, selected, activeRunId, viewed, known, loading, failed, paging,
                   replaying, session, pageCalls>>
Reconnect ==
    /\ ~conn /\ conn' = TRUE
    /\ UNCHANGED <<rev, frames, stale, breaks, selected, activeRunId, viewed, known,
                   loading, failed, paging, replaying, session, pageCalls>>

PageNext ==
    \/ \E w \in PageSpaces \cup {NoSpace} : SelectWorkspace(w)
    \/ AskMore \/ PageStartRun
    \/ \E r \in Items : PageAct(r)
    \/ /\ UNCHANGED asked
       /\ \/ \E r \in Items : RunChanges(r)
          \/ \E r \in Items \cup {0} : SelectRun(r)
          \/ \E c \in pageCalls :
                \/ AnswerRead(c) \/ AnswerCreate(c) \/ AnswerAct(c) \/ Refuse(c)
                \/ ListArrives(c) \/ ListFails(c) \/ MoreArrives(c)
                \/ CreateArrives(c) \/ ActArrives(c)
          \/ ReplayEnds \/ FrameArrives \/ Break \/ Reconnect
PageSpec == PageInit /\ [][PageNext]_pageVars

---------------------------------------------------------------------------
(* The page shows runs of the workspace it has selected and of no other,     *)
(* and a flag that says it loads is owned by a request that will clear it,   *)
(* however replies, frames and selections interleave (App, RunWorkspace,     *)
(* startRun).                                                                *)
PageIsOwn ==
    /\ PageTypeOK
    /\ \A r \in {activeRunId, viewed} \ {0} : Owner[r] = selected
    /\ loading => \E c \in CallsOf("list") : c.live /\ c.space = selected
    /\ paging => \E c \in CallsOf("more") : c.live /\ c.space = selected

(* Once the list is there and the frames have arrived, the page and the      *)
(* server agree on which run of the workspace is active, and the page        *)
(* follows it, unless a frame was lost with its socket, a reply brought a    *)
(* snapshot older than the one it replaced, or two runs of the workspace     *)
(* were active at a time (applyWsMsg, getRuns, startRun).                    *)
PageFollows ==
    (selected # NoSpace /\ ~loading /\ ~failed /\ ~stale /\ frames = <<>> /\ conn)
        => /\ \A r \in RunsOf(selected) : Working(known[r]) <=> Working(rev[r])
           /\ activeRunId = Max({r \in RunsOf(selected) : Working(rev[r])} \cup {0})
===============================================================================
