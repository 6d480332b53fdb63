------------------------- MODULE CodexTurns_proofs --------------------------
(* Whose turn it is, for any number of turns, sessions and account changes.  *)
(* Turning says which turn runs in a session and what the child and the wire *)
(* may speak of; RunOrder, which runs are still to begin and in what order.  *)
(* Both are inductive above Basis and Runs of CodexThreads_proofs.           *)
EXTENDS CodexThreads_proofs
-----------------------------------------------------------------------------
(* Who ends a turn. The fields of a turn that decide it; a step leaves those *)
(* alone that are not in S.                                                  *)
Only(a, b, S) ==
    /\ b \in TurnState
    /\ "ph"     \in S \/ b.ph = a.ph
    /\ "pair"   \in S \/ b.pair = a.pair
    /\ "rq"     \in S \/ b.rq = a.rq
    /\ "dq"     \in S \/ b.dq = a.dq
    /\ "drv"    \in S \/ b.drv = a.drv
    /\ "settle" \in S \/ b.settle = a.settle
    /\ "pid"    \in S \/ b.pid = a.pid
    /\ "lid"    \in S \/ b.lid = a.lid
    /\ "out"    \in S \/ b.out = a.out

(* Only turn t moves, and only the fields in S.                              *)
OnlyOf(f, g, t, S) ==
    /\ g \in TurnTable
    /\ \A u \in Turns : u # t => g[u] = f[u]
    /\ Only(f[t], g[t], S)

LEMMA OnlyTwice ==
    ASSUME NEW f, NEW g, NEW h, NEW t, NEW S, NEW T,
           OnlyOf(f, g, t, S), OnlyOf(g, h, t, T)
    PROVE  OnlyOf(f, h, t, S \cup T)
BY DEF OnlyOf, Only

LEMMA OnlyMore ==
    ASSUME NEW f, NEW g, NEW t, NEW S, NEW T, OnlyOf(f, g, t, S), S \subseteq T
    PROVE  OnlyOf(f, g, t, T)
BY DEF OnlyOf, Only

LEMMA PhSet ==
    ASSUME NEW a \in TurnState, NEW x \in {"new", "setup", "queued", "load", "start", "reload", "restart", "open"}
    PROVE  Only(a, [a EXCEPT !.ph = x], {"ph"}) /\ [a EXCEPT !.ph = x].ph = x
BY DEF Only, TurnState

LEMMA PairSet ==
    ASSUME NEW a \in TurnState, NEW x \in 0..MaxPairs
    PROVE  Only(a, [a EXCEPT !.pair = x], {"pair"}) /\ [a EXCEPT !.pair = x].pair = x
BY DEF Only, TurnState

LEMMA RqSet ==
    ASSUME NEW a \in TurnState, NEW x \in Requests
    PROVE  Only(a, [a EXCEPT !.rq = x], {"rq"}) /\ [a EXCEPT !.rq = x].rq = x
BY DEF Only, TurnState

LEMMA DqSet ==
    ASSUME NEW a \in TurnState, NEW x \in Requests \cup Turns
    PROVE  Only(a, [a EXCEPT !.dq = x], {"dq"}) /\ [a EXCEPT !.dq = x].dq = x
BY DEF Only, TurnState

LEMMA DrvSet ==
    ASSUME NEW a \in TurnState, NEW x \in {"none", "live", "ask", "again"}
    PROVE  Only(a, [a EXCEPT !.drv = x], {"drv"}) /\ [a EXCEPT !.drv = x].drv = x
BY DEF Only, TurnState

LEMMA WaitSet ==
    ASSUME NEW a \in TurnState, NEW x \in BOOLEAN
    PROVE  Only(a, [a EXCEPT !.settle = x], {"settle"}) /\ [a EXCEPT !.settle = x].settle = x
BY DEF Only, TurnState

LEMMA PidSet ==
    ASSUME NEW a \in TurnState, NEW x \in BOOLEAN
    PROVE  Only(a, [a EXCEPT !.pid = x], {"pid"}) /\ [a EXCEPT !.pid = x].pid = x
BY DEF Only, TurnState

LEMMA LidSet ==
    ASSUME NEW a \in TurnState, NEW x \in Turns \cup {None}
    PROVE  Only(a, [a EXCEPT !.lid = x], {"lid"}) /\ [a EXCEPT !.lid = x].lid = x
BY DEF Only, TurnState

LEMMA OutSet ==
    ASSUME NEW a \in TurnState, NEW x \in Outcomes
    PROVE  Only(a, [a EXCEPT !.out = x], {"out"}) /\ [a EXCEPT !.out = x].out = x
BY DEF Only, TurnState

LEMMA TriesSet ==
    ASSUME NEW a \in TurnState, NEW x \in 0..MaxTries PROVE Only(a, [a EXCEPT !.tries = x], {})
BY DEF Only, TurnState

LEMMA AbortSet ==
    ASSUME NEW a \in TurnState, NEW x \in BOOLEAN PROVE Only(a, [a EXCEPT !.abort = x], {})
BY DEF Only, TurnState

LEMMA BySet ==
    ASSUME NEW a \in TurnState, NEW x \in Turns \cup {None} PROVE Only(a, [a EXCEPT !.by = x], {})
BY DEF Only, TurnState

LEMMA KilledSet ==
    ASSUME NEW a \in TurnState, NEW x \in -1..MaxPairs PROVE Only(a, [a EXCEPT !.killed = x], {})
BY DEF Only, TurnState

LEMMA GoneSet ==
    ASSUME NEW a \in TurnState, NEW x \in BOOLEAN PROVE Only(a, [a EXCEPT !.gone = x], {})
BY DEF Only, TurnState

LEMMA SetOnly ==
    ASSUME NEW f \in TurnTable, NEW t \in Turns, NEW a, NEW S, Only(f[t], a, S)
    PROVE  OnlyOf(f, [f EXCEPT ![t] = a], t, S) /\ [f EXCEPT ![t] = a][t] = a
BY DEF OnlyOf, Only, TurnTable

LEMMA SetOnlyOf ==
    ASSUME NEW f \in TurnTable, NEW t \in Turns, NEW a, NEW S, Only(f[t], a, S)
    PROVE  OnlyOf(f, [f EXCEPT ![t] = a], t, S)
BY DEF OnlyOf, Only, TurnTable

LEMMA InterruptedOnly ==
    ASSUME NEW f \in TurnTable, NEW r \in Turns
    PROVE  /\ OnlyOf(f, Interrupted(f, r), r, {"drv", "settle"})
           /\ IF f[r].drv = "none"
                THEN Interrupted(f, r)[r].drv = "live" /\ Interrupted(f, r)[r].settle = f[r].settle
                ELSE Interrupted(f, r)[r].drv = f[r].drv
<1> DEFINE a == [f[r] EXCEPT !.abort = TRUE]
           b == [a EXCEPT !.drv = "live"]
           c == [b EXCEPT !.tries = 0]
           d == [a EXCEPT !.settle = TRUE]
<1>1. Interrupted(f, r) = IF f[r].drv = "none" THEN [f EXCEPT ![r] = c] ELSE [f EXCEPT ![r] = d]
  BY DEF Interrupted, TurnTable
<1>a. f[r] \in TurnState /\ 0 \in 0..MaxTries
  BY CodexAssumption DEF TurnTable
<1>2. Only(f[r], a, {})
  BY <1>a, AbortSet
<1> HIDE DEF a
<1>b. a \in TurnState
  BY <1>2 DEF Only
<1>3. Only(a, b, {"drv"}) /\ b.drv = "live"
  BY <1>b, DrvSet
<1>4. Only(a, d, {"settle"})
  BY <1>b, WaitSet
<1> HIDE DEF b, d
<1>c. b \in TurnState
  BY <1>3 DEF Only
<1>5. Only(b, c, {})
  BY <1>a, <1>c, TriesSet
<1> HIDE DEF c
<1>6. Only(f[r], c, {"drv", "settle"}) /\ c.drv = "live" /\ c.settle = f[r].settle
  BY <1>2, <1>3, <1>5 DEF Only
<1>7. Only(f[r], d, {"drv", "settle"}) /\ d.drv = f[r].drv
  BY <1>2, <1>4 DEF Only
<1>8. OnlyOf(f, [f EXCEPT ![r] = c], r, {"drv", "settle"}) /\ [f EXCEPT ![r] = c][r] = c
  BY <1>6, SetOnly
<1>9. OnlyOf(f, [f EXCEPT ![r] = d], r, {"drv", "settle"}) /\ [f EXCEPT ![r] = d][r] = d
  BY <1>7, SetOnly
<1> QED
  BY <1>1, <1>6, <1>7, <1>8, <1>9

LEMMA SettleOnly ==
    ASSUME NEW f \in TurnTable, NEW r \in Turns, NEW out \in Outcomes, NEW who \in Turns
    PROVE  /\ OnlyOf(f, Settle(f, r, out, who), r, {"out", "settle"})
           /\ Settle(f, r, out, who)[r].out = out /\ ~Settle(f, r, out, who)[r].settle
<1> DEFINE a == [f[r] EXCEPT !.out = out]
           b == [a EXCEPT !.by = who]
           c == [b EXCEPT !.settle = FALSE]
<1>1. Settle(f, r, out, who) = [f EXCEPT ![r] = c]
  BY DEF Settle, TurnTable
<1>a. f[r] \in TurnState
  BY DEF TurnTable
<1>2. Only(f[r], a, {"out"}) /\ a.out = out
  BY <1>a, OutSet
<1> HIDE DEF a
<1>b. a \in TurnState
  BY <1>2 DEF Only
<1>3. Only(a, b, {})
  BY <1>b, BySet
<1> HIDE DEF b
<1>c. b \in TurnState
  BY <1>3 DEF Only
<1>4. Only(b, c, {"settle"}) /\ c.settle = FALSE
  BY <1>c, WaitSet
<1> HIDE DEF c
<1>5. Only(f[r], c, {"out", "settle"}) /\ c.out = out
  BY <1>2, <1>3, <1>4 DEF Only
<1>6. OnlyOf(f, [f EXCEPT ![r] = c], r, {"out", "settle"}) /\ [f EXCEPT ![r] = c][r] = c
  BY <1>5, SetOnly
<1> QED
  BY <1>1, <1>4, <1>5, <1>6

LEMMA LeaveOnly ==
    ASSUME NEW f \in TurnTable, NEW t \in Turns
    PROVE  /\ OnlyOf(f, Leave(f, t), t, {"drv", "dq", "settle"})
           /\ Leave(f, t)[t].drv = "none" /\ Leave(f, t)[t].dq = "none"
<1> DEFINE x == f[t].out = "none"
           a == [f[t] EXCEPT !.drv = "none"]
           b == [a EXCEPT !.dq = "none"]
           c == [b EXCEPT !.tries = 0]
           d == [c EXCEPT !.settle = x]
<1>1. Leave(f, t) = [f EXCEPT ![t] = d] /\ x \in BOOLEAN
  BY DEF Leave, TurnTable
<1> HIDE DEF x
<1>a. f[t] \in TurnState /\ 0 \in 0..MaxTries /\ "none" \in Requests
  BY CodexAssumption DEF TurnTable, Requests
<1>2. Only(f[t], a, {"drv"}) /\ a.drv = "none"
  BY <1>a, DrvSet
<1> HIDE DEF a
<1>b. a \in TurnState
  BY <1>2 DEF Only
<1>3. Only(a, b, {"dq"}) /\ b.dq = "none"
  BY <1>a, <1>b, DqSet
<1> HIDE DEF b
<1>c. b \in TurnState
  BY <1>3 DEF Only
<1>4. Only(b, c, {})
  BY <1>a, <1>c, TriesSet
<1> HIDE DEF c
<1>d. c \in TurnState
  BY <1>4 DEF Only
<1>5. Only(c, d, {"settle"})
  BY <1>1, <1>d, WaitSet
<1> HIDE DEF d
<1>6. Only(f[t], d, {"drv", "dq", "settle"}) /\ d.drv = "none" /\ d.dq = "none"
  BY <1>2, <1>3, <1>4, <1>5 DEF Only
<1>7. OnlyOf(f, [f EXCEPT ![t] = d], t, {"drv", "dq", "settle"}) /\ [f EXCEPT ![t] = d][t] = d
  BY <1>6, SetOnly
<1> QED
  BY <1>1, <1>6, <1>7

(* What of a session decides whose turn it is.                               *)
SameSession(p, s) == /\ ses'[p][s].running = ses[p][s].running
                     /\ ses'[p][s].block = ses[p][s].block
                     /\ ses'[p][s].queue = ses[p][s].queue
SameSessions == \A p \in Pairs, s \in Sessions : SameSession(p, s)
OtherSessions(p, s) == \A o \in Pairs, z \in Sessions : o # p \/ z # s => SameSession(o, z)

(* No turn runs in session s of pair p any more, or turn x does.             *)
RunsThen(p, s, x) == /\ ses'[p][s].running = x /\ ses'[p][s].block = ses[p][s].block
                     /\ ses'[p][s].queue = ses[p][s].queue /\ OtherSessions(p, s)

LEMMA RunningSet ==
    ASSUME Basis, NEW p \in Pairs, NEW s \in Sessions, NEW x \in Turns \cup {None},
           ses' = [ses EXCEPT ![p][s].running = x]
    PROVE  RunsThen(p, s, x)
<1> DEFINE a == [ses[p][s] EXCEPT !.running = x]
<1>1. ses \in SesTable /\ ses[p][s] \in SessionState
  BY BasisParts DEF SesTable
<1>2. a.running = x /\ a.block = ses[p][s].block /\ a.queue = ses[p][s].queue /\ a \in SessionState
  BY <1>1, SessionFields DEF SessionState
<1>3. ses' = [ses EXCEPT ![p][s] = a]
  BY <1>1 DEF SesTable
<1> HIDE DEF a
<1>5. SetTo([ses EXCEPT ![p][s] = a], p, s, a)
  BY <1>2, SessionSet
<1>4. SetTo(ses', p, s, a)
  BY <1>3, <1>5
<1> QED
  BY <1>2, <1>4 DEF SetTo, RunsThen, OtherSessions, SameSession

LEMMA SessionTypes ==
    ASSUME Basis, NEW p \in Pairs, NEW s \in Sessions
    PROVE  /\ ses[p][s].running \in Turns \cup {None} /\ ses[p][s].block \in Turns \cup {None}
           /\ ses[p][s].queue \in Seq(Turns \cup {None})
BY BasisParts DEF SesTable, SessionState

LEMMA TurnTypes ==
    ASSUME Basis, NEW t \in Turns
    PROVE  /\ turn \in TurnTable /\ turn[t] \in TurnState /\ SessionOf[t] \in Sessions
           /\ turn[t].rq \in Requests /\ turn[t].dq \in Requests \cup Turns
           /\ turn[t].pair \in 0..MaxPairs /\ turn[t].lid \in Turns \cup {None}
           /\ turn[t].settle \in BOOLEAN /\ turn[t].pid \in BOOLEAN
           /\ turn[t].drv \in {"none", "live", "ask", "again"}
           /\ turn[t].out \in Outcomes \cup {"none"}
<1>1. turn \in TurnTable /\ turn[t] \in TurnState /\ SessionOf[t] \in Sessions
  BY BasisParts, CodexAssumption DEF TurnTable
<1> QED
  BY <1>1 DEF TurnState

(* A request is issued for turn t of f, by beginTurn or by the driver.       *)
IssuedFor(p, f, t, field, m) ==
    /\ \E x \in {"sent", "joined", "error"} :
         /\ turn' = [f EXCEPT ![t][field] = x]
         /\ IF x = "sent" THEN wire'[p].in = wire[p].in \cup {m} ELSE wire'[p].in = wire[p].in
    /\ wire'[p].out = wire[p].out /\ \A o \in Pairs \ {p} : wire'[o] = wire[o]
    /\ \A o \in Pairs : conn'[o].slow = conn[o].slow
    /\ child' = child

LEMMA IssueFor ==
    ASSUME Basis, NEW p \in Pairs, NEW f, NEW t, NEW field, NEW m, Issue(p, f, t, field, m)
    PROVE  IssuedFor(p, f, t, field, m)
<1>1. wire \in WireTable /\ conn \in ConnTable
  BY BasisParts
<1>2. CASE turn' = [f EXCEPT ![t][field] = "sent"] /\ wire' = [wire EXCEPT ![p].in = @ \cup {m}]
           /\ UNCHANGED <<conn, child>>
  <2>1. wire'[p].in = wire[p].in \cup {m} /\ wire'[p].out = wire[p].out
        /\ \A o \in Pairs \ {p} : wire'[o] = wire[o]
    BY <1>1, <1>2 DEF WireTable
  <2> QED
    BY <1>2, <2>1 DEF IssuedFor
<1>3. CASE turn' = [f EXCEPT ![t][field] = "joined"] /\ UNCHANGED <<wire, child>>
           /\ (conn' = conn \/ conn' = [conn EXCEPT ![p].st = "starting"])
  <2>1. \A o \in Pairs : conn'[o].slow = conn[o].slow
    BY <1>1, <1>3 DEF ConnTable
  <2> QED
    BY <1>3, <2>1 DEF IssuedFor
<1>4. CASE turn' = [f EXCEPT ![t][field] = "error"] /\ UNCHANGED <<conn, wire, child>>
  BY <1>4 DEF IssuedFor
<1> QED
  BY <1>2, <1>3, <1>4 DEF Issue

LEMMA RequestOnly ==
    ASSUME NEW f \in TurnTable, NEW t \in Turns, NEW x \in {"sent", "joined", "error"}
    PROVE  /\ OnlyOf(f, [f EXCEPT ![t].rq = x], t, {"rq"})
           /\ [f EXCEPT ![t].rq = x][t].rq = x
           /\ OnlyOf(f, [f EXCEPT ![t].dq = x], t, {"dq"})
           /\ [f EXCEPT ![t].dq = x][t].dq = x
<1> DEFINE a == [f[t] EXCEPT !.rq = x]
           b == [f[t] EXCEPT !.dq = x]
<1>1. f[t] \in TurnState /\ x \in Requests /\ x \in Requests \cup Turns
  BY DEF TurnTable, Requests
<1>4. Only(f[t], a, {"rq"}) /\ a.rq = x
  BY <1>1, RqSet
<1>5. Only(f[t], b, {"dq"}) /\ b.dq = x
  BY <1>1, DqSet
<1>3. [f EXCEPT ![t].rq = x] = [f EXCEPT ![t] = a] /\ [f EXCEPT ![t].dq = x] = [f EXCEPT ![t] = b]
  BY DEF TurnTable
<1> HIDE DEF a, b
<1>6. OnlyOf(f, [f EXCEPT ![t] = a], t, {"rq"}) /\ [f EXCEPT ![t] = a][t] = a
  BY <1>4 DEF OnlyOf, Only, TurnTable
<1>7. OnlyOf(f, [f EXCEPT ![t] = b], t, {"dq"}) /\ [f EXCEPT ![t] = b][t] = b
  BY <1>5 DEF OnlyOf, Only, TurnTable
<1> QED
  BY <1>3, <1>4, <1>5, <1>6, <1>7

(* Turn t sends the next request of beginTurn.                               *)
Sends(p, t) ==
    \E ph \in {"load", "start", "reload", "restart"}, x \in {"sent", "joined", "error"} :
      /\ OnlyOf(turn, turn', t, {"ph", "rq"}) /\ turn'[t].ph = ph /\ turn'[t].rq = x
      /\ IF x = "sent" THEN wire'[p].in = wire[p].in \cup {LineFor(t, ph)}
                       ELSE wire'[p].in = wire[p].in
      /\ wire'[p].out = wire[p].out /\ \A o \in Pairs \ {p} : wire'[o] = wire[o]
      /\ \A o \in Pairs : conn'[o].slow = conn[o].slow
      /\ child' = child

LEMMA IssueSends ==
    ASSUME Basis, NEW p \in Pairs, NEW t \in Turns, NEW f,
           NEW ph \in {"load", "start", "reload", "restart"},
           OnlyOf(turn, f, t, {"ph", "rq"}), f[t].ph = ph, Issue(p, f, t, "rq", LineFor(t, ph))
    PROVE  Sends(p, t) /\ turn'[t].ph = ph
<1>1. IssuedFor(p, f, t, "rq", LineFor(t, ph)) /\ f \in TurnTable
  BY IssueFor DEF OnlyOf
<1>2. PICK x \in {"sent", "joined", "error"} :
         /\ turn' = [f EXCEPT ![t].rq = x]
         /\ IF x = "sent" THEN wire'[p].in = wire[p].in \cup {LineFor(t, ph)}
                          ELSE wire'[p].in = wire[p].in
  BY <1>1 DEF IssuedFor
<1>5. OnlyOf(f, turn', t, {"rq"})
  BY <1>1, <1>2, RequestOnly
<1>6. turn'[t].rq = x
  BY <1>1, <1>2, RequestOnly
<1>3. OnlyOf(f, turn', t, {"rq"}) /\ turn'[t].rq = x
  BY <1>5, <1>6
<1>4. OnlyOf(turn, turn', t, {"ph", "rq"}) /\ turn'[t].ph = ph
  BY <1>3 DEF OnlyOf, Only
<1> QED
  BY <1>1, <1>2, <1>3, <1>4 DEF Sends, IssuedFor

-----------------------------------------------------------------------------
(* Whose turn it is. A turn that has begun and is not over is the one that   *)
(* runs in its session; one that has not begun has no driver. A driver that  *)
(* has asked knew an id to ask for.                                          *)
RunsNow(t) == ses[turn[t].pair][SessionOf[t]].running = t
IdKnown(f, t) == f[t].pid \/ f[t].lid # None

RunningKnown ==
    \A p \in Pairs, s \in Sessions :
      LET r == ses[p][s].running IN
      /\ r # None => /\ turn[r].pair = p /\ SessionOf[r] = s
                     /\ turn[r].out = "none" /\ turn[r].ph \notin Early
      /\ ses[p][s].block # None => r \in {None, ses[p][s].block}

Unbegun(t) == /\ turn[t].out = "none" /\ turn[t].drv = "none" /\ turn[t].dq = "none"
              /\ ~turn[t].settle /\ turn[t].lid = None /\ ~turn[t].pid

Drivable(t) == /\ turn[t].pid => turn[t].ph = "open"
               /\ turn[t].drv \in {"ask", "again"} \/ turn[t].dq # "none" => IdKnown(turn, t)

TurnsRun ==
    \A t \in Turns :
      /\ turn[t].ph \in Early => Unbegun(t)
      /\ turn[t].ph \notin Early /\ turn[t].out = "none" => RunsNow(t)
      /\ Drivable(t)

(* What the child and the wire of a pair speak of are turns of that pair     *)
(* that have begun, and those that are interrupted are known.                *)
Begun(f, t, p)  == t \in Turns /\ f[t].ph \notin Early /\ f[t].pair = p
Speaks(f, l, p) == Begun(f, l.for, p) /\ (l.what = "interrupt" => IdKnown(f, l.for))

Heard ==
    \A p \in Pairs :
      /\ \A m \in wire[p].in : Speaks(turn, m, p)
      /\ \A i \in DOMAIN wire[p].out : Speaks(turn, wire[p].out[i], p)
      /\ \A s \in Sessions : LET x == child[p][s].active IN
           x # None => Begun(turn, x, p) /\ SessionOf[x] = s

Turning == RunningKnown /\ TurnsRun /\ Heard

(* A step of turn t: it waits on, it is over, or it is the one that runs.    *)
Waiting(t) == turn[t].ph \in Early /\ Unbegun(t)
Over(t)    == turn[t].ph \notin Early /\ turn[t].out # "none" /\ ~RunsNow(t)
Goes1(t)   == turn[t].ph \notin Early /\ turn[t].out = "none" /\ RunsNow(t)

Moves(t) ==
    /\ Drivable(t)' /\ (IdKnown(turn, t) => IdKnown(turn', t))
    /\ turn[t].ph \notin Early => turn'[t].ph \notin Early /\ turn'[t].pair = turn[t].pair
    /\ Waiting(t)' \/ Over(t)' \/ Goes1(t)'

(* Nobody runs where another turn ran.                                       *)
Places ==
    \A p \in Pairs, s \in Sessions :
      LET r == ses[p][s].running  n == ses'[p][s].running IN
      /\ n # None => n = r \/ (turn'[n].pair = p /\ SessionOf[n] = s /\ turn'[n].ph \notin Early)
      /\ ses'[p][s].block # None => n \in {None, ses'[p][s].block}

(* What is written is of turns that have begun.                              *)
Written ==
    \A p \in Pairs :
      /\ \A m \in wire'[p].in : m \in wire[p].in \/ Speaks(turn', m, p)
      /\ \A i \in DOMAIN wire'[p].out :
           (\E j \in DOMAIN wire[p].out : wire'[p].out[i] = wire[p].out[j])
             \/ Speaks(turn', wire'[p].out[i], p)
      /\ \A s \in Sessions : LET x == child'[p][s].active IN
           x \in {None, child[p][s].active} \/ (Begun(turn', x, p) /\ SessionOf[x] = s)

LEMMA MovesTurning ==
    ASSUME Basis, Basis', Turning, \A t \in Turns : Moves(t), Places, Written
    PROVE  Turning'
<1>1. RunningKnown'
  <2> SUFFICES ASSUME NEW p \in Pairs, NEW s \in Sessions
               PROVE  LET r == ses'[p][s].running IN
                      /\ r # None => /\ turn'[r].pair = p /\ SessionOf[r] = s
                                     /\ turn'[r].out = "none" /\ turn'[r].ph \notin Early
                      /\ ses'[p][s].block # None => r \in {None, ses'[p][s].block}
    BY DEF RunningKnown
  <2> DEFINE n == ses'[p][s].running
  <2>1. n \in Turns \cup {None} /\ ses[p][s].running \in Turns \cup {None}
    <3>1. (ses \in SesTable) /\ (ses \in SesTable)'
      BY BasisParts DEF Basis, CodexTypeOK, SesTable
    <3> QED
      BY <3>1 DEF SesTable, SessionState
  <2>2. ASSUME NEW u \in Turns, u = n
        PROVE  turn'[u].pair = p /\ SessionOf[u] = s /\ turn'[u].out = "none" /\ turn'[u].ph \notin Early
    <3>0. u # None
      BY CodexAssumption
    <3>1. turn'[u].pair = p /\ SessionOf[u] = s /\ turn'[u].ph \notin Early
      <4>1. CASE u = ses[p][s].running
        <5>1. turn[u].pair = p /\ SessionOf[u] = s /\ turn[u].ph \notin Early
          BY <3>0, <4>1 DEF Turning, RunningKnown
        <5> QED
          BY <5>1 DEF Moves
      <4> QED
        BY <2>2, <3>0, <4>1 DEF Places
    <3>2. RunsNow(u)'
      BY <2>2, <3>1 DEF RunsNow
    <3> QED
      BY <3>1, <3>2 DEF Moves, Waiting, Over, Goes1
  <2>4. ses'[p][s].block # None => n \in {None, ses'[p][s].block}
    BY DEF Places
  <2> QED
    BY <2>1, <2>2, <2>4
<1>2. TurnsRun'
  BY DEF Moves, Waiting, Over, Goes1, TurnsRun
<1>3. Heard'
  <2>1. ASSUME NEW t, NEW p, Begun(turn, t, p) PROVE Begun(turn', t, p) /\ (IdKnown(turn, t) => IdKnown(turn', t))
    BY <2>1 DEF Begun, Moves
  <2>2. ASSUME NEW l, NEW p, Speaks(turn, l, p) PROVE Speaks(turn', l, p)
    BY <2>1, <2>2 DEF Speaks
  <2>3. ASSUME NEW p \in Pairs PROVE \A m \in wire'[p].in : Speaks(turn', m, p)
    BY <2>2 DEF Turning, Heard, Written
  <2>4. ASSUME NEW p \in Pairs PROVE \A i \in DOMAIN wire'[p].out : Speaks(turn', wire'[p].out[i], p)
    BY <2>2 DEF Turning, Heard, Written
  <2>5. ASSUME NEW p \in Pairs, NEW s \in Sessions, child'[p][s].active # None
        PROVE  Begun(turn', child'[p][s].active, p) /\ SessionOf[child'[p][s].active] = s
    BY <2>1, <2>5 DEF Turning, Heard, Written
  <2> QED
    BY <2>3, <2>4, <2>5 DEF Heard
<1> QED
  BY <1>1, <1>2, <1>3 DEF Turning

(* A turn that is left alone, by a step that does not make it run or stop it. *)
LEMMA LeftMoves ==
    ASSUME Basis, Turning, NEW t \in Turns, turn' \in TurnTable,
           Only(turn[t], turn'[t], {"rq", "settle"}),
           turn[t].settle = turn'[t].settle \/ turn[t].ph \notin Early,
           turn[t].ph \notin Early => (RunsNow(t)' <=> RunsNow(t))
    PROVE  Moves(t)
<1>1. /\ turn'[t].ph = turn[t].ph /\ turn'[t].pair = turn[t].pair /\ turn'[t].out = turn[t].out
      /\ turn'[t].drv = turn[t].drv /\ turn'[t].dq = turn[t].dq
      /\ turn'[t].lid = turn[t].lid /\ turn'[t].pid = turn[t].pid
  BY DEF Only
<1>2. Drivable(t) /\ (turn[t].ph \in Early => Unbegun(t))
      /\ (turn[t].ph \notin Early /\ turn[t].out = "none" => RunsNow(t))
  BY DEF Turning, TurnsRun
<1>3. Drivable(t)' /\ (IdKnown(turn, t) => IdKnown(turn', t))
  BY <1>1, <1>2 DEF Drivable, IdKnown
<1>4. turn[t].ph \notin Early /\ turn[t].out # "none" => ~RunsNow(t)
  <2>1. turn[t].ph # "new" => turn[t].pair \in Pairs
    BY BasisParts DEF TurnsKnown
  <2>2. t # None /\ SessionOf[t] \in Sessions
    BY CodexAssumption
  <2> QED
    BY <2>1, <2>2 DEF Turning, RunningKnown, RunsNow, Early
<1>5. Waiting(t)' \/ Over(t)' \/ Goes1(t)'
  <2>1. CASE turn[t].ph \in Early
    BY <1>1, <1>2, <2>1 DEF Waiting, Unbegun
  <2>2. CASE turn[t].ph \notin Early
    BY <1>1, <1>2, <1>4, <2>2 DEF Over, Goes1
  <2> QED
    BY <2>1, <2>2
<1> QED
  BY <1>1, <1>3, <1>5 DEF Moves

(* Turns that have not begun, and may end at once.                           *)
SameRunning == \A p \in Pairs, s \in Sessions :
                 ses'[p][s].running = ses[p][s].running /\ ses'[p][s].block = ses[p][s].block
SameSlow == \A p \in Pairs : conn'[p].slow = conn[p].slow

EarlyMoves ==
    /\ turn' \in TurnTable
    /\ \A u \in Turns : \/ Only(turn[u], turn'[u], {})
                        \/ /\ turn[u].ph \in Early /\ Only(turn[u], turn'[u], {"ph", "pair", "out"})
                           /\ \/ turn'[u].ph \in Early /\ turn'[u].out = turn[u].out
                              \/ turn'[u].ph = "open" /\ turn'[u].out # "none"
    /\ SameRunning /\ SameSlow /\ UNCHANGED <<wire, child, stale>>

LEMMA EarlyTurning == ASSUME Basis, Basis', Turning, EarlyMoves PROVE Turning'
<1>1. ASSUME NEW t \in Turns PROVE Moves(t)
  <2>0. turn[t].ph # "new" => turn[t].pair \in Pairs
    BY BasisParts DEF TurnsKnown
  <2>e. SessionOf[t] \in Sessions /\ turn' \in TurnTable
    BY TurnTypes DEF EarlyMoves
  <2>1. CASE Only(turn[t], turn'[t], {})
    <3>1. turn[t].ph \notin Early => (RunsNow(t)' <=> RunsNow(t))
      BY <2>0, <2>e, <2>1 DEF RunsNow, EarlyMoves, SameRunning, Only, Early
    <3>2. Only(turn[t], turn'[t], {"rq", "settle"}) /\ turn[t].settle = turn'[t].settle
      BY <2>1 DEF Only
    <3> QED
      BY <2>e, <3>1, <3>2, LeftMoves
  <2>2. CASE turn[t].ph \in Early /\ Only(turn[t], turn'[t], {"ph", "pair", "out"})
             /\ \/ turn'[t].ph \in Early /\ turn'[t].out = turn[t].out
                \/ turn'[t].ph = "open" /\ turn'[t].out # "none"
    <3>1. /\ turn'[t].rq = turn[t].rq /\ turn'[t].dq = turn[t].dq /\ turn'[t].drv = turn[t].drv
          /\ turn'[t].settle = turn[t].settle /\ turn'[t].pid = turn[t].pid
          /\ turn'[t].lid = turn[t].lid
      BY <2>2 DEF Only
    <3>2. Unbegun(t)
      BY <2>2 DEF Turning, TurnsRun
    <3>3. Drivable(t)' /\ (IdKnown(turn, t) => IdKnown(turn', t))
      BY <3>1, <3>2 DEF Drivable, IdKnown, Unbegun
    <3>4. ASSUME turn'[t].ph \notin Early PROVE ~RunsNow(t)'
      <4>0. t # None
        BY CodexAssumption
      <4>1. turn'[t].pair \in Pairs
        BY <3>4 DEF Basis, TurnsKnown, Early
      <4>2. ses[turn'[t].pair][SessionOf[t]].running # t
        BY <2>e, <2>2, <4>0, <4>1 DEF Turning, RunningKnown
      <4> QED
        BY <2>e, <4>1, <4>2 DEF RunsNow, EarlyMoves, SameRunning
    <3>5. Waiting(t)' \/ Over(t)'
      BY <2>2, <3>1, <3>2, <3>4 DEF Waiting, Over, Unbegun, Early
    <3> QED
      BY <2>2, <3>3, <3>5 DEF Moves
  <2> QED
    BY <2>1, <2>2 DEF EarlyMoves
<1>2. Places
  BY DEF Places, EarlyMoves, SameRunning, Turning, RunningKnown
<1>3. Written
  BY DEF Written, EarlyMoves
<1> QED
  BY <1>1, <1>2, <1>3, MovesTurning

LEMMA EarlyOf ==
    ASSUME Basis, NEW t \in Turns, SameRunning, SameSlow, UNCHANGED <<wire, child, stale>>,
           \/ OnlyOf(turn, turn', t, {})
           \/ /\ turn[t].ph \in Early /\ OnlyOf(turn, turn', t, {"ph", "pair", "out"})
              /\ \/ turn'[t].ph \in Early /\ turn'[t].out = turn[t].out
                 \/ turn'[t].ph = "open" /\ turn'[t].out # "none"
    PROVE  EarlyMoves
<1>1. \A u \in Turns \ {t} : Only(turn[u], turn'[u], {}) /\ turn' \in TurnTable
  BY DEF OnlyOf, Only, TurnTable
<1> QED
  BY <1>1 DEF OnlyOf, EarlyMoves

LEMMA SessionsSame == ASSUME ses' = ses PROVE SameRunning
BY DEF SameRunning

LEMMA StartEarly == ASSUME Basis, NEW t \in Turns, StartRun(t) PROVE EarlyMoves
<1> DEFINE p == IF rt.setup # 0 THEN rt.setup ELSE rt.last + 1
           a == [turn[t] EXCEPT !.ph = "setup"]
           b == [a EXCEPT !.pair = p]
<1>1. turn \in TurnTable /\ turn[t] \in TurnState /\ turn[t].ph = "new" /\ p \in 0..MaxPairs
  BY TurnTypes, BasisParts, RtFields, CodexAssumption DEF StartRun
<1>2. turn' = [turn EXCEPT ![t] = b]
  BY <1>1 DEF StartRun, TurnTable
<1> HIDE DEF p
<1>3. Only(turn[t], a, {"ph"}) /\ a.ph = "setup"
  BY <1>1, PhSet
<1> HIDE DEF a
<1>4. Only(a, b, {"pair"})
  BY <1>1, <1>3, PairSet DEF Only
<1> HIDE DEF b
<1>5. Only(turn[t], b, {"ph", "pair", "out"}) /\ b.ph = "setup" /\ b.out = turn[t].out
  BY <1>3, <1>4 DEF Only
<1>6. OnlyOf(turn, turn', t, {"ph", "pair", "out"}) /\ turn'[t] = b
  BY <1>1, <1>2, <1>5, SetOnly
<1> QED
  BY <1>1, <1>5, <1>6, EarlyOf, SessionsSame DEF StartRun, KeepPair, SameSlow, Early

LEMMA KillEarly == ASSUME Basis, NEW t \in Turns, Kill(t) PROVE EarlyMoves
<1> DEFINE x == IF rt.setup = 0 THEN -1 ELSE rt.setup
           a == [turn[t] EXCEPT !.killed = x]
<1>1. turn \in TurnTable /\ turn[t] \in TurnState /\ x \in -1..MaxPairs
  BY TurnTypes, BasisParts, RtFields, CodexAssumption DEF Kill
<1>2. turn' = [turn EXCEPT ![t] = a]
  BY <1>1 DEF Kill, TurnTable
<1> HIDE DEF x
<1>3. Only(turn[t], a, {})
  BY <1>1, KilledSet
<1> HIDE DEF a
<1>6. OnlyOf(turn, turn', t, {})
  BY <1>1, <1>2, <1>3, SetOnly
<1> QED
  BY <1>6, EarlyOf, SessionsSame DEF Kill, KeepPair, SameSlow

LEMMA CreateEarly == ASSUME Basis, NEW p \in Pairs, CreatePair(p) PROVE EarlyMoves
<1>1. turn \in TurnTable /\ turn' = turn
  BY BasisParts DEF CreatePair
<1>2. \A u \in Turns : Only(turn[u], turn'[u], {})
  BY <1>1 DEF Only, TurnTable
<1> QED
  BY <1>1, <1>2, SessionsSame DEF CreatePair, KeepPair, EarlyMoves, SameSlow

LEMMA GoneOnly ==
    ASSUME NEW f \in TurnTable, NEW t \in Turns
    PROVE  OnlyOf(f, [f EXCEPT ![t].gone = TRUE, ![t].by = None], t, {})
<1> DEFINE a == [f[t] EXCEPT !.gone = TRUE]
           b == [a EXCEPT !.by = None]
<1>1. f[t] \in TurnState /\ [f EXCEPT ![t].gone = TRUE, ![t].by = None] = [f EXCEPT ![t] = b]
  BY DEF TurnTable
<1>2. Only(f[t], a, {})
  BY <1>1, GoneSet
<1> HIDE DEF a
<1>3. Only(a, b, {})
  BY <1>2, BySet DEF Only
<1> HIDE DEF b
<1>4. Only(f[t], b, {})
  BY <1>2, <1>3 DEF Only
<1> QED
  BY <1>1, <1>4, SetOnly

(* What of a session record decides whose turn it is.                        *)
Stays(a, b, q) == /\ b \in SessionState /\ b.running = a.running /\ b.block = a.block
                  /\ b.queue = q

LEMMA SessionStays ==
    ASSUME NEW a \in SessionState
    PROVE  /\ \A x \in BOOLEAN : Stays(a, [a EXCEPT !.owned = x], a.queue)
           /\ \A x \in BOOLEAN : Stays(a, [a EXCEPT !.thread = x], a.queue)
           /\ \A x \in Int : Stays(a, [a EXCEPT !.gen = x], a.queue)
           /\ \A q \in Seq(Turns \cup {None}) : Stays(a, [a EXCEPT !.queue = q], q)
<1> DEFINE Q == Seq(Turns \cup {None})
<1>1. SessionState = [owned : BOOLEAN, thread : BOOLEAN, gen : Int, running : Turns \cup {None},
                      block : Turns \cup {None}, drives : BOOLEAN, queue : Q]
  BY DEF SessionState
<1> HIDE DEF Q
<1>2. \A x \in BOOLEAN : Stays(a, [a EXCEPT !.owned = x], a.queue)
  BY <1>1 DEF Stays
<1>3. \A x \in BOOLEAN : Stays(a, [a EXCEPT !.thread = x], a.queue)
  BY <1>1 DEF Stays
<1>4. \A x \in Int : Stays(a, [a EXCEPT !.gen = x], a.queue)
  BY <1>1 DEF Stays
<1>5. \A x \in Q : Stays(a, [a EXCEPT !.queue = x], x)
  BY <1>1 DEF Stays
<1> QED
  BY <1>2, <1>3, <1>4, <1>5 DEF Q

LEMMA SetStays ==
    ASSUME Basis, NEW p \in Pairs, NEW s \in Sessions, NEW b, NEW q, Stays(ses[p][s], b, q),
           ses' = [ses EXCEPT ![p][s] = b]
    PROVE  SameRunning /\ ses'[p][s].queue = q /\ OtherSessions(p, s)
<1>1. SetTo([ses EXCEPT ![p][s] = b], p, s, b)
  BY SessionSet DEF Stays
<1>2. SetTo(ses', p, s, b)
  BY <1>1
<1> QED
  BY <1>2 DEF SetTo, Stays, SameRunning, OtherSessions, SameSession

(* A turn joins the queue of its session in the current manager.             *)
Queues(p, s, x) ==
    /\ p \in Pairs /\ SameRunning /\ OtherSessions(p, s)
    /\ ses'[p][s].queue = Append(ses[p][s].queue, x)

LEMMA EnterQueues ==
    ASSUME Basis, NEW t \in Turns, EnterManager(t), ~(turn[t].pair \in rt.failed \/ rt.cur = 0)
    PROVE  Queues(rt.cur, SessionOf[t], t)
<1> DEFINE p == rt.cur
           s == SessionOf[t]
           o == ses[p][s]
           q == Append(o.queue, t)
           n == conn[p].gen - 1
           a == [o EXCEPT !.owned = TRUE]
           b == [a EXCEPT !.queue = q]
           c == [a EXCEPT !.thread = TRUE]
           d == [c EXCEPT !.gen = n]
           e == [d EXCEPT !.queue = q]
<1>1. p \in Pairs /\ s \in Sessions /\ conn \in ConnTable /\ ses \in SesTable
  BY BasisParts, RtFields, CodexAssumption DEF Pairs
<1>2. o \in SessionState /\ n \in Int /\ q \in Seq(Turns \cup {None})
  BY <1>1 DEF SesTable, ConnTable, SessionState
<1>3. ses' = [ses EXCEPT ![p][s] =
              IF s \in Resumed /\ ~o.owned
                THEN [o EXCEPT !.owned = TRUE, !.thread = TRUE, !.gen = n, !.queue = q]
                ELSE [o EXCEPT !.owned = TRUE, !.queue = q]]
  BY DEF EnterManager
<1> HIDE DEF n, q, o
<1>4. ses' = [ses EXCEPT ![p][s] = IF s \in Resumed /\ ~o.owned THEN e ELSE b]
  <2>1. [o EXCEPT !.owned = TRUE, !.thread = TRUE, !.gen = n, !.queue = q] = e
        /\ [o EXCEPT !.owned = TRUE, !.queue = q] = b
    BY <1>2 DEF SessionState
  <2> HIDE DEF e, b
  <2> QED
    BY <1>3, <2>1
<1>5. Stays(o, a, o.queue)
  BY <1>2, SessionStays
<1> HIDE DEF a
<1>6. Stays(a, b, q) /\ Stays(a, c, a.queue)
  BY <1>2, <1>5, SessionStays DEF Stays
<1> HIDE DEF b, c
<1>7. Stays(c, d, c.queue)
  BY <1>2, <1>6, SessionStays DEF Stays
<1> HIDE DEF d
<1>8. Stays(d, e, q)
  BY <1>2, <1>7, SessionStays DEF Stays
<1> HIDE DEF e
<1> DEFINE g == IF s \in Resumed /\ ~o.owned THEN e ELSE b
<1>9. Stays(o, g, q) /\ ses' = [ses EXCEPT ![p][s] = g]
  BY <1>4, <1>5, <1>6, <1>7, <1>8 DEF Stays
<1> HIDE DEF g, p, s
<1>10. SameRunning /\ ses'[p][s].queue = q /\ OtherSessions(p, s)
  BY <1>1, <1>9, SetStays DEF o
<1> QED
  BY <1>1, <1>10 DEF Queues, p, s, q, o

LEMMA AbortQueues ==
    ASSUME Basis, NEW t \in Turns, AbortAfterSetup(t)
    PROVE  ses' = ses \/ Queues(rt.cur, SessionOf[t], None)
<1> DEFINE p == rt.cur
           s == SessionOf[t]
           o == ses[p][s]
           q == Append(o.queue, None)
           a == [o EXCEPT !.owned = TRUE]
           b == [a EXCEPT !.queue = q]
<1>0. CASE p = 0 \/ turn[t].killed \in rt.failed
  BY <1>0 DEF AbortAfterSetup
<1>a. CASE ~(p = 0 \/ turn[t].killed \in rt.failed)
  <2>1. p \in Pairs /\ s \in Sessions /\ ses \in SesTable
    BY <1>a, BasisParts, RtFields, CodexAssumption DEF Pairs
  <2>2. o \in SessionState /\ q \in Seq(Turns \cup {None})
    BY <2>1 DEF SesTable, SessionState
  <2>3. ses' = [ses EXCEPT ![p][s].owned = TRUE, ![p][s].queue = Append(@, None)]
    BY <1>a DEF AbortAfterSetup
  <2>4. ses' = [ses EXCEPT ![p][s] = b]
    BY <2>1, <2>2, <2>3 DEF SesTable, SessionState
  <2> HIDE DEF q, o
  <2>5. Stays(o, a, o.queue)
    BY <2>2, SessionStays
  <2> HIDE DEF a
  <2>6. Stays(a, b, q)
    BY <2>2, <2>5, SessionStays DEF Stays
  <2> HIDE DEF b
  <2>7. Stays(o, b, q)
    BY <2>5, <2>6 DEF Stays
  <2> HIDE DEF p, s
  <2>8. SameRunning /\ ses'[p][s].queue = q /\ OtherSessions(p, s)
    BY <2>1, <2>4, <2>7, SetStays DEF o
  <2> QED
    BY <2>1, <2>8 DEF Queues, p, s, q, o
<1> QED
  BY <1>0, <1>a

LEMMA EnterEarly == ASSUME Basis, NEW t \in Turns, EnterManager(t) PROVE EarlyMoves
<1>1. turn \in TurnTable /\ turn[t] \in TurnState /\ turn[t].ph = "setup" /\ rt.cur \in 0..MaxPairs
  BY TurnTypes, BasisParts, RtFields DEF EnterManager, EnterDue
<1>2. UNCHANGED <<conn, stale, wire, child>>
  BY DEF EnterManager
<1>3. CASE turn[t].pair \in rt.failed \/ rt.cur = 0
  <2> DEFINE a == [turn[t] EXCEPT !.ph = "open"]
             b == [a EXCEPT !.out = "failed"]
             c == [b EXCEPT !.by = t]
  <2>1. turn' = [turn EXCEPT ![t] = c] /\ ses' = ses
    BY <1>1, <1>3 DEF EnterManager, TurnTable
  <2>2. Only(turn[t], a, {"ph"}) /\ a.ph = "open"
    BY <1>1, PhSet
  <2> HIDE DEF a
  <2>3. Only(a, b, {"out"}) /\ b.out = "failed"
    BY <2>2, OutSet DEF Only, Outcomes
  <2> HIDE DEF b
  <2>4. Only(b, c, {})
    BY <2>3, BySet DEF Only
  <2> HIDE DEF c
  <2>5. Only(turn[t], c, {"ph", "pair", "out"}) /\ c.ph = "open" /\ c.out = "failed"
    BY <2>2, <2>3, <2>4 DEF Only
  <2>6. OnlyOf(turn, turn', t, {"ph", "pair", "out"}) /\ turn'[t] = c
    BY <1>1, <2>1, <2>5, SetOnly
  <2> QED
    BY <1>1, <1>2, <2>1, <2>5, <2>6, EarlyOf, SessionsSame DEF SameSlow, Early
<1>4. CASE ~(turn[t].pair \in rt.failed \/ rt.cur = 0)
  <2> DEFINE a == [turn[t] EXCEPT !.ph = "queued"]
             b == [a EXCEPT !.pair = rt.cur]
  <2>1. turn' = [turn EXCEPT ![t] = b]
    BY <1>1, <1>4 DEF EnterManager, TurnTable
  <2>2. Only(turn[t], a, {"ph"}) /\ a.ph = "queued"
    BY <1>1, PhSet
  <2> HIDE DEF a
  <2>3. Only(a, b, {"pair"})
    BY <1>1, <2>2, PairSet DEF Only
  <2> HIDE DEF b
  <2>5. Only(turn[t], b, {"ph", "pair", "out"}) /\ b.ph = "queued" /\ b.out = turn[t].out
    BY <2>2, <2>3 DEF Only
  <2>6. OnlyOf(turn, turn', t, {"ph", "pair", "out"}) /\ turn'[t] = b
    BY <1>1, <2>1, <2>5, SetOnly
  <2>7. SameRunning
    BY <1>4, EnterQueues DEF Queues
  <2> QED
    BY <1>1, <1>2, <2>5, <2>6, <2>7, EarlyOf DEF SameSlow, Early
<1> QED
  BY <1>3, <1>4

LEMMA AbortEarly == ASSUME Basis, NEW t \in Turns, AbortAfterSetup(t) PROVE EarlyMoves
<1> DEFINE a == [turn[t] EXCEPT !.killed = -1]
<1>1. turn \in TurnTable /\ turn[t] \in TurnState /\ -1 \in -1..MaxPairs
  BY TurnTypes, CodexAssumption
<1>2. turn' = [turn EXCEPT ![t] = a]
  BY <1>1 DEF AbortAfterSetup, TurnTable
<1>3. Only(turn[t], a, {})
  BY <1>1, KilledSet
<1> HIDE DEF a
<1>4. OnlyOf(turn, turn', t, {})
  BY <1>1, <1>2, <1>3, SetOnly
<1>5. SameRunning
  BY AbortQueues, SessionsSame DEF Queues
<1> QED
  BY <1>4, <1>5, EarlyOf DEF AbortAfterSetup, SameSlow

(* The child of pair p is lost: nobody runs there, nothing is on the wire.   *)
Dropped(p, x, q) == IF q = p /\ x \in Pending THEN "error" ELSE x

LostTurn(p, a, b, runs) ==
    /\ b \in TurnState /\ b.ph = a.ph /\ b.pair = a.pair /\ b.drv = a.drv
    /\ b.pid = a.pid /\ b.lid = a.lid
    /\ b.rq = Dropped(p, a.rq, a.pair) /\ b.dq = Dropped(p, a.dq, a.pair)
    /\ IF runs THEN b.out # "none" ELSE b.out = a.out /\ b.settle = a.settle

Lost(p) ==
    /\ turn' \in TurnTable
    /\ \A u \in Turns : LostTurn(p, turn[u], turn'[u], u \in RunningIn(p))
    /\ \A o \in Pairs, s \in Sessions :
         /\ IF o = p THEN ses'[o][s].running = None
                     ELSE ses'[o][s].running = ses[o][s].running
         /\ ses'[o][s].block = ses[o][s].block /\ ses'[o][s].queue = ses[o][s].queue
    /\ wire'[p] = NoLines /\ child'[p] = NewChild
    /\ \A o \in Pairs \ {p} : /\ wire'[o] = wire[o] /\ child'[o] = child[o]
                              /\ conn'[o].slow = conn[o].slow /\ stale'[o] = stale[o]

LEMMA OrphanedLost ==
    ASSUME NEW f \in TurnTable, NEW p, NEW u \in Turns
    PROVE  LostTurn(p, f[u], Orphaned(p, f)[u], u \in RunningIn(p))
<1> DEFINE rq  == Dropped(p, f[u].rq, f[u].pair)
           dq  == Dropped(p, f[u].dq, f[u].pair)
           end == IF f[u].abort THEN "interrupted" ELSE "failed"
           g   == [f[u] EXCEPT !.rq = rq]
           h   == [g EXCEPT !.dq = dq]
           a   == [h EXCEPT !.out = end]
           b   == [a EXCEPT !.by = u]
           c   == [b EXCEPT !.settle = FALSE]
<1>1. f[u] \in TurnState /\ rq \in Requests /\ dq \in Requests \cup Turns /\ end \in Outcomes
      /\ end # "none"
  BY DEF TurnTable, TurnState, Requests, Outcomes, Dropped
<1>3. Orphaned(p, f)[u] = IF u \in RunningIn(p) THEN c ELSE h
  BY DEF Orphaned, TurnTable, Dropped
<1> HIDE DEF rq, dq, end
<1>4. Only(f[u], g, {"rq"}) /\ g.rq = rq
  BY <1>1, RqSet
<1> HIDE DEF g
<1>5. Only(g, h, {"dq"}) /\ h.dq = dq
  BY <1>1, <1>4, DqSet DEF Only
<1> HIDE DEF h
<1>6. Only(h, a, {"out"}) /\ a.out = end
  BY <1>1, <1>5, OutSet DEF Only
<1> HIDE DEF a
<1>7. Only(a, b, {})
  BY <1>6, BySet DEF Only
<1> HIDE DEF b
<1>8. Only(b, c, {"settle"})
  BY <1>7, WaitSet DEF Only
<1> HIDE DEF c
<1>9. Only(f[u], h, {"rq", "dq"}) /\ h.rq = rq /\ h.dq = dq
  BY <1>4, <1>5 DEF Only
<1>10. Only(h, c, {"out", "settle"}) /\ c.out = end
  BY <1>6, <1>7, <1>8 DEF Only
<1>11. CASE u \in RunningIn(p)
  BY <1>1, <1>3, <1>9, <1>10, <1>11 DEF LostTurn, Only, rq, dq
<1>12. CASE u \notin RunningIn(p)
  BY <1>3, <1>9, <1>12 DEF LostTurn, Only, rq, dq
<1> QED
  BY <1>11, <1>12

LEMMA LoseLost ==
    ASSUME Basis, NEW p \in Pairs, NEW f \in TurnTable, \A u \in Turns : Only(turn[u], f[u], {}),
           NEW reaps, Lose(p, f, reaps)
    PROVE  Lost(p)
<1>0. /\ ses \in SesTable /\ conn \in ConnTable /\ wire \in WireTable /\ child \in KidTable
      /\ stale \in [Pairs -> SUBSET Turns]
  BY BasisParts
<1>1. turn' = Orphaned(p, f) /\ Orphaned(p, f) \in TurnTable
  BY OrphanedKeeps DEF Lose
<1>2. ASSUME NEW u \in Turns PROVE LostTurn(p, turn[u], turn'[u], u \in RunningIn(p))
  <2>1. LostTurn(p, f[u], turn'[u], u \in RunningIn(p))
    BY <1>1, OrphanedLost
  <2> QED
    BY <2>1 DEF LostTurn, Only, Dropped
<1>3. ASSUME NEW o \in Pairs, NEW s \in Sessions
      PROVE  /\ IF o = p THEN ses'[o][s].running = None
                         ELSE ses'[o][s].running = ses[o][s].running
             /\ ses'[o][s].block = ses[o][s].block /\ ses'[o][s].queue = ses[o][s].queue
  <2> DEFINE b == [ses[p][s] EXCEPT !.running = None]
  <2>1. ses[p][s] \in SessionState
    BY <1>0 DEF SesTable
  <2>2. b \in SessionState
    BY <2>1, SessionFields
  <2>3. b.running = None /\ b.block = ses[p][s].block /\ b.queue = ses[p][s].queue
    BY <2>1, <2>2 DEF SessionState
  <2>4. ses' = [ses EXCEPT ![p] = [z \in Sessions |-> [ses[p][z] EXCEPT !.running = None]]]
    BY DEF Lose
  <2>5. o = p => ses'[o][s] = b
    BY <1>0, <2>4 DEF SesTable
  <2>6. o # p => ses'[o][s] = ses[o][s]
    BY <1>0, <2>4 DEF SesTable
  <2> HIDE DEF b
  <2> QED
    BY <2>3, <2>5, <2>6
<1>4. wire'[p] = NoLines /\ child'[p] = NewChild
  BY <1>0 DEF Lose, WireTable, KidTable
<1>5. ASSUME NEW o \in Pairs \ {p}
      PROVE  /\ wire'[o] = wire[o] /\ child'[o] = child[o]
             /\ conn'[o].slow = conn[o].slow /\ stale'[o] = stale[o]
  BY <1>0 DEF Lose, WireTable, KidTable, ConnTable
<1> QED
  BY <1>1, <1>2, <1>3, <1>4, <1>5 DEF Lost

LEMMA RetireLost ==
    ASSUME Basis, NEW f \in TurnTable, \A u \in Turns : Only(turn[u], f[u], {}), NEW r,
           RetirePair(f, r)
    PROVE  EarlyMoves \/ (rt.cur \in Pairs /\ Lost(rt.cur))
<1>a. rt.cur # 0 => rt.cur \in Pairs
  BY BasisParts, RtFields, CodexAssumption DEF Pairs
<1>b. conn \in ConnTable
  BY BasisParts
<1>2. CASE rt.cur # 0 /\ conn[rt.cur].st # "none"
  <2>1. rt.cur \in Pairs
    BY <1>a, <1>2
  <2>2. Lose(rt.cur, f, FALSE)
    BY <1>2, Zenon DEF RetirePair
  <2> QED
    BY <2>1, <2>2, LoseLost
<1>3. CASE ~(rt.cur # 0 /\ conn[rt.cur].st # "none")
  <2>1. /\ turn' = f /\ UNCHANGED <<ses, stale, wire, child>>
        /\ conn' = IF rt.cur = 0 THEN conn ELSE [conn EXCEPT ![rt.cur].reaper = FALSE]
    BY <1>3, Zenon DEF RetirePair
  <2>2. SameSlow
    BY <1>a, <1>b, <2>1 DEF SameSlow, ConnTable
  <2> QED
    BY <2>1, <2>2, SessionsSame DEF EarlyMoves
<1> QED
  BY <1>2, <1>3

LEMMA SameOnly == ASSUME Basis PROVE turn \in TurnTable /\ \A u \in Turns : Only(turn[u], turn[u], {})
BY BasisParts DEF Only, TurnTable

LEMMA SameEarly ==
    ASSUME Basis, turn' = turn, SameRunning, SameSlow, UNCHANGED <<wire, child, stale>>
    PROVE  EarlyMoves
BY SameOnly DEF EarlyMoves

LEMMA RetiresLost ==
    ASSUME Basis, RuntimeChanged \/ AccountChanged
    PROVE  EarlyMoves \/ (rt.cur \in Pairs /\ Lost(rt.cur))
<1>1. CASE AccountChanged
  BY <1>1, RetireLost, SameOnly DEF AccountChanged
<1>2. CASE RuntimeChanged
  <2>1. CASE RetirePair(turn, rt)
    BY <2>1, RetireLost, SameOnly
  <2>2. CASE rt.cur # 0 /\ Lose(rt.cur, turn, conn[rt.cur].reaper)
    <3>1. rt.cur \in Pairs
      BY <2>2, BasisParts, RtFields, CodexAssumption DEF Pairs
    <3> QED
      BY <2>2, <3>1, LoseLost, SameOnly
  <2>3. CASE UNCHANGED turn /\ KeepPair
    BY <2>3, SameEarly, SessionsSame DEF KeepPair, SameSlow
  <2> QED
    BY <1>2, <2>1, <2>2, <2>3 DEF RuntimeChanged
<1> QED
  BY <1>1, <1>2

LEMMA CompleteLost ==
    ASSUME Basis, NEW t \in Turns, CompleteRun(t)
    PROVE  EarlyMoves \/ (rt.cur \in Pairs /\ Lost(rt.cur))
<1> DEFINE f == [turn EXCEPT ![t].gone = TRUE, ![t].by = None]
           r == IF rt.runs[SessionOf[t]] = t THEN [rt EXCEPT !.runs[SessionOf[t]] = None] ELSE rt
<1>1. f \in TurnTable /\ \A u \in Turns : Only(turn[u], f[u], {})
  <2>1. OnlyOf(turn, f, t, {})
    BY GoneOnly, BasisParts
  <2> HIDE DEF f
  <2> QED
    BY <2>1, SameOnly DEF OnlyOf
<1>2. RetirePair(f, r) \/ (turn' = f /\ KeepPair)
  BY DEF CompleteRun
<1> HIDE DEF f, r
<1>3. CASE turn' = f /\ KeepPair
  BY <1>1, <1>3, SessionsSame DEF KeepPair, EarlyMoves, SameSlow
<1> QED
  BY <1>1, <1>2, <1>3, RetireLost

LEMMA LossLost == ASSUME Basis, NEW p \in Pairs, ChildLost(p) \/ Reap(p) PROVE Lost(p)
BY LoseLost, SameOnly DEF ChildLost, Reap

LEMMA RunsKnown ==
    ASSUME Basis, Turning, NEW u \in Turns
    PROVE  /\ u # None /\ SessionOf[u] \in Sessions
           /\ turn[u].ph # "new" => turn[u].pair \in Pairs
           /\ turn[u].ph \notin Early => turn[u].pair \in Pairs
           /\ turn[u].ph \notin Early => (RunsNow(u) <=> turn[u].out = "none")
           /\ \A p \in Pairs : u \in RunningIn(p) <=> (turn[u].ph \notin Early /\ turn[u].pair = p /\ RunsNow(u))
           /\ \A p \in Pairs, s \in Sessions :
                ses[p][s].running = u => turn[u].pair = p /\ SessionOf[u] = s
                                         /\ turn[u].ph \notin Early /\ RunsNow(u)
<1>1. u # None /\ SessionOf[u] \in Sessions
  BY CodexAssumption
<1>2. turn[u].ph # "new" => turn[u].pair \in Pairs
  BY BasisParts DEF TurnsKnown
<1>3. turn[u].ph \notin Early => turn[u].pair \in Pairs
  BY <1>2 DEF Early
<1>4. turn[u].ph \notin Early => (RunsNow(u) <=> turn[u].out = "none")
  BY <1>1, <1>3 DEF Turning, RunningKnown, TurnsRun, RunsNow
<1>5. ASSUME NEW p \in Pairs, NEW s \in Sessions, ses[p][s].running = u
      PROVE  turn[u].pair = p /\ SessionOf[u] = s /\ turn[u].ph \notin Early /\ RunsNow(u)
  BY <1>1, <1>5 DEF Turning, RunningKnown, RunsNow
<1>6. ASSUME NEW p \in Pairs
      PROVE  u \in RunningIn(p) <=> (turn[u].ph \notin Early /\ turn[u].pair = p /\ RunsNow(u))
  BY <1>1, <1>5 DEF RunningIn, RunsNow
<1> QED
  BY <1>1, <1>2, <1>3, <1>4, <1>5, <1>6

LEMMA LostTurning == ASSUME Basis, Basis', Turning, NEW p \in Pairs, Lost(p) PROVE Turning'
<1>1. ASSUME NEW u \in Turns PROVE Moves(u)
  <2>1. LostTurn(p, turn[u], turn'[u], u \in RunningIn(p))
    BY DEF Lost
  <2>2. /\ turn'[u].ph = turn[u].ph /\ turn'[u].pair = turn[u].pair /\ turn'[u].drv = turn[u].drv
        /\ turn'[u].pid = turn[u].pid /\ turn'[u].lid = turn[u].lid
        /\ turn'[u].dq = Dropped(p, turn[u].dq, turn[u].pair)
        /\ u \in RunningIn(p) => turn'[u].out # "none"
        /\ u \notin RunningIn(p) => turn'[u].out = turn[u].out /\ turn'[u].settle = turn[u].settle
    BY <2>1 DEF LostTurn
  <2>3. turn[u].dq = "none" => turn'[u].dq = "none"
    BY <2>2 DEF Dropped, Pending
  <2>4. Drivable(u) /\ (turn[u].ph \in Early => Unbegun(u))
    BY DEF Turning, TurnsRun
  <2>5. Drivable(u)' /\ (IdKnown(turn, u) => IdKnown(turn', u))
    BY <2>2, <2>3, <2>4 DEF Drivable, IdKnown
  <2>6. CASE turn[u].ph \in Early
    <3>1. u \notin RunningIn(p)
      BY <2>6, RunsKnown
    <3> QED
      BY <2>2, <2>3, <2>4, <2>5, <2>6, <3>1 DEF Moves, Waiting, Unbegun
  <2>7. CASE turn[u].ph \notin Early
    <3>1. turn[u].pair \in Pairs /\ SessionOf[u] \in Sessions /\ u # None
      BY <2>7, RunsKnown
    <3>2. RunsNow(u)' <=> (RunsNow(u) /\ turn[u].pair # p)
      BY <2>2, <3>1 DEF Lost, RunsNow
    <3>3. u \in RunningIn(p) <=> (turn[u].pair = p /\ RunsNow(u))
      BY <2>7, RunsKnown
    <3>4. RunsNow(u) <=> turn[u].out = "none"
      BY <2>7, RunsKnown
    <3> QED
      BY <2>2, <2>5, <2>7, <3>2, <3>3, <3>4 DEF Moves, Over, Goes1
  <2> QED
    BY <2>6, <2>7
<1>2. Places
  BY DEF Places, Lost, Turning, RunningKnown
<1>3. Written
  <2> SUFFICES ASSUME NEW o \in Pairs
               PROVE  /\ \A m \in wire'[o].in : m \in wire[o].in
                      /\ \A i \in DOMAIN wire'[o].out : wire'[o].out = wire[o].out
                      /\ \A s \in Sessions : child'[o][s].active \in {None, child[o][s].active}
    BY DEF Written
  <2>1. CASE o = p
    BY <2>1 DEF Lost, NoLines, NewChild
  <2>2. CASE o # p
    BY <2>2 DEF Lost
  <2> QED
    BY <2>1, <2>2
<1> QED
  BY <1>1, <1>2, <1>3, MovesTurning

(* The head of a queue: it interrupts the turn that runs, is dropped, or     *)
(* begins where nobody runs.                                                 *)
QueueGoes(p, s, x) ==
    /\ ses[p][s].queue # <<>> /\ ses[p][s].running = None
    /\ ses'[p][s].running = x /\ ses'[p][s].block = None
    /\ ses'[p][s].queue = Tail(ses[p][s].queue) /\ OtherSessions(p, s)
    /\ stale' = stale

Pops(p, s) == /\ QueueGoes(p, s, None) /\ Head(ses[p][s].queue) = None
              /\ UNCHANGED <<turn, wire, child>> /\ SameSlow

Begins(p, s, h) == /\ QueueGoes(p, s, h) /\ Head(ses[p][s].queue) = h
                   /\ turn[h].ph = "queued" /\ turn[h].pair = p /\ SessionOf[h] = s
                   /\ Sends(p, h)

Stops(p, s, r) ==
    /\ r = ses[p][s].running
    /\ OnlyOf(turn, turn', r, {"drv", "settle"})
    /\ IF turn[r].drv = "none"
         THEN turn'[r].drv = "live" /\ turn'[r].settle = turn[r].settle
         ELSE turn'[r].drv = turn[r].drv
    /\ ses'[p][s].running = r /\ ses'[p][s].block = r /\ ses'[p][s].queue = ses[p][s].queue
    /\ ses[p][s].queue # <<>>
    /\ OtherSessions(p, s) /\ UNCHANGED <<wire, child, stale>> /\ SameSlow

LEMMA AdvanceBegins ==
    ASSUME Basis, NEW p \in Pairs, NEW s \in Sessions, NEW next \in SessionState,
           next.queue = Tail(ses[p][s].queue), next.block = None, next.running = None,
           ses[p][s].queue # <<>>, ses[p][s].running = None, Advances(p, s, next)
    PROVE  Pops(p, s) \/ \E h \in Turns : Begins(p, s, h)
<1> DEFINE q == ses[p][s].queue
           h == Head(q)
<1>1. q \in Seq(Turns \cup {None}) /\ h = q[1] /\ 1 \in DOMAIN q
  <2>1. q \in Seq(Turns \cup {None})
    BY SessionTypes
  <2>2. Len(q) \in Nat \ {0}
    BY <2>1, EmptySeq, LenProperties
  <2> QED
    BY <2>1, <2>2
<1>2. h # None => /\ h \in Turns /\ turn[h].ph = "queued" /\ turn[h].pair = p
                  /\ SessionOf[h] = s
  <2>1. h # None => h \in Turns
    BY <1>1
  <2> QED
    BY <1>1, <2>1, BasisParts DEF QueueKnown, QueueOf
<1>3. ASSUME NEW v \in SessionState, ses' = [ses EXCEPT ![p][s] = v], v.queue = Tail(q),
             v.block = None, stale' = stale
      PROVE  QueueGoes(p, s, v.running)
  <2>1. SetTo([ses EXCEPT ![p][s] = v], p, s, v)
    BY SessionSet
  <2>2. SetTo(ses', p, s, v)
    BY <1>3, <2>1
  <2> QED
    BY <1>3, <2>2 DEF SetTo, QueueGoes, OtherSessions, SameSession
<1>4. CASE /\ h = None /\ ses' = [ses EXCEPT ![p][s] = next]
           /\ UNCHANGED <<turn, conn, wire, child, faults, stale, rt>>
  BY <1>3, <1>4 DEF Pops, SameSlow
<1>5. CASE h # None /\ BeginTurn(p, h, next) /\ stale' = stale /\ rt' = rt
  <2> DEFINE load == ~next.thread \/ next.gen # conn[p].gen
             ph == IF load THEN "load" ELSE "start"
             a == [turn[h] EXCEPT !.ph = ph]
             f == [turn EXCEPT ![h].ph = ph]
             c == [next EXCEPT !.running = h]
  <2>0. h \in Turns /\ SessionOf[h] = s /\ ph \in {"load", "start"}
    BY <1>2, <1>5
  <2>1. ses' = [ses EXCEPT ![p][s] = c]
    BY <1>5, <2>0 DEF BeginTurn
  <2>2. Issue(p, f, h, "rq", LineFor(h, ph))
    <3>1. Issue(p, f, h, "rq", IF load THEN LoadLine(h) ELSE StartLine(h))
      BY <1>5, <2>0 DEF BeginTurn
    <3>2. LineFor(h, ph) = IF load THEN LoadLine(h) ELSE StartLine(h)
      BY DEF LineFor, Loading
    <3> QED
      BY <3>1, <3>2
  <2> HIDE DEF ph, h
  <2>3. turn \in TurnTable /\ turn[h] \in TurnState
    BY <2>0, TurnTypes
  <2>4. Only(turn[h], a, {"ph"}) /\ a.ph = ph
    <3>1. ph \in {"new", "setup", "queued", "load", "start", "reload", "restart", "open"}
      BY <2>0
    <3> QED
      BY <2>3, <3>1, PhSet
  <2>5. f = [turn EXCEPT ![h] = a]
    BY <2>3 DEF TurnTable
  <2> HIDE DEF a, f
  <2>6. OnlyOf(turn, f, h, {"ph", "rq"}) /\ f[h].ph = ph
    <3>1. OnlyOf(turn, f, h, {"ph"}) /\ f[h] = a
      BY <2>0, <2>3, <2>4, <2>5, SetOnly
    <3> QED
      BY <2>4, <3>1 DEF OnlyOf, Only
  <2>7. Sends(p, h)
    BY <2>0, <2>2, <2>6, IssueSends
  <2>8. c \in SessionState
    BY <2>0, SessionFields
  <2>9. c.queue = next.queue /\ c.block = next.block /\ c.running = h
    BY DEF SessionState
  <2> HIDE DEF c
  <2>10. QueueGoes(p, s, h)
    BY <1>3, <1>5, <2>1, <2>8, <2>9
  <2> QED
    BY <1>2, <1>5, <2>0, <2>7, <2>10 DEF Begins, h
<1> QED
  BY <1>4, <1>5 DEF Advances

LEMMA HeadStartsBegins ==
    ASSUME Basis, NEW p \in Pairs, NEW s \in Sessions, HeadStarts(p, s)
    PROVE  \/ Pops(p, s) \/ \E h \in Turns : Begins(p, s, h)
           \/ \E r \in Turns : Stops(p, s, r)
<1> DEFINE q == ses[p][s]
           r == q.running
           next == [q EXCEPT !.queue = Tail(@)]
<1>0. /\ ses \in SesTable /\ q \in SessionState /\ q.queue \in Seq(Turns \cup {None})
      /\ turn \in TurnTable /\ q.block = None /\ q.queue # <<>> /\ r \in Turns \cup {None}
  BY BasisParts DEF SesTable, SessionState, HeadStarts, HeadDue
<1>1. CASE r = None /\ Advances(p, s, next)
  <2> DEFINE w == Tail(q.queue)
  <2>1. w \in Seq(Turns \cup {None}) /\ w = Tail(ses[p][s].queue)
    BY <1>0
  <2> HIDE DEF w
  <2>2. next = [q EXCEPT !.queue = w]
    BY <1>0, <2>1 DEF SessionState
  <2>3. Stays(q, next, w)
    BY <1>0, <2>1, <2>2, SessionStays
  <2> HIDE DEF next
  <2> QED
    BY <1>0, <1>1, <2>1, <2>3, AdvanceBegins DEF Stays
<1>2. CASE /\ r # None
           /\ ses' = [ses EXCEPT ![p][s].block = r, ![p][s].drives = (turn[r].drv = "none")]
           /\ turn' = Interrupted(turn, r)
           /\ UNCHANGED <<conn, wire, child, faults, stale, rt>>
  <2> DEFINE d == (turn[r].drv = "none")
             a == [q EXCEPT !.block = r]
             b == [a EXCEPT !.drives = d]
  <2>1. r \in Turns
    BY <1>0, <1>2
  <2>2. OnlyOf(turn, turn', r, {"drv", "settle"})
    BY <1>0, <1>2, <2>1, InterruptedOnly
  <2>3. IF turn[r].drv = "none"
          THEN turn'[r].drv = "live" /\ turn'[r].settle = turn[r].settle
          ELSE turn'[r].drv = turn[r].drv
    BY <1>0, <1>2, <2>1, InterruptedOnly
  <2>4. ses' = [ses EXCEPT ![p][s] = b]
    BY <1>0, <1>2 DEF SesTable
  <2>5. d \in BOOLEAN
    OBVIOUS
  <2> HIDE DEF d
  <2>6. a \in SessionState /\ a.running = r /\ a.block = r /\ a.queue = q.queue
    <3>1. a \in SessionState
      BY <1>0, SessionFields
    <3> QED
      BY <1>0, <3>1 DEF SessionState
  <2> HIDE DEF a
  <2>7. b \in SessionState /\ b.running = r /\ b.block = r /\ b.queue = q.queue
    <3>1. b \in SessionState
      BY <2>5, <2>6, SessionFields
    <3> QED
      BY <2>6, <3>1 DEF SessionState
  <2> HIDE DEF b
  <2>8. SetTo([ses EXCEPT ![p][s] = b], p, s, b)
    BY <2>7, SessionSet
  <2>9. SetTo(ses', p, s, b)
    BY <2>4, <2>8
  <2>10. Stops(p, s, r)
    BY <1>0, <1>2, <2>2, <2>3, <2>7, <2>9
       DEF Stops, SetTo, OtherSessions, SameSession, SameSlow
  <2> QED
    BY <2>1, <2>10
<1>3. (r = None /\ Advances(p, s, next)) \/ (/\ r # None
           /\ ses' = [ses EXCEPT ![p][s].block = r, ![p][s].drives = (turn[r].drv = "none")]
           /\ turn' = Interrupted(turn, r)
           /\ UNCHANGED <<conn, wire, child, faults, stale, rt>>)
  BY DEF HeadStarts, Advances
<1> QED
  BY <1>1, <1>2, <1>3

LEMMA HeadResumesBegins ==
    ASSUME Basis, Turning, NEW p \in Pairs, NEW s \in Sessions, HeadResumes(p, s)
    PROVE  Pops(p, s) \/ \E h \in Turns : Begins(p, s, h)
<1> DEFINE q == ses[p][s]
           w == Tail(q.queue)
           next == [q EXCEPT !.queue = Tail(@), !.block = None, !.drives = FALSE]
           a == [q EXCEPT !.queue = w]
           b == [a EXCEPT !.block = None]
           c == [b EXCEPT !.drives = FALSE]
<1>0. /\ ses \in SesTable /\ q \in SessionState /\ q.queue \in Seq(Turns \cup {None})
  BY BasisParts DEF SesTable, SessionState
<1>1. q.queue # <<>>
  BY BasisParts DEF HeadResumes, BlockKnown
<1>r. q.running = None
  BY DEF HeadResumes, Turning, RunningKnown
<1>2. Advances(p, s, next)
  BY DEF HeadResumes, Advances
<1>3. w \in Seq(Turns \cup {None}) /\ w = Tail(ses[p][s].queue)
  BY <1>0, <1>1
<1>4. next = c
  BY <1>0 DEF SessionState
<1> HIDE DEF w, next
<1>5. a \in SessionState /\ a.queue = w /\ a.running = q.running
  BY <1>0, <1>3, SessionStays DEF Stays
<1> HIDE DEF a
<1>6. b \in SessionState /\ b.queue = w /\ b.running = q.running /\ b.block = None
  <2>1. b \in SessionState
    BY <1>5, SessionFields
  <2>2. b.queue = a.queue /\ b.running = a.running /\ b.block = None
    BY <1>5 DEF SessionState
  <2> QED
    BY <1>5, <2>1, <2>2
<1> HIDE DEF b
<1>7. c \in SessionState /\ c.queue = w /\ c.running = q.running /\ c.block = None
  <2>1. c \in SessionState
    BY <1>6, SessionFields
  <2>2. c.queue = b.queue /\ c.running = b.running /\ c.block = b.block
    BY <1>6 DEF SessionState
  <2> QED
    BY <1>6, <2>1, <2>2
<1> HIDE DEF c
<1> QED
  BY <1>1, <1>2, <1>3, <1>4, <1>7, <1>r, AdvanceBegins

(* What an interrupt of the running turn r may change, if there is one.      *)
Prodded(a, b) == IF a.drv = "none" THEN b.drv \in {"none", "live"} /\ b.settle = a.settle
                                   ELSE b.drv = a.drv
Idle(a, b) == b.drv = a.drv /\ b.settle = a.settle

(* beginTurn has its answer: the turn is open, and one that was aborted is   *)
(* interrupted; or the turn that runs has failed.                            *)
Opens(t) ==
    LET r == ses[turn[t].pair][SessionOf[t]].running IN
    /\ turn[t].rq = "ok" /\ turn[t].ph \in {"start", "restart"}
    /\ turn' \in TurnTable /\ turn'[t].ph = "open" /\ turn'[t].rq = "none" /\ turn'[t].pid
    /\ Only(turn[t], turn'[t], {"ph", "rq", "pid", "drv", "settle"})
    /\ \A u \in Turns : /\ u # t => Only(turn[u], turn'[u], {"drv", "settle"})
                        /\ Prodded(turn[u], turn'[u])
                        /\ u # r => Idle(turn[u], turn'[u])
    /\ ses' = ses /\ stale' = stale /\ wire' = wire /\ child' = child /\ SameSlow

Fails(t) ==
    LET r == ses[turn[t].pair][SessionOf[t]].running IN
    /\ turn[t].rq \in {"error", "missing"}
    /\ turn' \in TurnTable /\ turn'[t].ph = "open" /\ turn'[t].rq = "none"
    /\ Only(turn[t], turn'[t], {"ph", "rq", "out", "settle"})
    /\ \A u \in Turns : /\ u # t => Only(turn[u], turn'[u], {"out", "settle"})
                        /\ u = r => turn'[u].out # "none"
                        /\ u # r => turn'[u].out = turn[u].out /\ turn'[u].settle = turn[u].settle
    /\ RunsThen(turn[t].pair, SessionOf[t], None)
    /\ stale' = stale /\ wire' = wire /\ child' = child /\ SameSlow

Asks1(t) == /\ \/ turn[t].rq = "ok" /\ turn[t].ph \in Loading
               \/ turn[t].rq = "missing" /\ turn[t].ph = "start"
            /\ Sends(turn[t].pair, t) /\ SameSessions /\ stale' = stale

LEMMA StaysSame ==
    ASSUME Basis, NEW p \in Pairs, NEW s \in Sessions, NEW b,
           Stays(ses[p][s], b, ses[p][s].queue), ses' = [ses EXCEPT ![p][s] = b]
    PROVE  SameSessions
<1>1. SameRunning /\ ses'[p][s].queue = ses[p][s].queue /\ OtherSessions(p, s)
  BY SetStays
<1> QED
  BY <1>1 DEF SameSessions, SameSession, SameRunning, OtherSessions

LEMMA ThreadStays ==
    ASSUME Basis, NEW p \in Pairs, NEW s \in Sessions,
           ses' = [ses EXCEPT ![p][s].thread = TRUE, ![p][s].gen = conn[p].gen]
    PROVE  SameSessions
<1> DEFINE b == [ses[p][s] EXCEPT !.thread = TRUE]
           c == [b EXCEPT !.gen = conn[p].gen]
<1>0. ses \in SesTable /\ conn[p].gen \in Int /\ ses[p][s] \in SessionState
  BY BasisParts DEF ConnTable, SesTable
<1>1. Stays(ses[p][s], b, ses[p][s].queue)
  BY <1>0, SessionStays
<1>2. ses' = [ses EXCEPT ![p][s] = c]
  BY <1>0 DEF SesTable
<1> HIDE DEF b
<1>3. Stays(b, c, b.queue)
  BY <1>0, <1>1, SessionStays DEF Stays
<1> HIDE DEF c
<1>4. Stays(ses[p][s], c, ses[p][s].queue)
  BY <1>1, <1>3 DEF Stays
<1> QED
  BY <1>2, <1>4, StaysSame

LEMMA BeginSends ==
    ASSUME Basis, NEW t \in Turns, BeginContinues(t)
    PROVE  Asks1(t) \/ Opens(t) \/ Fails(t)
<1> DEFINE p == turn[t].pair
           s == SessionOf[t]
           r == ses[p][s].running
           a == turn[t].rq
           f == [turn EXCEPT ![t].rq = "none"]
<1>0. /\ turn \in TurnTable /\ turn[t] \in TurnState /\ ses \in SesTable /\ s \in Sessions
      /\ p \in Pairs /\ r \in Turns \cup {None} /\ conn \in ConnTable
      /\ stale \in [Pairs -> SUBSET Turns] /\ ses[p][s] \in SessionState
  <2>1. a # "none"
    BY CodexAssumption DEF BeginContinues, BeginDue, Answered
  <2>2. p \in Pairs /\ s \in Sessions
    BY <2>1, Going, TurnTypes
  <2> QED
    BY <2>2, BasisParts, SessionTypes, TurnTypes DEF SesTable
<1>1. OnlyOf(turn, f, t, {"rq"}) /\ f[t].rq = "none"
  <2> DEFINE b == [turn[t] EXCEPT !.rq = "none"]
  <2>1. Only(turn[t], b, {"rq"}) /\ b.rq = "none"
    BY <1>0, RqSet DEF Requests
  <2>2. f = [turn EXCEPT ![t] = b]
    BY <1>0 DEF TurnTable
  <2> HIDE DEF b
  <2>3. OnlyOf(turn, f, t, {"rq"})
    BY <1>0, <2>1, <2>2, SetOnlyOf
  <2>4. f[t] = b
    BY <1>0, <2>2 DEF TurnTable
  <2> QED
    BY <2>1, <2>3, <2>4
<1> HIDE DEF f, p, s, r
<1>2. ASSUME NEW ph \in {"load", "start", "reload", "restart", "open"}
      PROVE  OnlyOf(turn, [f EXCEPT ![t].ph = ph], t, {"ph", "rq"}) /\ [f EXCEPT ![t].ph = ph][t].ph = ph
             /\ [f EXCEPT ![t].ph = ph][t].rq = "none"
  <2> DEFINE b == [f[t] EXCEPT !.ph = ph]
  <2>1. f[t] \in TurnState /\ f \in TurnTable
    BY <1>1 DEF OnlyOf, TurnTable
  <2>2. Only(f[t], b, {"ph"}) /\ b.ph = ph
    <3>1. ph \in {"new", "setup", "queued", "load", "start", "reload", "restart", "open"}
      OBVIOUS
    <3> QED
      BY <2>1, <3>1, PhSet
  <2>3. [f EXCEPT ![t].ph = ph] = [f EXCEPT ![t] = b]
    BY <2>1 DEF TurnTable
  <2> HIDE DEF b
  <2>4. OnlyOf(f, [f EXCEPT ![t] = b], t, {"ph"})
    BY <2>1, <2>2, SetOnlyOf
  <2>5. [f EXCEPT ![t] = b][t] = b
    BY <2>1 DEF TurnTable
  <2>6. OnlyOf(turn, [f EXCEPT ![t] = b], t, {"ph", "rq"})
    BY <1>1, <2>4 DEF OnlyOf, Only
  <2>7. b.rq = "none"
    BY <1>1, <2>2 DEF Only
  <2> QED
    BY <2>2, <2>3, <2>5, <2>6, <2>7
<1>s. ses' = ses => SameSessions
  BY DEF SameSessions, SameSession
<1>3. CASE /\ a = "ok" /\ turn[t].ph \in {"load", "reload"}
           /\ ses' = [ses EXCEPT ![p][s].thread = TRUE, ![p][s].gen = conn[p].gen]
           /\ Issue(p, [f EXCEPT ![t].ph = IF turn[t].ph = "load" THEN "start" ELSE "restart"],
                    t, "rq", StartLine(t))
           /\ UNCHANGED stale
  <2> DEFINE ph == IF turn[t].ph = "load" THEN "start" ELSE "restart"
  <2>1. ph \in {"load", "start", "reload", "restart"} /\ StartLine(t) = LineFor(t, ph)
    BY DEF LineFor, Loading
  <2>2. Issue(p, [f EXCEPT ![t].ph = ph], t, "rq", LineFor(t, ph))
    BY <1>3, <2>1
  <2> HIDE DEF ph
  <2>3. OnlyOf(turn, [f EXCEPT ![t].ph = ph], t, {"ph", "rq"}) /\ [f EXCEPT ![t].ph = ph][t].ph = ph
    BY <1>2, <2>1
  <2> DEFINE h == [f EXCEPT ![t].ph = ph]
  <2> HIDE DEF h
  <2>4. Sends(p, t)
    <3>1. Issue(p, h, t, "rq", LineFor(t, ph)) /\ OnlyOf(turn, h, t, {"ph", "rq"}) /\ h[t].ph = ph
      BY <2>2, <2>3 DEF h
    <3> QED
      BY <1>0, <2>1, <3>1, IssueSends
  <2>9. SameSessions
    BY <1>0, <1>3, ThreadStays
  <2> QED
    BY <1>3, <2>4, <2>9 DEF Asks1, Loading, p
<1>4. CASE /\ a = "ok" /\ turn[t].ph \in {"start", "restart"}
           /\ LET g == [f EXCEPT ![t].ph = "open", ![t].pid = TRUE]
              IN turn' = IF turn[t].abort /\ r # None THEN Interrupted(g, r) ELSE g
           /\ UNCHANGED <<ses, stale, conn, wire, child, faults>>
  <2> DEFINE g == [f EXCEPT ![t].ph = "open", ![t].pid = TRUE]
             h == [f EXCEPT ![t].ph = "open"]
             b == [h[t] EXCEPT !.pid = TRUE]
  <2>1. OnlyOf(turn, h, t, {"ph", "rq"}) /\ h[t].ph = "open" /\ h[t].rq = "none"
    BY <1>2
  <2>2. h \in TurnTable /\ h[t] \in TurnState
    BY <2>1 DEF OnlyOf, TurnTable
  <2>3. g = [h EXCEPT ![t] = b]
    BY <1>1, <2>2 DEF OnlyOf, TurnTable
  <2>4. Only(h[t], b, {"pid"}) /\ b.pid = TRUE
    BY <2>2, PidSet
  <2> HIDE DEF h, b
  <2>5. OnlyOf(h, g, t, {"pid"}) /\ g[t] = b
    <3>1. OnlyOf(h, [h EXCEPT ![t] = b], t, {"pid"})
      BY <2>2, <2>4, SetOnlyOf
    <3>2. [h EXCEPT ![t] = b][t] = b
      BY <2>2 DEF TurnTable
    <3> QED
      BY <2>3, <3>1, <3>2
  <2>6. turn' = IF turn[t].abort /\ r # None THEN Interrupted(g, r) ELSE g
    BY <1>4
  <2> HIDE DEF g
  <2>7. /\ g \in TurnTable /\ g[t].ph = "open" /\ g[t].rq = "none" /\ g[t].pid
        /\ Only(turn[t], g[t], {"ph", "rq", "pid"}) /\ \A u \in Turns : u # t => g[u] = turn[u]
    BY <2>1, <2>4, <2>5 DEF OnlyOf, Only
  <2>8. \/ turn' = g
        \/ /\ r \in Turns /\ OnlyOf(g, turn', r, {"drv", "settle"})
           /\ IF g[r].drv = "none" THEN turn'[r].drv = "live" /\ turn'[r].settle = g[r].settle
                                   ELSE turn'[r].drv = g[r].drv
    <3>1. CASE turn[t].abort /\ r # None
      <4>1. r \in Turns /\ turn' = Interrupted(g, r)
        BY <1>0, <2>6, <3>1
      <4>2. OnlyOf(g, turn', r, {"drv", "settle"})
        BY <2>7, <4>1, InterruptedOnly
      <4>3. IF g[r].drv = "none" THEN turn'[r].drv = "live" /\ turn'[r].settle = g[r].settle
                                 ELSE turn'[r].drv = g[r].drv
        BY <2>7, <4>1, InterruptedOnly
      <4> QED
        BY <4>1, <4>2, <4>3
    <3> QED
      BY <2>6, <3>1
  <2>9. turn' \in TurnTable /\ turn'[t].ph = "open" /\ turn'[t].rq = "none" /\ turn'[t].pid
    BY <2>7, <2>8 DEF OnlyOf, Only
  <2>10. Only(turn[t], turn'[t], {"ph", "rq", "pid", "drv", "settle"})
    BY <2>7, <2>8 DEF OnlyOf, Only
  <2>11. ASSUME NEW u \in Turns
         PROVE  /\ u # t => Only(turn[u], turn'[u], {"drv", "settle"})
                /\ Prodded(turn[u], turn'[u])
                /\ u # r => Idle(turn[u], turn'[u])
    <3>1. turn[u] \in TurnState
      BY <1>0 DEF TurnTable
    <3>2. g[u].drv = turn[u].drv /\ g[u].settle = turn[u].settle
      BY <2>7 DEF Only
    <3>3. u # t => Only(turn[u], turn'[u], {"drv", "settle"})
      BY <2>7, <2>8, <3>1 DEF OnlyOf, Only
    <3>4. u # r => Idle(turn[u], turn'[u])
      BY <2>8, <3>2 DEF OnlyOf, Idle
    <3>5. Prodded(turn[u], turn'[u])
      BY <2>8, <3>2 DEF OnlyOf, Only, Prodded
    <3> QED
      BY <3>3, <3>4, <3>5
  <2>12. SameSlow
    BY <1>4 DEF SameSlow
  <2> QED
    BY <1>4, <2>9, <2>10, <2>11, <2>12 DEF Opens, p, s, r
<1>5. CASE /\ a = "missing" /\ turn[t].ph = "start"
           /\ Issue(p, [f EXCEPT ![t].ph = "reload"], t, "rq", LoadLine(t))
           /\ UNCHANGED <<ses, stale>>
  <2>1. "reload" \in {"load", "start", "reload", "restart"} /\ LoadLine(t) = LineFor(t, "reload")
    BY DEF LineFor, Loading
  <2>3. OnlyOf(turn, [f EXCEPT ![t].ph = "reload"], t, {"ph", "rq"})
        /\ [f EXCEPT ![t].ph = "reload"][t].ph = "reload"
    BY <1>2
  <2>4. Sends(p, t)
    BY <1>0, <1>5, <2>1, <2>3, IssueSends
  <2> QED
    BY <1>5, <1>s, <2>4 DEF Asks1, p
<1>6. CASE /\ a = "error" \/ (a = "missing" /\ turn[t].ph # "start")
           /\ LET g == [f EXCEPT ![t].ph = "open"]
              IN turn' = IF r # None THEN Settle(g, r, "failed", t) ELSE g
           /\ FinishRunning(p, t, "failed", t)
           /\ UNCHANGED <<conn, wire, child, faults>>
  <2> DEFINE g == [f EXCEPT ![t].ph = "open"]
  <2>1. OnlyOf(turn, g, t, {"ph", "rq"}) /\ g[t].ph = "open" /\ g[t].rq = "none"
    BY <1>2
  <2>2. turn' = IF r # None THEN Settle(g, r, "failed", t) ELSE g
    BY <1>6
  <2> HIDE DEF g
  <2>3. /\ g \in TurnTable /\ Only(turn[t], g[t], {"ph", "rq"})
        /\ \A u \in Turns : u # t => g[u] = turn[u]
    BY <2>1 DEF OnlyOf
  <2>4. \/ r = None /\ turn' = g
        \/ r \in Turns /\ OnlyOf(g, turn', r, {"out", "settle"}) /\ turn'[r].out = "failed"
    <3>1. CASE r # None
      <4>1. r \in Turns /\ turn' = Settle(g, r, "failed", t) /\ "failed" \in Outcomes
        BY <1>0, <2>2, <3>1 DEF Outcomes
      <4>2. OnlyOf(g, turn', r, {"out", "settle"})
        BY <2>3, <4>1, SettleOnly
      <4>3. turn'[r].out = "failed"
        BY <2>3, <4>1, SettleOnly
      <4> QED
        BY <4>1, <4>2, <4>3
    <3> QED
      BY <2>2, <3>1
  <2>5. turn' \in TurnTable /\ turn'[t].ph = "open" /\ turn'[t].rq = "none"
    BY <2>1, <2>3, <2>4 DEF OnlyOf, Only
  <2>6. Only(turn[t], turn'[t], {"ph", "rq", "out", "settle"})
    BY <2>3, <2>4 DEF OnlyOf, Only
  <2>7. ASSUME NEW u \in Turns
        PROVE  /\ u # t => Only(turn[u], turn'[u], {"out", "settle"})
               /\ u = r => turn'[u].out # "none"
               /\ u # r => turn'[u].out = turn[u].out /\ turn'[u].settle = turn[u].settle
    <3>0. turn[u] \in TurnState /\ u # None
      BY <1>0, CodexAssumption DEF TurnTable
    <3>1. g[u].out = turn[u].out /\ g[u].settle = turn[u].settle
      BY <2>3 DEF Only
    <3>2. u # t => Only(turn[u], turn'[u], {"out", "settle"})
      BY <2>3, <2>4, <3>0 DEF OnlyOf, Only
    <3>3. u # r => turn'[u].out = turn[u].out /\ turn'[u].settle = turn[u].settle
      BY <2>4, <3>1 DEF OnlyOf
    <3>4. u = r => turn'[u].out # "none"
      BY <2>4, <3>0
    <3> QED
      BY <3>2, <3>3, <3>4
  <2>8. RunsThen(p, s, None) /\ stale' = stale
    <3>1. CASE r = None
      <4>1. UNCHANGED <<ses, stale>>
        BY <1>6, <3>1 DEF FinishRunning, r, s
      <4> QED
        BY <3>1, <4>1 DEF RunsThen, OtherSessions, SameSession, r
    <3>2. CASE r # None
      <4>1. /\ stale' = [stale EXCEPT ![p] = StaleAfter(p, r, "failed")]
            /\ ses' = [ses EXCEPT ![p][s].running = None]
        BY <1>6, <3>2 DEF FinishRunning, r, s
      <4>2. stale' = stale
        BY <1>0, <4>1 DEF StaleAfter
      <4> QED
        BY <1>0, <4>1, <4>2, RunningSet
    <3> QED
      BY <3>1, <3>2
  <2> QED
    BY <1>6, <2>5, <2>6, <2>7, <2>8 DEF Fails, SameSlow, p, s, r
<1> QED
  BY <1>3, <1>4, <1>5, <1>6 DEF BeginContinues, f, p, s, r

(* The interrupt driver of turn t asks, asks for the turn that was found,    *)
(* will ask again, or leaves.                                                *)
Requests1(p, t, on) ==
    /\ \E x \in {"sent", "joined", "error"} :
         /\ turn'[t].dq = x
         /\ IF x = "sent" THEN wire'[p].in = wire[p].in \cup {Line(t, "interrupt", on)}
                          ELSE wire'[p].in = wire[p].in
    /\ wire'[p].out = wire[p].out /\ \A o \in Pairs \ {p} : wire'[o] = wire[o]

AsksFor(t) ==
    /\ OnlyOf(turn, turn', t, {"dq", "drv"}) /\ turn'[t].drv = "ask" /\ IdKnown(turn, t)
    /\ turn[t].drv \in {"live", "again"} /\ Requests1(turn[t].pair, t, WireId(t))
Found(t) ==
    /\ turn[t].dq \in Turns /\ turn[t].out = "none"
    /\ OnlyOf(turn, turn', t, {"dq", "lid"}) /\ turn'[t].lid \in Turns
    /\ \E on \in Turns : Requests1(turn[t].pair, t, on)
Again(t) ==
    /\ OnlyOf(turn, turn', t, {"dq", "drv"}) /\ turn[t].dq = "idle"
    /\ turn'[t].drv = "again" /\ turn'[t].dq = "none" /\ wire' = wire
Leaves(t) ==
    /\ OnlyOf(turn, turn', t, {"dq", "drv", "settle"})
    /\ turn'[t].drv = "none" /\ turn'[t].dq = "none" /\ wire' = wire
    /\ turn[t].out = "none" /\ ~conn[turn[t].pair].slow => IdKnown(turn, t)
    /\ turn[t].ph \notin Early

Drives1(t) == /\ AsksFor(t) \/ Found(t) \/ Again(t) \/ Leaves(t)
              /\ UNCHANGED <<ses, stale, child>> /\ SameSlow

LEMMA IssueDrives ==
    ASSUME Basis, NEW t \in Turns, turn[t].pair \in Pairs, NEW f \in TurnTable, NEW on,
           Issue(turn[t].pair, f, t, "dq", Line(t, "interrupt", on))
    PROVE  /\ Requests1(turn[t].pair, t, on) /\ OnlyOf(f, turn', t, {"dq"})
           /\ child' = child /\ SameSlow
<1>1. IssuedFor(turn[t].pair, f, t, "dq", Line(t, "interrupt", on))
  BY IssueFor
<1>2. PICK x \in {"sent", "joined", "error"} :
         /\ turn' = [f EXCEPT ![t].dq = x]
         /\ IF x = "sent" THEN wire'[turn[t].pair].in = wire[turn[t].pair].in \cup {Line(t, "interrupt", on)}
                          ELSE wire'[turn[t].pair].in = wire[turn[t].pair].in
  BY <1>1 DEF IssuedFor
<1>3. OnlyOf(f, turn', t, {"dq"})
  BY <1>2, RequestOnly
<1>4. turn'[t].dq = x
  BY <1>2, RequestOnly
<1> QED
  BY <1>1, <1>2, <1>3, <1>4 DEF IssuedFor, Requests1, SameSlow

LEMMA LeaveLeaves ==
    ASSUME Basis, Turning, NEW t \in Turns, NEW f, OnlyOf(turn, f, t, {"dq"}),
           turn' = Leave(f, t), wire' = wire, turn[t].drv # "none" \/ turn[t].dq # "none",
           turn[t].out = "none" /\ ~conn[turn[t].pair].slow => IdKnown(turn, t)
    PROVE  Leaves(t)
<1>1. f \in TurnTable
  BY DEF OnlyOf
<1>2. OnlyOf(f, turn', t, {"drv", "dq", "settle"})
  BY <1>1, LeaveOnly
<1>3. turn'[t].drv = "none"
  BY <1>1, LeaveOnly
<1>4. turn'[t].dq = "none"
  BY <1>1, LeaveOnly
<1>5. OnlyOf(turn, turn', t, {"dq", "drv", "settle"})
  BY <1>2 DEF OnlyOf, Only
<1>6. turn[t].ph \notin Early
  BY DEF Turning, TurnsRun, Unbegun
<1> QED
  BY <1>3, <1>4, <1>5, <1>6 DEF Leaves

LEMMA AsksDrives ==
    ASSUME Basis, Turning, NEW t \in Turns, DriverAsks(t) PROVE Drives1(t)
<1> DEFINE n == turn[t].tries + 1
           a == [turn[t] EXCEPT !.drv = "ask"]
           b == [a EXCEPT !.tries = n]
           f == [turn EXCEPT ![t] = b]
<1>0. turn \in TurnTable /\ turn[t] \in TurnState /\ turn[t].drv \in {"live", "again"}
      /\ turn[t].tries \in 0..MaxTries
  BY TurnTypes DEF DriverAsks, TurnState
<1>1. turn[t].ph \notin Early /\ turn[t].pair \in Pairs
  <2>1. turn[t].ph \notin Early
    BY <1>0 DEF Turning, TurnsRun, Unbegun
  <2> QED
    BY <2>1, RunsKnown
<1>2. turn[t].out = "none" /\ ~conn[turn[t].pair].slow => IdKnown(turn, t)
  BY <1>0 DEF DriverAsks, Turning, TurnsRun, Drivable, IdKnown
<1>3. CASE /\ turn[t].lid # None \/ turn[t].pid
           /\ turn[t].tries < MaxTries
           /\ Issue(turn[t].pair, [turn EXCEPT ![t].drv = "ask", ![t].tries = @ + 1], t, "dq",
                    Line(t, "interrupt", WireId(t)))
  <2>0. n \in 0..MaxTries
    BY <1>0, <1>3, CodexAssumption
  <2>1. f = [turn EXCEPT ![t].drv = "ask", ![t].tries = @ + 1]
    BY <1>0 DEF TurnTable, TurnState
  <2>2. Only(turn[t], a, {"drv"}) /\ a.drv = "ask"
    BY <1>0, DrvSet
  <2> HIDE DEF a, n
  <2>3. Only(a, b, {})
    BY <2>0, <2>2, TriesSet DEF Only
  <2> HIDE DEF b
  <2>4. Only(turn[t], b, {"drv"}) /\ b.drv = "ask"
    BY <2>2, <2>3 DEF Only
  <2>5. OnlyOf(turn, f, t, {"drv"})
    BY <1>0, <2>4, SetOnlyOf
  <2>6. f[t].drv = "ask"
    BY <1>0, <2>4 DEF TurnTable
  <2>7. Issue(turn[t].pair, f, t, "dq", Line(t, "interrupt", WireId(t)))
    BY <1>3, <2>1
  <2> HIDE DEF f
  <2>8. f \in TurnTable
    BY <2>5 DEF OnlyOf
  <2>9. /\ Requests1(turn[t].pair, t, WireId(t)) /\ OnlyOf(f, turn', t, {"dq"})
        /\ child' = child /\ SameSlow
    BY <1>1, <2>7, <2>8, IssueDrives
  <2>10. OnlyOf(turn, turn', t, {"dq", "drv"}) /\ turn'[t].drv = "ask"
    BY <2>5, <2>6, <2>9 DEF OnlyOf, Only
  <2>11. AsksFor(t)
    BY <1>0, <1>3, <2>9, <2>10 DEF AsksFor, IdKnown
  <2> QED
    BY <2>9, <2>11 DEF Drives1, DriverAsks
<1>4. CASE turn' = Leave(turn, t) /\ UNCHANGED <<conn, wire, child, faults>>
  <2>1. OnlyOf(turn, turn, t, {"dq"})
    BY <1>0 DEF OnlyOf, Only, TurnTable
  <2>2. Leaves(t)
    BY <1>0, <1>2, <1>4, <2>1, LeaveLeaves
  <2> QED
    BY <1>4, <2>2 DEF Drives1, SameSlow, DriverAsks
<1> QED
  BY <1>3, <1>4 DEF DriverAsks

LEMMA ContinuesDrives ==
    ASSUME Basis, Turning, NEW t \in Turns, DriverContinues(t) PROVE Drives1(t)
<1> DEFINE f == [turn EXCEPT ![t].dq = "none"]
           c == [turn[t] EXCEPT !.dq = "none"]
<1>0. turn \in TurnTable /\ turn[t] \in TurnState /\ turn[t].dq # "none"
  <2>1. turn \in TurnTable /\ turn[t] \in TurnState
    BY TurnTypes
  <2>2. turn[t].dq \in Answered
    BY DEF DriverContinues, DriveDue
  <2> QED
    BY <2>1, <2>2, TurnsAssumption DEF Answered, Requests
<1>1. turn[t].ph \notin Early /\ turn[t].pair \in Pairs /\ IdKnown(turn, t)
  <2>1. turn[t].ph \notin Early /\ IdKnown(turn, t)
    BY <1>0 DEF Turning, TurnsRun, Unbegun, Drivable
  <2> QED
    BY <2>1, RunsKnown
<1>2. OnlyOf(turn, f, t, {"dq"}) /\ f[t].dq = "none"
  <2>1. Only(turn[t], c, {"dq"}) /\ c.dq = "none"
    BY <1>0, DqSet DEF Requests
  <2>2. f = [turn EXCEPT ![t] = c]
    BY <1>0 DEF TurnTable
  <2> HIDE DEF c
  <2>3. OnlyOf(turn, [turn EXCEPT ![t] = c], t, {"dq"})
    BY <1>0, <2>1, SetOnlyOf
  <2>4. f[t] = c
    BY <1>0, <2>2 DEF TurnTable
  <2> QED
    BY <2>1, <2>2, <2>3, <2>4
<1> HIDE DEF f
<1>3. f \in TurnTable /\ f[t] \in TurnState
  BY <1>2 DEF OnlyOf, TurnTable
<1>4. CASE turn' = Leave(f, t) /\ UNCHANGED <<conn, wire, child, faults>>
  <2>2. Leaves(t)
    BY <1>0, <1>1, <1>2, <1>4, LeaveLeaves
  <2> QED
    BY <1>4, <2>2 DEF Drives1, SameSlow, DriverContinues
<1>5. CASE /\ turn[t].dq \in Turns /\ turn[t].out = "none"
           /\ Issue(turn[t].pair, [f EXCEPT ![t].lid = turn[t].dq, ![t].tries = 2],
                    t, "dq", Line(t, "interrupt", turn[t].dq))
  <2> DEFINE x == turn[t].dq
             a == [f[t] EXCEPT !.lid = x]
             b == [a EXCEPT !.tries = 2]
             g == [f EXCEPT ![t] = b]
  <2>0. x \in Turns /\ x \in Turns \cup {None} /\ 2 \in 0..MaxTries
    BY <1>5, CodexAssumption
  <2>1. g = [f EXCEPT ![t].lid = x, ![t].tries = 2]
    BY <1>3 DEF TurnTable
  <2>7. Issue(turn[t].pair, g, t, "dq", Line(t, "interrupt", x))
    BY <1>5, <2>1
  <2> HIDE DEF x
  <2>2. Only(f[t], a, {"lid"}) /\ a.lid = x
    BY <1>3, <2>0, LidSet
  <2> HIDE DEF a
  <2>3. Only(a, b, {})
    BY <2>0, <2>2, TriesSet DEF Only
  <2> HIDE DEF b
  <2>4. Only(f[t], b, {"lid"}) /\ b.lid = x
    BY <2>2, <2>3 DEF Only
  <2>5. OnlyOf(f, g, t, {"lid"})
    BY <1>3, <2>4, SetOnlyOf
  <2>6. g[t].lid = x
    BY <1>3, <2>4 DEF TurnTable
  <2> HIDE DEF g
  <2>8. g \in TurnTable
    BY <2>5 DEF OnlyOf
  <2>9. /\ Requests1(turn[t].pair, t, x) /\ OnlyOf(g, turn', t, {"dq"})
        /\ child' = child /\ SameSlow
    BY <1>1, <2>7, <2>8, IssueDrives
  <2>10. OnlyOf(turn, turn', t, {"dq", "lid"}) /\ turn'[t].lid \in Turns
    BY <1>2, <2>0, <2>5, <2>6, <2>9 DEF OnlyOf, Only
  <2>11. Found(t)
    BY <1>5, <2>0, <2>9, <2>10 DEF Found
  <2> QED
    BY <2>9, <2>11 DEF Drives1, DriverContinues
<1>6. CASE /\ turn[t].dq = "idle" /\ turn' = [f EXCEPT ![t].drv = "again"]
           /\ UNCHANGED <<conn, wire, child, faults>>
  <2> DEFINE a == [f[t] EXCEPT !.drv = "again"]
  <2>1. turn' = [f EXCEPT ![t] = a]
    BY <1>3, <1>6 DEF TurnTable
  <2>2. Only(f[t], a, {"drv"}) /\ a.drv = "again"
    BY <1>3, DrvSet
  <2> HIDE DEF a
  <2>3. OnlyOf(f, [f EXCEPT ![t] = a], t, {"drv"})
    BY <1>3, <2>2, SetOnlyOf
  <2>4. turn'[t].drv = "again"
    BY <1>3, <2>1, <2>2 DEF TurnTable
  <2>5. OnlyOf(turn, turn', t, {"dq", "drv"}) /\ turn'[t].dq = "none"
    BY <1>2, <2>1, <2>3 DEF OnlyOf, Only
  <2>6. Again(t)
    BY <1>6, <2>4, <2>5 DEF Again
  <2> QED
    BY <1>6, <2>6 DEF Drives1, SameSlow, DriverContinues
<1> QED
  BY <1>4, <1>5, <1>6 DEF DriverContinues, f

(* The turn r that runs in its session is over.                              *)
Finishes(p, r, out) ==
    /\ r \in Turns /\ p \in Pairs /\ ses[p][SessionOf[r]].running = r /\ out \in Outcomes
    /\ OnlyOf(turn, turn', r, {"out", "settle"}) /\ turn'[r].out = out
    /\ RunsThen(p, SessionOf[r], None)
    /\ stale'[p] = StaleAfter(p, r, out) /\ \A o \in Pairs \ {p} : stale'[o] = stale[o]
    /\ child' = child /\ SameSlow

GivesUp(t) == LET p == turn[t].pair IN
    Finishes(p, t, "interrupted") /\ wire' = wire
    /\ (turn[t].settle /\ (turn[t].drv = "none" \/ conn[p].slow))

(* The handshake is done: what has joined is sent.                           *)
Sent(x) == IF x = "joined" THEN "sent" ELSE x
Handshaken(p) ==
    /\ turn' \in TurnTable /\ \A u \in Turns : Only(turn[u], turn'[u], {"rq", "dq"})
    /\ \A u \in Turns : IF turn[u].pair = p
                          THEN turn'[u].rq = Sent(turn[u].rq) /\ turn'[u].dq = Sent(turn[u].dq)
                          ELSE turn'[u].rq = turn[u].rq /\ turn'[u].dq = turn[u].dq
    /\ wire'[p].in = wire[p].in \cup JoinedLines(p) /\ wire'[p].out = wire[p].out
    /\ \A o \in Pairs \ {p} : wire'[o] = wire[o]
    /\ UNCHANGED <<ses, stale, child>> /\ SameSlow

LEMMA RunningNow ==
    ASSUME Basis, Turning, NEW t \in Turns, turn[t].ph \notin Early, turn[t].out = "none"
    PROVE  turn[t].pair \in Pairs /\ ses[turn[t].pair][SessionOf[t]].running = t
BY RunsKnown DEF RunsNow

LEMMA GiveUpGives ==
    ASSUME Basis, Turning, NEW t \in Turns, GiveUp(t) PROVE GivesUp(t)
<1> DEFINE p == turn[t].pair
<1>0. turn \in TurnTable /\ stale \in [Pairs -> SUBSET Turns] /\ t # None /\ SessionOf[t] \in Sessions
  BY BasisParts, CodexAssumption
<1>1. /\ turn' = Settle(turn, t, "interrupted", t)
      /\ stale' = [stale EXCEPT ![p] = StaleAfter(p, t, "interrupted")]
      /\ ses' = [ses EXCEPT ![p][SessionOf[t]].running = None]
      /\ UNCHANGED <<conn, wire, child, faults, rt>>
      /\ turn[t].settle /\ turn[t].out = "none"
      /\ turn[t].drv = "none" \/ conn[p].slow
  BY DEF GiveUp
<1>2. turn[t].ph \notin Early
  BY <1>1 DEF Turning, TurnsRun, Unbegun
<1>3. p \in Pairs /\ ses[p][SessionOf[t]].running = t
  BY <1>1, <1>2, RunningNow
<1> HIDE DEF p
<1>4. RunsThen(p, SessionOf[t], None)
  BY <1>0, <1>1, <1>3, RunningSet
<1>5. OnlyOf(turn, turn', t, {"out", "settle"})
  BY <1>0, <1>1, SettleOnly DEF Outcomes
<1>6. turn'[t].out = "interrupted"
  BY <1>0, <1>1, SettleOnly DEF Outcomes
<1>7. stale'[p] = StaleAfter(p, t, "interrupted") /\ \A o \in Pairs \ {p} : stale'[o] = stale[o]
  BY <1>0, <1>1, <1>3
<1> QED
  BY <1>1, <1>3, <1>4, <1>5, <1>6, <1>7 DEF GivesUp, Finishes, SameSlow, Outcomes, p

LEMMA HandshakeDone ==
    ASSUME Basis, NEW p \in Pairs, Handshake(p) PROVE Handshaken(p)
<1>0. turn \in TurnTable /\ conn \in ConnTable /\ wire \in WireTable
  BY BasisParts
<1>1. ASSUME NEW u \in Turns
      PROVE  /\ Only(turn[u], turn'[u], {"rq", "dq"})
             /\ IF turn[u].pair = p
                  THEN turn'[u].rq = Sent(turn[u].rq) /\ turn'[u].dq = Sent(turn[u].dq)
                  ELSE turn'[u].rq = turn[u].rq /\ turn'[u].dq = turn[u].dq
  <2> DEFINE rq == IF turn[u].rq = "joined" THEN "sent" ELSE turn[u].rq
             dq == IF turn[u].dq = "joined" THEN "sent" ELSE turn[u].dq
             a == [turn[u] EXCEPT !.rq = rq]
             b == [a EXCEPT !.dq = dq]
  <2>1. turn[u] \in TurnState /\ rq \in Requests /\ dq \in Requests \cup Turns
    BY <1>0 DEF TurnTable, TurnState, Requests
  <2>2. turn'[u] = IF turn[u].pair # p THEN turn[u] ELSE b
    BY DEF Handshake
  <2>3. rq = Sent(turn[u].rq) /\ dq = Sent(turn[u].dq)
    BY DEF Sent
  <2> HIDE DEF rq, dq
  <2>4. Only(turn[u], a, {"rq"}) /\ a.rq = rq
    BY <2>1, RqSet
  <2> HIDE DEF a
  <2>5. a \in TurnState
    BY <2>4 DEF Only
  <2>6. Only(a, b, {"dq"}) /\ b.dq = dq
    BY <2>1, <2>5, DqSet
  <2> HIDE DEF b
  <2>7. Only(turn[u], b, {"rq", "dq"}) /\ b.rq = rq
    BY <2>4, <2>6 DEF Only
  <2>8. Only(turn[u], turn[u], {"rq", "dq"})
    BY <2>1 DEF Only
  <2>9. CASE turn[u].pair = p
    BY <2>2, <2>3, <2>6, <2>7, <2>9
  <2>10. CASE turn[u].pair # p
    BY <2>2, <2>8, <2>10
  <2> QED
    BY <2>9, <2>10
<1>2. turn' = [u \in Turns |-> turn'[u]]
  BY DEF Handshake
<1>3. turn' \in TurnTable
  <2>1. \A u \in Turns : turn'[u] \in TurnState
    BY <1>1 DEF Only
  <2> QED
    BY <1>2, <2>1 DEF TurnTable
<1>4. UNCHANGED <<ses, stale, child>> /\ SameSlow
  <2>1. conn' = [conn EXCEPT ![p].st = "ready"] /\ UNCHANGED <<ses, stale, child>>
    BY DEF Handshake
  <2> QED
    BY <1>0, <2>1 DEF SameSlow, ConnTable
<1>5. wire' = [wire EXCEPT ![p].in = @ \cup JoinedLines(p)]
  BY DEF Handshake
<1>6. /\ wire'[p].in = wire[p].in \cup JoinedLines(p) /\ wire'[p].out = wire[p].out
      /\ \A o \in Pairs \ {p} : wire'[o] = wire[o]
  BY <1>0, <1>5 DEF WireTable
<1> QED
  BY <1>1, <1>3, <1>4, <1>6 DEF Handshaken

(* Only a slow app-server lets a request run out of time.                    *)
RunsOut(t) == LET p == turn[t].pair IN
    /\ p \in Pairs /\ conn[p].slow
    /\ \/ turn[t].rq = "sent" /\ OnlyOf(turn, turn', t, {"rq"}) /\ turn'[t].rq = "error"
       \/ turn[t].dq = "sent" /\ OnlyOf(turn, turn', t, {"dq"}) /\ turn'[t].dq = "error"
    /\ \A m \in wire'[p].in : \E n \in wire[p].in : m.for = n.for /\ m.what = n.what
    /\ \A i \in DOMAIN wire'[p].out : \E j \in DOMAIN wire[p].out : wire'[p].out[i] = wire[p].out[j]
    /\ \A o \in Pairs \ {p} : wire'[o] = wire[o]
    /\ UNCHANGED <<ses, stale, child>> /\ SameSlow

LEMMA TimeOutRuns ==
    ASSUME Basis, Turning, NEW t \in Turns, NEW field \in {"rq", "dq"}, TimeOut(t, field)
    PROVE  RunsOut(t)
<1> DEFINE p == turn[t].pair
           out == wire[p].out
           mine(m) == m.for = t /\ ((m.what = "interrupt") <=> (field = "dq"))
           answers == {i \in DOMAIN out : out[i].kind = "reply" /\ mine(out[i])}
           in2 == {IF mine(m) THEN [m EXCEPT !.open = FALSE] ELSE m : m \in wire[p].in}
           out2 == IF answers = {} THEN out ELSE RemoveAt(out, CHOOSE i \in answers : TRUE)
<1>0. turn \in TurnTable /\ wire \in WireTable
  BY BasisParts
<1>1. wire' = [wire EXCEPT ![p].in = in2, ![p].out = out2]
  BY DEF TimeOut
<1>2. /\ turn[t][field] = "sent" /\ conn[p].slow /\ turn' = [turn EXCEPT ![t][field] = "error"]
      /\ UNCHANGED <<ses, conn, stale, child>>
  BY DEF TimeOut
<1>3. p \in Pairs
  <2>1. turn[t].rq = "sent" \/ turn[t].dq = "sent"
    BY <1>2
  <2>2. turn[t].ph \notin Early
    <3>1. turn[t].ph \in Early => turn[t].rq = "none"
      BY BasisParts DEF TurnsKnown, Early
    <3>2. turn[t].ph \in Early => turn[t].dq = "none"
      BY DEF Turning, TurnsRun, Unbegun
    <3> QED
      BY <2>1, <3>1, <3>2
  <2> QED
    BY <2>2, RunsKnown
<1>4. \/ turn[t].rq = "sent" /\ OnlyOf(turn, turn', t, {"rq"}) /\ turn'[t].rq = "error"
      \/ turn[t].dq = "sent" /\ OnlyOf(turn, turn', t, {"dq"}) /\ turn'[t].dq = "error"
  <2>1. CASE field = "rq"
    <3>1. turn' = [turn EXCEPT ![t].rq = "error"] /\ turn[t].rq = "sent"
      BY <1>2, <2>1
    <3>2. OnlyOf(turn, [turn EXCEPT ![t].rq = "error"], t, {"rq"})
      BY <1>0, RequestOnly
    <3>3. [turn EXCEPT ![t].rq = "error"][t].rq = "error"
      BY <1>0, RequestOnly
    <3> QED
      BY <3>1, <3>2, <3>3
  <2>2. CASE field = "dq"
    <3>1. turn' = [turn EXCEPT ![t].dq = "error"] /\ turn[t].dq = "sent"
      BY <1>2, <2>2
    <3>2. OnlyOf(turn, [turn EXCEPT ![t].dq = "error"], t, {"dq"})
      BY <1>0, RequestOnly
    <3>3. [turn EXCEPT ![t].dq = "error"][t].dq = "error"
      BY <1>0, RequestOnly
    <3> QED
      BY <3>1, <3>2, <3>3
  <2> QED
    BY <2>1, <2>2
<1>5. \A m \in in2 : \E n \in wire[p].in : m.for = n.for /\ m.what = n.what
  <2>1. ASSUME NEW n \in wire[p].in
        PROVE  [n EXCEPT !.open = FALSE].for = n.for /\ [n EXCEPT !.open = FALSE].what = n.what
    <3>1. n \in Questions
      BY <1>3, WireParts
    <3> QED
      BY <3>1 DEF Questions
  <2> HIDE DEF mine
  <2> QED
    BY <2>1
<1>6. \A i \in DOMAIN out2 : \E j \in DOMAIN out : out2[i] = out[j]
  <2>1. CASE answers = {}
    BY <2>1
  <2>2. CASE answers # {}
    <3>1. PICK i \in answers : out2 = RemoveAt(out, i)
      BY <2>2
    <3>2. i \in DOMAIN out
      OBVIOUS
    <3> HIDE DEF answers, out2
    <3>3. PICK q \in Seq(Answers) : q = out
      BY <1>3, WireParts
    <3> HIDE DEF out
    <3>4. DOMAIN q = 1..Len(q) /\ Len(q) \in Nat
      BY LenProperties
    <3>5. /\ out2 \in Seq(Answers) /\ Len(out2) = Len(q) - 1
          /\ \A j \in 1..(Len(q) - 1) : out2[j] = IF j < i THEN q[j] ELSE q[j + 1]
      BY <3>1, <3>2, <3>3, <3>4, RemoveAtProperties
    <3>6. DOMAIN out2 = 1..(Len(q) - 1)
      BY <3>5, LenProperties
    <3>7. i \in Nat /\ \A j \in 1..(Len(q) - 1) : j \in DOMAIN q /\ j + 1 \in DOMAIN q
      BY <3>2, <3>3, <3>4
    <3>8. \A j \in DOMAIN out2 : out2[j] = q[j] \/ out2[j] = q[j + 1]
      BY <3>5, <3>6
    <3> QED
      BY <3>3, <3>6, <3>7, <3>8
  <2> QED
    BY <2>1, <2>2
<1> HIDE DEF in2, out2, p
<1>7. wire'[p].in = in2 /\ wire'[p].out = out2 /\ \A o \in Pairs \ {p} : wire'[o] = wire[o]
  BY <1>0, <1>1, <1>3 DEF WireTable
<1>8. /\ \A m \in wire'[p].in : \E n \in wire[p].in : m.for = n.for /\ m.what = n.what
      /\ \A i \in DOMAIN wire'[p].out : \E j \in DOMAIN wire[p].out : wire'[p].out[i] = wire[p].out[j]
  BY <1>5, <1>6, <1>7
<1>9. SameSlow /\ UNCHANGED <<ses, stale, child>> /\ conn[p].slow
  BY <1>2 DEF SameSlow
<1> HIDE DEF out, mine, answers
<1> QED
  BY <1>3, <1>4, <1>7, <1>8, <1>9 DEF RunsOut, p

(* The app-server writes to the end of its output: an answer to request m,   *)
(* or what became of turn x.                                                 *)
Grown(p) == /\ Len(wire[p].out) <= Len(wire'[p].out)
            /\ \A i \in DOMAIN wire[p].out : i \in DOMAIN wire'[p].out /\ wire'[p].out[i] = wire[p].out[i]
New(p)   == DOMAIN wire'[p].out \ DOMAIN wire[p].out
IsReply(l, m, a) == l.kind = "reply" /\ l.for = m.for /\ l.what = m.what /\ l.answer = a
IsEvent(l, k, x) == l.kind = k /\ l.for = x /\ l.what = "event"

Answers1(p, m, a) ==
    /\ wire'[p].in = wire[p].in \ {m} /\ Grown(p)
    /\ \A i \in New(p) : IsReply(wire'[p].out[i], m, a)
    /\ \A s \in Sessions : child'[p][s].active = child[p][s].active
    /\ a \in Turns => m.what = "interrupt" /\ a = child[p][SessionOf[m.for]].active /\ a # m.on
    /\ m.what = "turn" => a # "ok"
(* The active turn of session s is x now, and was w.                         *)
Becomes(p, s, w, x) ==
    /\ child[p][s].active = w /\ child'[p][s].active = x
    /\ \A z \in Sessions \ {s} : child'[p][z].active = child[p][z].active
Tells(p, k, x) ==
    /\ Grown(p) /\ Len(wire[p].out) < Len(wire'[p].out)
    /\ IsEvent(wire'[p].out[Len(wire'[p].out)], k, x)
TellsToo(p, m, k, x) ==
    /\ wire'[p].in = wire[p].in \ {m} /\ Tells(p, k, x)
    /\ \A i \in New(p) : i = Len(wire'[p].out) \/ IsReply(wire'[p].out[i], m, "ok")
    /\ m.open => Len(wire[p].out) + 1 \in New(p) \ {Len(wire'[p].out)}
Starts1(p, m) == /\ m.what = "turn" /\ Becomes(p, SessionOf[m.for], None, m.for)
                 /\ TellsToo(p, m, "started", m.for)
Stops1(p, m)  == /\ m.what = "interrupt" /\ Becomes(p, SessionOf[m.for], m.on, None)
                 /\ TellsToo(p, m, "interrupted", m.on)
EndsSo(p, s, x, k) == /\ x \in Turns /\ Becomes(p, s, x, None) /\ Tells(p, k, x)
                      /\ wire'[p].in = wire[p].in /\ New(p) = {Len(wire'[p].out)}
OtherWires(p) == \A o \in Pairs \ {p} : wire'[o] = wire[o] /\ child'[o] = child[o]
Works(p) ==
    /\ UNCHANGED <<turn, ses, stale>> /\ SameSlow /\ OtherWires(p)
    /\ \/ \E m \in wire[p].in :
            Starts1(p, m) \/ Stops1(p, m) \/ \E a \in AnswersOf(m) : Answers1(p, m, a)
       \/ \E s \in Sessions, x \in Turns, k \in Ends : EndsSo(p, s, x, k)

LEMMA JoinedParts ==
    ASSUME NEW S, NEW q \in Seq(S), NEW w \in Seq(S)
    PROVE  /\ q \o w \in Seq(S) /\ Len(q \o w) = Len(q) + Len(w)
           /\ DOMAIN (q \o w) = 1..(Len(q) + Len(w))
           /\ \A i \in 1..Len(q) : (q \o w)[i] = q[i]
           /\ \A j \in 1..Len(w) : (q \o w)[Len(q) + j] = w[j]
<1>1. q \o w \in Seq(S) /\ Len(q \o w) = Len(q) + Len(w)
  OBVIOUS
<1>2. DOMAIN (q \o w) = 1..Len(q \o w)
  BY <1>1, LenProperties
<1>3. \A i \in 1..Len(q) : (q \o w)[i] = q[i]
  OBVIOUS
<1>4. \A j \in 1..Len(w) : (q \o w)[Len(q) + j] = w[j]
  OBVIOUS
<1> QED
  BY <1>1, <1>2, <1>3, <1>4

LEMMA GrownBy ==
    ASSUME Basis, NEW p \in Pairs, NEW lines \in Seq(Answers),
           wire'[p].out = wire[p].out \o lines
    PROVE  /\ Grown(p) /\ Len(wire'[p].out) = Len(wire[p].out) + Len(lines)
           /\ Len(wire[p].out) \in Nat /\ Len(lines) \in Nat
           /\ New(p) = (Len(wire[p].out) + 1)..(Len(wire[p].out) + Len(lines))
           /\ \A j \in 1..Len(lines) : wire'[p].out[Len(wire[p].out) + j] = lines[j]
<1>1. PICK q \in Seq(Answers) : q = wire[p].out
  BY WireParts
<1>2. PICK v \in Seq(Answers) : v = wire'[p].out
  BY <1>1, JoinedParts
<1>3. /\ Len(v) = Len(q) + Len(lines) /\ DOMAIN v = 1..(Len(q) + Len(lines))
      /\ \A i \in 1..Len(q) : v[i] = q[i]
      /\ \A j \in 1..Len(lines) : v[Len(q) + j] = lines[j]
  BY <1>1, <1>2, JoinedParts
<1>4. DOMAIN q = 1..Len(q) /\ Len(q) \in Nat /\ Len(lines) \in Nat
  BY LenProperties
<1>5. Len(q) <= Len(v) /\ \A i \in DOMAIN q : i \in DOMAIN v /\ v[i] = q[i]
  BY <1>3, <1>4
<1>6. DOMAIN v \ DOMAIN q = (Len(q) + 1)..(Len(q) + Len(lines))
  BY <1>3, <1>4
<1> QED
  BY <1>1, <1>2, <1>3, <1>4, <1>5, <1>6 DEF Grown, New

LEMMA ReplyIs ==
    ASSUME NEW m \in Questions, NEW a \in AnswersOf(m)
    PROVE  /\ Reply(m, a) \in Seq(Answers) /\ (m.open => Len(Reply(m, a)) = 1)
           /\ Len(Reply(m, a)) \in {0, 1}
           /\ \A j \in 1..Len(Reply(m, a)) : IsReply(Reply(m, a)[j], m, a)
<1> DEFINE l == [kind |-> "reply", for |-> m.for, what |-> m.what, answer |-> a]
<1>1. Reply(m, a) \in Seq(Answers) /\ Len(Reply(m, a)) \in {0, 1}
  BY ReplyLines
<1>2. IsReply(l, m, a)
  BY DEF IsReply
<1>3. Reply(m, a) = IF m.open THEN <<l>> ELSE <<>>
  BY DEF Reply
<1> HIDE DEF l
<1>4. Len(<<l>>) = 1 /\ <<l>>[1] = l
  OBVIOUS
<1>5. Len(<<>>) = 0
  BY EmptySeq
<1>6. \A j \in 1..Len(Reply(m, a)) : IsReply(Reply(m, a)[j], m, a)
  BY <1>2, <1>3, <1>4, <1>5
<1> QED
  BY <1>1, <1>3, <1>4, <1>6

LEMMA EventIs ==
    ASSUME NEW k \in {"started", "completed", "interrupted", "broken"}, NEW x \in Turns
    PROVE  Event(k, x) \in Seq(Answers) /\ Len(Event(k, x)) = 1 /\ IsEvent(Event(k, x)[1], k, x)
<1> DEFINE l == [kind |-> k, for |-> x, what |-> "event", answer |-> "none"]
<1>1. IsEvent(l, k, x)
  BY DEF IsEvent
<1>2. Event(k, x) = <<l>>
  BY DEF Event
<1> HIDE DEF l
<1> QED
  BY <1>1, <1>2, EventLine

LEMMA ReplyAndEventAre ==
    ASSUME NEW m \in Questions, "ok" \in AnswersOf(m),
           NEW k \in {"started", "completed", "interrupted", "broken"}, NEW x \in Turns
    PROVE  \E w \in Seq(Answers) :
             /\ w = Reply(m, "ok") \o Event(k, x)
             /\ Len(w) \in {1, 2} /\ (m.open => Len(w) = 2) /\ IsEvent(w[Len(w)], k, x)
             /\ \A j \in 1..Len(w) : j = Len(w) \/ IsReply(w[j], m, "ok")
<1>1. PICK r \in Seq(Answers) : r = Reply(m, "ok")
  BY ReplyIs
<1>2. PICK e \in Seq(Answers) : e = Event(k, x)
  BY EventIs
<1>3. PICK w \in Seq(Answers) : w = r \o e
  BY JoinedParts
<1>4. /\ Len(w) = Len(r) + Len(e)
      /\ \A i \in 1..Len(r) : w[i] = r[i]
      /\ \A j \in 1..Len(e) : w[Len(r) + j] = e[j]
  BY <1>3, JoinedParts
<1>5. /\ Len(r) \in {0, 1} /\ (m.open => Len(r) = 1)
      /\ \A j \in 1..Len(r) : IsReply(r[j], m, "ok")
  BY <1>1, ReplyIs
<1>6. Len(e) = 1 /\ IsEvent(e[1], k, x)
  BY <1>2, EventIs
<1>7. Len(w) = Len(r) + 1 /\ w[Len(w)] = e[1]
  BY <1>4, <1>5, <1>6
<1>8. \A j \in 1..Len(w) : j = Len(w) \/ IsReply(w[j], m, "ok")
  <2> SUFFICES ASSUME NEW j \in 1..Len(w), j # Len(w) PROVE IsReply(w[j], m, "ok")
    OBVIOUS
  <2>1. j \in 1..Len(r)
    BY <1>5, <1>7
  <2>2. w[j] = r[j]
    BY <1>4, <2>1
  <2>3. IsReply(r[j], m, "ok")
    BY <1>5, <2>1
  <2> QED
    BY <2>2, <2>3 DEF IsReply
<1>9. Len(w) \in {1, 2} /\ (m.open => Len(w) = 2)
  BY <1>5, <1>7
<1>10. IsEvent(w[Len(w)], k, x)
  BY <1>6, <1>7 DEF IsEvent
<1>11. w = Reply(m, "ok") \o Event(k, x)
  BY <1>1, <1>2, <1>3
<1> WITNESS w \in Seq(Answers)
<1> QED
  BY <1>8, <1>9, <1>10, <1>11

(* One session of the child of pair p changes, and the wire of p.            *)
LEMMA ChildSet ==
    ASSUME Basis, NEW p \in Pairs, NEW s \in Sessions,
           NEW state \in [loaded : BOOLEAN, active : Turns \cup {None}],
           child' = [child EXCEPT ![p][s] = state]
    PROVE  Becomes(p, s, child[p][s].active, state.active)
           /\ \A o \in Pairs \ {p} : child'[o] = child[o]
<1>1. child \in KidTable
  BY BasisParts
<1> QED
  BY <1>1 DEF KidTable, Becomes

LEMMA WireIs ==
    ASSUME Basis, NEW p \in Pairs, NEW in, NEW out,
           wire' = [wire EXCEPT ![p].in = in, ![p].out = out]
    PROVE  wire'[p].in = in /\ wire'[p].out = out /\ \A o \in Pairs \ {p} : wire'[o] = wire[o]
<1>1. wire \in WireTable
  BY BasisParts
<1> QED
  BY <1>1 DEF WireTable

LEMMA NoTurns == \A a \in Requests : a \notin Turns
BY TurnsAssumption

LEMMA ServeWorks ==
    ASSUME Basis, NEW p \in Pairs, NEW m \in wire[p].in, Serve(p, m)
    PROVE  Works(p)
<1> DEFINE s == SessionOf[m.for]
           c == child[p][s]
           KidState == [loaded : BOOLEAN, active : Turns \cup {None}]
           After(state, lines) ==
             /\ child' = [child EXCEPT ![p][s] = state]
             /\ wire' = [wire EXCEPT ![p].in = @ \ {m}, ![p].out = @ \o lines]
<1>0. /\ child \in KidTable /\ m \in Questions /\ m.for \in Turns /\ m.on \in Turns
      /\ s \in Sessions /\ c \in KidState
  <2>1. m \in Questions
    BY WireParts
  <2>2. m.for \in Turns /\ m.on \in Turns
    BY <2>1 DEF Questions
  <2> QED
    BY <2>1, <2>2, BasisParts, CodexAssumption DEF KidTable
<1>1. UNCHANGED <<turn, ses, stale>> /\ SameSlow
  <2>1. UNCHANGED <<turn, ses, conn, stale, rt>>
    BY Zenon DEF Serve
  <2> QED
    BY <2>1 DEF SameSlow
<1>2. ASSUME NEW state \in KidState, NEW lines, After(state, lines)
      PROVE  /\ Becomes(p, s, c.active, state.active) /\ OtherWires(p)
             /\ wire'[p].in = wire[p].in \ {m} /\ wire'[p].out = wire[p].out \o lines
  <2> DEFINE in2 == wire[p].in \ {m}
             out2 == wire[p].out \o lines
  <2>1. child' = [child EXCEPT ![p][s] = state] /\ wire' = [wire EXCEPT ![p].in = in2, ![p].out = out2]
    BY <1>2
  <2> HIDE DEF in2, out2, s, c, KidState
  <2>2. state \in [loaded : BOOLEAN, active : Turns \cup {None}]
    BY <1>2 DEF KidState
  <2>3. Becomes(p, s, child[p][s].active, state.active)
    BY <1>0, <2>1, <2>2, ChildSet
  <2>4. \A o \in Pairs \ {p} : child'[o] = child[o]
    BY <1>0, <2>1, <2>2, ChildSet
  <2>5. wire'[p].in = in2 /\ wire'[p].out = out2 /\ \A o \in Pairs \ {p} : wire'[o] = wire[o]
    BY <2>1, WireIs
  <2> QED
    BY <2>3, <2>4, <2>5 DEF OtherWires, in2, out2, c
<1>3. /\ [c EXCEPT !.loaded = TRUE] \in KidState /\ [c EXCEPT !.loaded = TRUE].active = c.active
      /\ [c EXCEPT !.active = m.for] \in KidState /\ [c EXCEPT !.active = m.for].active = m.for
      /\ [c EXCEPT !.active = None] \in KidState /\ [c EXCEPT !.active = None].active = None
  BY <1>0
<1>4. ASSUME NEW state \in KidState, state.active = c.active, NEW a \in AnswersOf(m),
             After(state, Reply(m, a)), m.what = "turn" => a # "ok",
             a \in Turns => m.what = "interrupt" /\ a = c.active /\ a # m.on
      PROVE  Works(p)
  <2> HIDE DEF After, KidState
  <2>1. /\ Becomes(p, s, c.active, state.active) /\ OtherWires(p)
        /\ wire'[p].in = wire[p].in \ {m} /\ wire'[p].out = wire[p].out \o Reply(m, a)
    BY <1>2, <1>4
  <2> HIDE DEF s, c
  <2>2. PICK lines \in Seq(Answers) : lines = Reply(m, a)
    BY <1>0, <1>4, ReplyIs
  <2>3. \A j \in 1..Len(lines) : IsReply(lines[j], m, a)
    BY <1>0, <1>4, <2>2, ReplyIs
  <2>4. wire'[p].out = wire[p].out \o lines
    BY <2>1, <2>2
  <2>5. PICK n \in Nat, h \in Nat :
          /\ n = Len(wire[p].out) /\ h = Len(lines) /\ Grown(p)
          /\ New(p) = (n + 1)..(n + h)
          /\ \A j \in 1..h : wire'[p].out[n + j] = lines[j]
    BY <2>4, GrownBy
  <2>6. ASSUME NEW i \in New(p) PROVE IsReply(wire'[p].out[i], m, a)
    <3>1. i - n \in 1..h /\ i = n + (i - n)
      BY <2>5
    <3>2. wire'[p].out[i] = lines[i - n]
      BY <2>5, <3>1
    <3>3. IsReply(lines[i - n], m, a)
      BY <2>3, <2>5, <3>1
    <3> QED
      BY <3>2, <3>3 DEF IsReply
  <2>7. \A z \in Sessions : child'[p][z].active = child[p][z].active
    BY <1>4, <2>1 DEF Becomes, c
  <2>8. Answers1(p, m, a)
    BY <1>4, <2>1, <2>5, <2>6, <2>7 DEF Answers1, c, s
  <2> QED
    BY <1>1, <1>4, <2>1, <2>8 DEF Works
<1>5. ASSUME NEW state \in KidState, "ok" \in AnswersOf(m), NEW x \in Turns,
             NEW k \in {"started", "interrupted"}, After(state, Reply(m, "ok") \o Event(k, x))
      PROVE  Becomes(p, s, c.active, state.active) /\ OtherWires(p) /\ TellsToo(p, m, k, x)
  <2> HIDE DEF After, KidState
  <2>1. /\ Becomes(p, s, c.active, state.active) /\ OtherWires(p)
        /\ wire'[p].in = wire[p].in \ {m}
        /\ wire'[p].out = wire[p].out \o (Reply(m, "ok") \o Event(k, x))
    BY <1>2, <1>5
  <2> HIDE DEF s, c
  <2>2. PICK lines \in Seq(Answers) :
          /\ lines = Reply(m, "ok") \o Event(k, x)
          /\ Len(lines) \in {1, 2} /\ (m.open => Len(lines) = 2) /\ IsEvent(lines[Len(lines)], k, x)
          /\ \A j \in 1..Len(lines) : j = Len(lines) \/ IsReply(lines[j], m, "ok")
    <3>1. k \in {"started", "completed", "interrupted", "broken"}
      BY <1>5
    <3> QED
      BY <1>0, <1>5, <3>1, ReplyAndEventAre
  <2>4. wire'[p].out = wire[p].out \o lines
    BY <2>1, <2>2
  <2>5. PICK n \in Nat, h \in Nat :
          /\ n = Len(wire[p].out) /\ h = Len(lines) /\ Len(wire'[p].out) = n + h /\ Grown(p)
          /\ New(p) = (n + 1)..(n + h)
          /\ \A j \in 1..h : wire'[p].out[n + j] = lines[j]
    BY <2>4, GrownBy
  <2>6. ASSUME NEW i \in New(p), i # Len(wire'[p].out) PROVE IsReply(wire'[p].out[i], m, "ok")
    <3>0. i \in (n + 1)..(n + h) /\ i # n + h
      BY <2>5, <2>6
    <3>1. i - n \in 1..h /\ i = n + (i - n) /\ i - n # h
      BY <3>0
    <3>2. wire'[p].out[i] = lines[i - n]
      BY <2>5, <3>1
    <3>3. IsReply(lines[i - n], m, "ok")
      BY <2>2, <2>5, <3>1
    <3> QED
      BY <3>2, <3>3 DEF IsReply
  <2>7. h \in {1, 2} /\ (m.open => h = 2)
    BY <2>2, <2>5
  <2>8. IsEvent(wire'[p].out[n + h], k, x)
    <3>1. wire'[p].out[n + h] = lines[h]
      BY <2>5, <2>7
    <3> QED
      BY <2>2, <2>5, <3>1 DEF IsEvent
  <2>9. n < n + h
    BY <2>7
  <2>10. m.open => n + 1 \in New(p) \ {n + h}
    <3>1. m.open => n + 1 \in (n + 1)..(n + h) /\ n + 1 # n + h
      BY <2>7
    <3> QED
      BY <2>5, <3>1
  <2>11. Tells(p, k, x)
    BY <2>5, <2>8, <2>9 DEF Tells
  <2>12. m.open => Len(wire[p].out) + 1 \in New(p) \ {Len(wire'[p].out)}
    BY <2>5, <2>10
  <2> QED
    BY <2>1, <2>6, <2>11, <2>12 DEF TellsToo
<1>6. CASE After(c, Reply(m, "error"))
  <2> HIDE DEF After
  <2> QED
    BY <1>0, <1>4, <1>6, NoTurns DEF AnswersOf, Requests
<1>7. CASE m.what = "load" /\ After([c EXCEPT !.loaded = TRUE], Reply(m, "ok"))
  <2> HIDE DEF After
  <2> QED
    BY <1>3, <1>4, <1>7, NoTurns DEF AnswersOf, Requests
<1>8. CASE m.what = "turn" /\ After(c, Reply(m, "missing"))
  <2> HIDE DEF After
  <2> QED
    BY <1>0, <1>4, <1>8, NoTurns DEF AnswersOf, Requests
<1>9. CASE /\ m.what = "turn" /\ c.active = None
           /\ After([c EXCEPT !.active = m.for], Reply(m, "ok") \o Event("started", m.for))
  <2> DEFINE state == [c EXCEPT !.active = m.for]
  <2> HIDE DEF After
  <2>1. After(state, Reply(m, "ok") \o Event("started", m.for)) /\ state \in KidState
        /\ state.active = m.for /\ "ok" \in AnswersOf(m)
    BY <1>3, <1>9 DEF AnswersOf
  <2> HIDE DEF state, s, c, KidState
  <2>2. /\ Becomes(p, s, c.active, state.active) /\ OtherWires(p)
        /\ TellsToo(p, m, "started", m.for)
    BY <1>0, <1>5, <2>1
  <2>3. Starts1(p, m)
    BY <1>9, <2>1, <2>2 DEF Starts1, s
  <2> QED
    BY <1>1, <2>2, <2>3 DEF Works
<1>10. CASE /\ m.what = "interrupt" /\ c.active = m.on
            /\ After([c EXCEPT !.active = None], Reply(m, "ok") \o Event("interrupted", m.on))
  <2> DEFINE state == [c EXCEPT !.active = None]
  <2> HIDE DEF After
  <2>1. After(state, Reply(m, "ok") \o Event("interrupted", m.on)) /\ state \in KidState
        /\ state.active = None /\ "ok" \in AnswersOf(m)
    BY <1>3, <1>10 DEF AnswersOf
  <2> HIDE DEF state, s, c, KidState
  <2>2. /\ Becomes(p, s, c.active, state.active) /\ OtherWires(p)
        /\ TellsToo(p, m, "interrupted", m.on)
    BY <1>0, <1>5, <2>1
  <2>3. Stops1(p, m)
    BY <1>10, <2>1, <2>2 DEF Stops1, s
  <2> QED
    BY <1>1, <2>2, <2>3 DEF Works
<1>11. CASE m.what = "interrupt" /\ After(c, Reply(m, "idle"))
  <2> HIDE DEF After
  <2> QED
    BY <1>0, <1>4, <1>11, NoTurns DEF AnswersOf, Requests
<1>12. CASE m.what = "interrupt" /\ c.active \notin {None, m.on} /\ After(c, Reply(m, c.active))
  <2>1. c.active \in AnswersOf(m)
    BY <1>0, <1>12 DEF AnswersOf
  <2> HIDE DEF After
  <2> QED
    BY <1>0, <1>4, <1>12, <2>1
<1> QED
  BY <1>6, <1>7, <1>8, <1>9, <1>10, <1>11, <1>12 DEF Serve

LEMMA ServeEndWorks ==
    ASSUME Basis, NEW p \in Pairs, NEW s \in Sessions, NEW k \in Ends, ServeEnd(p, s, k)
    PROVE  Works(p)
<1> DEFINE x == child[p][s].active
           out2 == wire[p].out \o Event(k, x)
           state == [child[p][s] EXCEPT !.active = None]
<1>0. /\ wire \in WireTable /\ child \in KidTable /\ x \in Turns
      /\ k \in {"started", "completed", "interrupted", "broken"}
  BY BasisParts DEF KidTable, ServeEnd, Ends
<1>1. /\ child' = [child EXCEPT ![p][s].active = None]
      /\ wire' = [wire EXCEPT ![p].out = out2]
      /\ UNCHANGED <<turn, ses, stale, conn>>
  BY DEF ServeEnd
<1>2. child' = [child EXCEPT ![p][s] = state] /\ state.active = None
      /\ state \in [loaded : BOOLEAN, active : Turns \cup {None}]
  BY <1>0, <1>1 DEF KidTable
<1> HIDE DEF state
<1>3. Becomes(p, s, child[p][s].active, state.active)
  BY <1>2, ChildSet
<1>4. \A o \in Pairs \ {p} : child'[o] = child[o]
  BY <1>2, ChildSet
<1> HIDE DEF out2
<1>5. wire'[p].in = wire[p].in /\ wire'[p].out = out2 /\ \A o \in Pairs \ {p} : wire'[o] = wire[o]
  BY <1>0, <1>1 DEF WireTable
<1> HIDE DEF x
<1>6. PICK lines \in Seq(Answers) : lines = Event(k, x) /\ Len(lines) = 1 /\ IsEvent(lines[1], k, x)
  BY <1>0, EventIs
<1>7. wire'[p].out = wire[p].out \o lines
  BY <1>5, <1>6 DEF out2
<1>8. /\ Grown(p) /\ Len(wire[p].out) \in Nat
      /\ Len(wire'[p].out) = Len(wire[p].out) + 1
      /\ New(p) = (Len(wire[p].out) + 1)..(Len(wire[p].out) + 1)
      /\ wire'[p].out[Len(wire[p].out) + 1] = lines[1]
  <2>1. 1 \in 1..Len(lines)
    BY <1>6
  <2> QED
    BY <1>6, <1>7, <2>1, GrownBy
<1>9. Tells(p, k, x) /\ New(p) = {Len(wire'[p].out)}
  BY <1>6, <1>8 DEF Tells, IsEvent
<1>10. EndsSo(p, s, x, k)
  BY <1>0, <1>2, <1>3, <1>5, <1>9 DEF EndsSo, x
<1> QED
  BY <1>0, <1>1, <1>4, <1>5, <1>10 DEF Works, OtherWires, SameSlow

(* A line of pair p is read: an answer, a notification that is dropped, the  *)
(* name of the turn that runs, or its end.                                   *)
Answered1(l) ==
    /\ l.kind = "reply" /\ UNCHANGED <<ses, stale>>
    /\ IF l.what = "interrupt"
         THEN OnlyOf(turn, turn', l.for, {"dq"}) /\ turn'[l.for].dq = l.answer
         ELSE OnlyOf(turn, turn', l.for, {"rq"}) /\ turn'[l.for].rq = l.answer
Named(p, l) == LET r == ses[p][SessionOf[l.for]].running IN
    /\ l.kind = "started" /\ r \in Turns /\ l.for \notin stale[p] /\ UNCHANGED <<ses, stale>>
    /\ OnlyOf(turn, turn', r, {"lid", "drv", "settle"}) /\ turn'[r].lid = l.for
    /\ Prodded(turn[r], turn'[r])
EndRead(p, l) == LET r == ses[p][SessionOf[l.for]].running IN
    /\ l.kind \in {"completed", "interrupted", "broken"} /\ l.for \notin stale[p]
    /\ IsEndOf(l.for, r, l.kind)
    /\ \E out \in Outcomes : Finishes(p, r, out) /\ turn' = Settle(turn, r, out, l.for)
Unheard(p, l) == LET r == ses[p][SessionOf[l.for]].running IN
    /\ l.kind # "reply" /\ UNCHANGED <<turn, ses, stale>>
    /\ l.for \in stale[p] \/ r = None \/ (l.kind # "started" /\ ~IsEndOf(l.for, r, l.kind))
Reads(p) ==
    LET l == Head(wire[p].out) IN
    /\ wire[p].out # <<>> /\ wire'[p].in = wire[p].in /\ wire'[p].out = Tail(wire[p].out)
    /\ OtherWires(p) /\ child' = child /\ SameSlow
    /\ Answered1(l) \/ Unheard(p, l) \/ Named(p, l) \/ EndRead(p, l)

LEMMA DeliverReads ==
    ASSUME Basis, Turning, NEW p \in Pairs, Deliver(p) PROVE Reads(p)
<1> DEFINE l == Head(wire[p].out)
           x == l.for
           s == SessionOf[x]
           r == ses[p][s].running
           ignored == x \in stale[p] \/ r = None
           out == IF l.kind = "broken" THEN "failed" ELSE l.kind
           rest == Tail(wire[p].out)
<1>0. /\ turn \in TurnTable /\ wire \in WireTable /\ ses \in SesTable
      /\ stale \in [Pairs -> SUBSET Turns] /\ wire[p].out # <<>>
  BY BasisParts DEF Deliver
<1>1. l \in Answers
  BY <1>0, HeadLine
<1>2. x \in Turns /\ s \in Sessions
  <2>1. x \in Turns
    BY <1>1 DEF Answers
  <2> QED
    BY <2>1, CodexAssumption
<1>3. r \in Turns \cup {None}
  BY <1>0, <1>2 DEF SesTable, SessionState
<1>4. UNCHANGED <<conn, child>> /\ wire' = [wire EXCEPT ![p].out = rest]
  BY DEF Deliver
<1>5. /\ wire'[p].in = wire[p].in /\ wire'[p].out = rest
      /\ OtherWires(p) /\ child' = child /\ SameSlow
  <2> HIDE DEF rest
  <2> QED
    BY <1>0, <1>4 DEF WireTable, OtherWires, SameSlow
<1>6. Answered1(l) \/ Unheard(p, l) \/ Named(p, l) \/ EndRead(p, l)
  <2>1. CASE /\ l.kind = "reply"
             /\ turn' = [turn EXCEPT ![x][IF l.what = "interrupt" THEN "dq" ELSE "rq"] = l.answer]
             /\ UNCHANGED <<ses, stale>>
    <3>1. CASE l.what = "interrupt"
      <4>1. turn' = [turn EXCEPT ![x] = [turn[x] EXCEPT !.dq = l.answer]]
        BY <1>0, <2>1, <3>1 DEF TurnTable
      <4>2. l.answer \in Requests \cup Turns
        BY <1>1, <2>1, <3>1 DEF Answers, Requests
      <4>3. turn[x] \in TurnState
        BY <1>0, <1>2 DEF TurnTable
      <4> DEFINE y == l.answer
                 a == [turn[x] EXCEPT !.dq = y]
      <4>5. turn' = [turn EXCEPT ![x] = a] /\ x \in Turns
        BY <1>2, <4>1
      <4> HIDE DEF x, l, y
      <4>4. Only(turn[x], a, {"dq"}) /\ a.dq = y
        BY <4>2, <4>3, DqSet DEF y
      <4> HIDE DEF a
      <4>6. OnlyOf(turn, turn', x, {"dq"}) /\ turn'[x] = a
        <5>1. OnlyOf(turn, [turn EXCEPT ![x] = a], x, {"dq"})
          BY <1>0, <4>4, <4>5, SetOnlyOf
        <5>2. [turn EXCEPT ![x] = a][x] = a
          BY <1>0, <4>5 DEF TurnTable
        <5> QED
          BY <4>5, <5>1, <5>2
      <4> QED
        BY <2>1, <3>1, <4>4, <4>6 DEF Answered1, x, y
    <3>2. CASE l.what # "interrupt"
      <4>1. turn' = [turn EXCEPT ![x] = [turn[x] EXCEPT !.rq = l.answer]]
        BY <1>0, <2>1, <3>2 DEF TurnTable
      <4>2. l.answer \in Requests
        BY <1>1, <2>1, <3>2 DEF Answers, Requests
      <4>3. turn[x] \in TurnState
        BY <1>0, <1>2 DEF TurnTable
      <4> DEFINE y == l.answer
                 a == [turn[x] EXCEPT !.rq = y]
      <4>5. turn' = [turn EXCEPT ![x] = a] /\ x \in Turns
        BY <1>2, <4>1
      <4> HIDE DEF x, l, y
      <4>4. Only(turn[x], a, {"rq"}) /\ a.rq = y
        BY <4>2, <4>3, RqSet DEF y
      <4> HIDE DEF a
      <4>6. OnlyOf(turn, turn', x, {"rq"}) /\ turn'[x] = a
        <5>1. OnlyOf(turn, [turn EXCEPT ![x] = a], x, {"rq"})
          BY <1>0, <4>4, <4>5, SetOnlyOf
        <5>2. [turn EXCEPT ![x] = a][x] = a
          BY <1>0, <4>5 DEF TurnTable
        <5> QED
          BY <4>5, <5>1, <5>2
      <4> QED
        BY <2>1, <3>2, <4>4, <4>6 DEF Answered1, x, y
    <3> QED
      BY <3>1, <3>2
  <2>2. CASE /\ l.kind # "reply" /\ UNCHANGED <<turn, ses, stale>>
             /\ ~ignored => l.kind # "started" /\ ~IsEndOf(x, r, l.kind)
    BY <2>2 DEF Unheard
  <2>3. CASE /\ l.kind = "started" /\ ~ignored
             /\ LET f == [turn EXCEPT ![r].lid = x]
                IN turn' = IF turn[r].abort THEN Interrupted(f, r) ELSE f
             /\ UNCHANGED <<ses, stale>>
    <3> DEFINE a == [turn[r] EXCEPT !.lid = x]
               f == [turn EXCEPT ![r] = a]
    <3>1. r \in Turns /\ turn[r] \in TurnState /\ x \in Turns \cup {None}
      BY <1>0, <1>2, <1>3, <2>3 DEF TurnTable
    <3>2. turn' = IF turn[r].abort THEN Interrupted(f, r) ELSE f
      BY <1>0, <2>3 DEF TurnTable
    <3> HIDE DEF r, x, l
    <3>3. Only(turn[r], a, {"lid"}) /\ a.lid = x
      BY <3>1, LidSet
    <3> HIDE DEF a
    <3>4. OnlyOf(turn, f, r, {"lid"}) /\ f[r] = a
      <4>1. OnlyOf(turn, [turn EXCEPT ![r] = a], r, {"lid"})
        BY <1>0, <3>1, <3>3, SetOnlyOf
      <4>2. [turn EXCEPT ![r] = a][r] = a
        BY <1>0, <3>1 DEF TurnTable
      <4> QED
        BY <4>1, <4>2
    <3> HIDE DEF f
    <3>5. f \in TurnTable /\ f[r].drv = turn[r].drv /\ f[r].settle = turn[r].settle
      BY <3>4 DEF OnlyOf, Only
    <3>6. OnlyOf(turn, turn', r, {"lid", "drv", "settle"}) /\ turn'[r].lid = x
          /\ Prodded(turn[r], turn'[r])
      <4>1. CASE turn[r].abort
        <5>0. turn' = Interrupted(f, r)
          BY <3>2, <4>1
        <5>1. OnlyOf(f, turn', r, {"drv", "settle"})
          BY <3>1, <3>5, <5>0, InterruptedOnly
        <5>2. IF f[r].drv = "none" THEN turn'[r].drv = "live" /\ turn'[r].settle = f[r].settle
                                   ELSE turn'[r].drv = f[r].drv
          BY <3>1, <3>5, <5>0, InterruptedOnly
        <5>3. OnlyOf(turn, turn', r, {"lid"} \cup {"drv", "settle"})
          BY <3>4, <5>1, OnlyTwice
        <5>4. OnlyOf(turn, turn', r, {"lid", "drv", "settle"})
          BY <5>3, OnlyMore
        <5>5. turn'[r].lid = f[r].lid
          BY <5>1 DEF OnlyOf, Only
        <5> QED
          BY <3>3, <3>4, <3>5, <5>2, <5>4, <5>5 DEF Prodded
      <4>2. CASE ~turn[r].abort
        <5>0. turn' = f
          BY <3>2, <4>2
        <5>1. OnlyOf(turn, turn', r, {"lid", "drv", "settle"})
          BY <3>4, <5>0, OnlyMore
        <5>2. Prodded(turn[r], turn'[r])
          BY <3>5, <5>0 DEF Prodded
        <5> QED
          BY <3>3, <3>4, <5>0, <5>1, <5>2
      <4> QED
        BY <4>1, <4>2
    <3> QED
      BY <2>3, <3>1, <3>6 DEF Named, r, s, x
  <2>4. CASE /\ l.kind \notin {"reply", "started"} /\ ~ignored /\ IsEndOf(x, r, l.kind)
             /\ turn' = Settle(turn, r, out, x) /\ FinishRunning(p, r, out, x)
    <3>1. r \in Turns /\ r # None /\ out \in Outcomes /\ l.kind \in {"completed", "interrupted", "broken"}
      <4>1. r # None
        BY <2>4
      <4>2. r \in Turns
        BY <1>3, <4>1
      <4>3. l.kind \in {"completed", "interrupted", "broken"}
        BY <1>1, <2>4 DEF Answers
      <4>4. out \in Outcomes
        BY <4>3 DEF Outcomes
      <4> QED
        BY <4>1, <4>2, <4>3, <4>4
    <3>2. SessionOf[r] = s
      <4>1. RunningKnown /\ s \in Sessions /\ r = ses[p][s].running /\ r # None
        BY <1>2, <3>1, CodexAssumption DEF Turning
      <4> HIDE DEF r, s
      <4> QED
        BY <4>1 DEF RunningKnown
    <3>3. stale' = [stale EXCEPT ![p] = StaleAfter(p, r, out)]
          /\ ses' = [ses EXCEPT ![p][s].running = None]
      BY <2>4, <3>1, <3>2 DEF FinishRunning
    <3>4. ses[p][s].running = r
      OBVIOUS
    <3> HIDE DEF out, r, s, x, l
    <3>5. OnlyOf(turn, turn', r, {"out", "settle"})
      BY <1>0, <1>2, <2>4, <3>1, SettleOnly
    <3>6. turn'[r].out = out
      BY <1>0, <1>2, <2>4, <3>1, SettleOnly
    <3>7. RunsThen(p, s, None)
      BY <1>2, <3>3, RunningSet
    <3>8. stale'[p] = StaleAfter(p, r, out) /\ \A o \in Pairs \ {p} : stale'[o] = stale[o]
      BY <1>0, <3>3
    <3>9. Finishes(p, r, out)
      BY <1>5, <3>1, <3>2, <3>4, <3>5, <3>6, <3>7, <3>8 DEF Finishes
    <3> QED
      BY <2>4, <3>1, <3>9 DEF EndRead, r, s, x
  <2> QED
    BY <2>1, <2>2, <2>3, <2>4 DEF Deliver
<1> QED
  BY <1>0, <1>5, <1>6 DEF Reads

(* Turning is kept: first what most steps have in common.                    *)
LEMMA SamePlaces == ASSUME Turning, SameRunning PROVE Places
BY DEF Turning, RunningKnown, SameRunning, Places

LEMMA SameWritten == ASSUME wire' = wire, child' = child PROVE Written
BY DEF Written

LEMMA RunsSame ==
    ASSUME Basis, NEW u \in Turns, SameRunning, turn'[u].pair = turn[u].pair, turn[u].ph \notin Early
    PROVE  RunsNow(u)' <=> RunsNow(u)
<1>1. turn[u].pair \in Pairs /\ SessionOf[u] \in Sessions
  BY BasisParts, CodexAssumption DEF TurnsKnown, Early
<1> QED
  BY <1>1 DEF RunsNow, SameRunning

LEMMA StepMoves ==
    ASSUME Basis, Turning, NEW t \in Turns, turn[t].ph \notin Early, turn'[t].ph \notin Early,
           turn'[t].pair = turn[t].pair, turn'[t].out = turn[t].out,
           RunsNow(t)' <=> RunsNow(t), Drivable(t)', IdKnown(turn, t) => IdKnown(turn', t)
    PROVE  Moves(t)
BY RunsKnown DEF Moves, Over, Goes1

(* One turn goes on, and nobody runs who did not.                            *)
LEMMA OneTurning ==
    ASSUME Basis, Basis', Turning, NEW t \in Turns, NEW S, OnlyOf(turn, turn', t, S),
           SameRunning, Written, turn[t].ph \notin Early, turn'[t].ph \notin Early,
           turn'[t].pair = turn[t].pair, turn'[t].out = turn[t].out,
           Drivable(t)', IdKnown(turn, t) => IdKnown(turn', t)
    PROVE  Turning'
<1>1. Moves(t)
  BY RunsSame, StepMoves
<1>2. ASSUME NEW u \in Turns, u # t PROVE Moves(u)
  <2>1. turn'[u] = turn[u] /\ turn' \in TurnTable
    BY <1>2 DEF OnlyOf
  <2>2. Only(turn[u], turn'[u], {"rq", "settle"})
    BY <2>1 DEF Only, TurnTable
  <2>3. turn[u].ph \notin Early => (RunsNow(u)' <=> RunsNow(u))
    BY <2>1, RunsSame
  <2> QED
    BY <2>1, <2>2, <2>3, LeftMoves
<1> QED
  BY <1>1, <1>2, SamePlaces, MovesTurning

(* A request is written, of a turn that has begun.                           *)
LEMMA LineWritten ==
    ASSUME Basis, NEW p \in Pairs, NEW m,
           wire'[p].in = wire[p].in \cup {m} \/ wire'[p].in = wire[p].in,
           Speaks(turn', m, p), wire'[p].out = wire[p].out,
           \A o \in Pairs \ {p} : wire'[o] = wire[o], child' = child
    PROVE  Written
<1> SUFFICES ASSUME NEW o \in Pairs
             PROVE  /\ \A n \in wire'[o].in : n \in wire[o].in \/ Speaks(turn', n, o)
                    /\ wire'[o].out = wire[o].out
  BY DEF Written
<1>1. CASE o = p
  <2>1. \A n \in wire'[p].in : n \in wire[p].in \/ n = m
    OBVIOUS
  <2> QED
    BY <1>1, <2>1
<1> QED
  BY <1>1

LEMMA SendsWritten ==
    ASSUME Basis, NEW p \in Pairs, NEW t \in Turns, Sends(p, t), turn[t].pair = p
    PROVE  Written
<1> PICK ph \in {"load", "start", "reload", "restart"}, x \in {"sent", "joined", "error"} :
      /\ OnlyOf(turn, turn', t, {"ph", "rq"}) /\ turn'[t].ph = ph /\ turn'[t].rq = x
      /\ IF x = "sent" THEN wire'[p].in = wire[p].in \cup {LineFor(t, ph)}
                       ELSE wire'[p].in = wire[p].in
      /\ wire'[p].out = wire[p].out /\ \A o \in Pairs \ {p} : wire'[o] = wire[o]
      /\ \A o \in Pairs : conn'[o].slow = conn[o].slow
      /\ child' = child
  BY DEF Sends
<1>1. turn'[t].pair = p
  BY DEF OnlyOf, Only
<1>2. LineFor(t, ph).for = t /\ LineFor(t, ph).what # "interrupt"
  BY DEF LineFor, LoadLine, StartLine, Line
<1>3. Speaks(turn', LineFor(t, ph), p)
  BY <1>1, <1>2 DEF Speaks, Begun, Early
<1> QED
  BY <1>3, LineWritten

LEMMA AsksTurning ==
    ASSUME Basis, Basis', Turning, NEW t \in Turns, Asks1(t) PROVE Turning'
<1>1. turn[t].ph \in {"load", "start", "reload"} /\ SameSessions /\ Sends(turn[t].pair, t)
  BY DEF Asks1, Loading
<1>2. turn[t].ph \notin Early /\ turn[t].pair \in Pairs
  BY <1>1, RunsKnown DEF Early
<1>3. Written
  BY <1>1, <1>2, SendsWritten
<1>4. SameRunning
  BY <1>1 DEF SameSessions, SameSession, SameRunning
<1>5. /\ OnlyOf(turn, turn', t, {"ph", "rq"})
      /\ turn'[t].ph \in {"load", "start", "reload", "restart"}
  BY <1>1 DEF Sends
<1>6. /\ turn'[t].pair = turn[t].pair /\ turn'[t].out = turn[t].out
      /\ turn'[t].pid = turn[t].pid /\ turn'[t].lid = turn[t].lid
      /\ turn'[t].drv = turn[t].drv /\ turn'[t].dq = turn[t].dq
  BY <1>5 DEF OnlyOf, Only
<1>7. Drivable(t)
  BY DEF Turning, TurnsRun
<1>8. Drivable(t)' /\ (IdKnown(turn, t) => IdKnown(turn', t))
  BY <1>1, <1>6, <1>7 DEF Drivable, IdKnown
<1>9. turn'[t].ph \notin Early
  BY <1>5 DEF Early
<1> QED
  BY <1>2, <1>3, <1>4, <1>5, <1>6, <1>8, <1>9, OneTurning

LEMMA DrivesTurning ==
    ASSUME Basis, Basis', Turning, NEW t \in Turns, Drives1(t) PROVE Turning'
<1>0. SameRunning /\ child' = child /\ turn \in TurnTable
  BY BasisParts DEF Drives1, SameRunning
<1>1. IdKnown(turn, t) => turn[t].ph \notin Early
  BY DEF Turning, TurnsRun, Unbegun, IdKnown
<1>2. Drivable(t)
  BY DEF Turning, TurnsRun
<1>3. turn[t].ph \notin Early
  <2>1. CASE AsksFor(t)
    BY <1>1, <2>1 DEF AsksFor
  <2>2. CASE Found(t)
    <3>1. turn[t].dq # "none"
      BY <2>2, NoTurns DEF Found, Requests
    <3> QED
      BY <1>1, <1>2, <3>1 DEF Drivable
  <2>3. CASE Again(t)
    BY <1>1, <1>2, <2>3 DEF Again, Drivable
  <2>4. CASE Leaves(t)
    BY <2>4 DEF Leaves
  <2> QED
    BY <2>1, <2>2, <2>3, <2>4 DEF Drives1
<1>4. turn[t].pair \in Pairs
  BY <1>3, RunsKnown
<1>5. ASSUME NEW S, OnlyOf(turn, turn', t, S), "ph" \notin S, "pair" \notin S, "out" \notin S,
             "pid" \notin S, IdKnown(turn, t) => IdKnown(turn', t), Written,
             turn'[t].drv \in {"ask", "again"} \/ turn'[t].dq # "none" => IdKnown(turn', t)
      PROVE  Turning'
  <2>1. /\ turn'[t].ph = turn[t].ph /\ turn'[t].pair = turn[t].pair
        /\ turn'[t].out = turn[t].out /\ turn'[t].pid = turn[t].pid
    BY <1>5 DEF OnlyOf, Only
  <2>2. Drivable(t)'
    BY <1>2, <1>5, <2>1 DEF Drivable
  <2> QED
    BY <1>0, <1>3, <1>5, <2>1, <2>2, OneTurning
<1>6. ASSUME NEW on, Requests1(turn[t].pair, t, on), turn'[t].pair = turn[t].pair,
             turn'[t].ph = turn[t].ph, IdKnown(turn', t)
      PROVE  Written
  <2> DEFINE m == Line(t, "interrupt", on)
  <2>1. m.for = t
    BY DEF Line
  <2>2. Speaks(turn', m, turn[t].pair)
    BY <1>3, <1>6, <2>1 DEF Speaks, Begun
  <2>3. /\ wire'[turn[t].pair].in = wire[turn[t].pair].in \cup {m}
           \/ wire'[turn[t].pair].in = wire[turn[t].pair].in
        /\ wire'[turn[t].pair].out = wire[turn[t].pair].out
        /\ \A o \in Pairs \ {turn[t].pair} : wire'[o] = wire[o]
    BY <1>6 DEF Requests1
  <2> HIDE DEF m
  <2> QED
    BY <1>0, <1>4, <2>2, <2>3, LineWritten
<1>7. CASE AsksFor(t)
  <2>1. OnlyOf(turn, turn', t, {"dq", "drv"}) /\ IdKnown(turn, t)
    BY <1>7 DEF AsksFor
  <2>2. IdKnown(turn', t) /\ turn'[t].pair = turn[t].pair /\ turn'[t].ph = turn[t].ph
    BY <2>1 DEF OnlyOf, Only, IdKnown
  <2>3. Written
    BY <1>6, <1>7, <2>2 DEF AsksFor
  <2> QED
    BY <1>5, <2>1, <2>2, <2>3
<1>8. CASE Found(t)
  <2>1. OnlyOf(turn, turn', t, {"dq", "lid"}) /\ turn'[t].lid \in Turns
    BY <1>8 DEF Found
  <2>2. IdKnown(turn', t) /\ turn'[t].pair = turn[t].pair /\ turn'[t].ph = turn[t].ph
    BY <2>1, CodexAssumption DEF OnlyOf, Only, IdKnown
  <2>3. Written
    BY <1>6, <1>8, <2>2 DEF Found
  <2> QED
    BY <1>5, <2>1, <2>2, <2>3
<1>9. CASE Again(t)
  <2>1. OnlyOf(turn, turn', t, {"dq", "drv"}) /\ wire' = wire /\ turn[t].dq # "none"
    BY <1>9 DEF Again
  <2>2. IdKnown(turn, t) => IdKnown(turn', t)
    BY <2>1 DEF OnlyOf, Only, IdKnown
  <2>3. IdKnown(turn, t)
    BY <1>2, <2>1 DEF Drivable
  <2> QED
    BY <1>0, <1>5, <2>1, <2>2, <2>3, SameWritten
<1>10. CASE Leaves(t)
  <2>1. /\ OnlyOf(turn, turn', t, {"dq", "drv", "settle"}) /\ wire' = wire
        /\ turn'[t].drv = "none" /\ turn'[t].dq = "none"
    BY <1>10 DEF Leaves
  <2>2. IdKnown(turn, t) => IdKnown(turn', t)
    BY <2>1 DEF OnlyOf, Only, IdKnown
  <2> QED
    BY <1>0, <1>5, <2>1, <2>2, SameWritten
<1> QED
  BY <1>7, <1>8, <1>9, <1>10 DEF Drives1

(* The session of p changes; the other turns keep running, or not.           *)
LEMMA OthersRun ==
    ASSUME Basis, NEW p \in Pairs, NEW s \in Sessions, OtherSessions(p, s), NEW u \in Turns,
           turn'[u].pair = turn[u].pair, turn[u].ph \notin Early,
           (ses'[p][s].running = u) <=> (ses[p][s].running = u)
    PROVE  RunsNow(u)' <=> RunsNow(u)
<1>1. turn[u].pair \in Pairs /\ SessionOf[u] \in Sessions
  BY BasisParts, CodexAssumption DEF TurnsKnown, Early
<1> QED
  BY <1>1 DEF RunsNow, OtherSessions, SameSession

LEMMA OtherPlaces ==
    ASSUME Turning, NEW p \in Pairs, NEW s \in Sessions, OtherSessions(p, s),
           LET r == ses[p][s].running  n == ses'[p][s].running IN
             /\ n # None => n = r \/ (turn'[n].pair = p /\ SessionOf[n] = s /\ turn'[n].ph \notin Early)
             /\ ses'[p][s].block # None => n \in {None, ses'[p][s].block}
    PROVE  Places
<1> SUFFICES ASSUME NEW o \in Pairs, NEW z \in Sessions
             PROVE  LET r == ses[o][z].running  n == ses'[o][z].running IN
                    /\ n # None => n = r \/ (turn'[n].pair = o /\ SessionOf[n] = z /\ turn'[n].ph \notin Early)
                    /\ ses'[o][z].block # None => n \in {None, ses'[o][z].block}
  BY DEF Places
<1>1. CASE o = p /\ z = s
  BY <1>1
<1>2. CASE ~(o = p /\ z = s)
  <2>1. ses'[o][z].running = ses[o][z].running /\ ses'[o][z].block = ses[o][z].block
    BY <1>2 DEF OtherSessions, SameSession
  <2> QED
    BY <2>1 DEF Turning, RunningKnown
<1> QED
  BY <1>1, <1>2

LEMMA PopsTurning ==
    ASSUME Basis, Basis', Turning, NEW p \in Pairs, NEW s \in Sessions, Pops(p, s) PROVE Turning'
<1>1. /\ ses[p][s].running = None /\ ses'[p][s].running = None /\ ses'[p][s].block = None
      /\ OtherSessions(p, s) /\ UNCHANGED <<turn, wire, child>>
  BY DEF Pops, QueueGoes
<1>2. Places
  BY <1>1, OtherPlaces
<1>3. ASSUME NEW u \in Turns PROVE Moves(u)
  <2>1. u # None /\ turn \in TurnTable
    BY BasisParts, CodexAssumption
  <2>2. turn[u].ph \notin Early => (RunsNow(u)' <=> RunsNow(u))
    BY <1>1, <2>1, OthersRun
  <2> QED
    BY <1>1, <2>1, <2>2, LeftMoves DEF Only, TurnTable
<1> QED
  BY <1>1, <1>2, <1>3, SameWritten, MovesTurning

LEMMA BeginsTurning ==
    ASSUME Basis, Basis', Turning, NEW p \in Pairs, NEW s \in Sessions, NEW h \in Turns,
           Begins(p, s, h)
    PROVE  Turning'
<1>1. /\ ses[p][s].running = None /\ ses'[p][s].running = h /\ ses'[p][s].block = None
      /\ OtherSessions(p, s) /\ turn[h].ph = "queued" /\ turn[h].pair = p /\ SessionOf[h] = s
      /\ Sends(p, h)
  BY DEF Begins, QueueGoes
<1>2. /\ OnlyOf(turn, turn', h, {"ph", "rq"})
      /\ turn'[h].ph \in {"load", "start", "reload", "restart"}
  BY <1>1 DEF Sends
<1>3. turn'[h].pair = p /\ turn'[h].ph \notin Early
  BY <1>1, <1>2 DEF OnlyOf, Only, Early
<1>4. Places
  BY <1>1, <1>3, OtherPlaces
<1>5. Written
  BY <1>1, SendsWritten
<1>6. Moves(h)
  <2>1. Unbegun(h) /\ turn[h].ph \in Early
    BY <1>1 DEF Turning, TurnsRun, Early
  <2>2. /\ turn'[h].out = "none" /\ turn'[h].drv = "none" /\ turn'[h].dq = "none" /\ ~turn'[h].pid
        /\ turn'[h].pid = turn[h].pid /\ turn'[h].lid = turn[h].lid
    BY <1>2, <2>1 DEF OnlyOf, Only, Unbegun
  <2>3. RunsNow(h)'
    BY <1>1, <1>3 DEF RunsNow
  <2>4. Drivable(h)'
    BY <2>2 DEF Drivable
  <2>5. IdKnown(turn, h) => IdKnown(turn', h)
    BY <2>2 DEF IdKnown
  <2> QED
    BY <1>3, <2>1, <2>2, <2>3, <2>4, <2>5 DEF Moves, Goes1
<1>7. ASSUME NEW u \in Turns, u # h PROVE Moves(u)
  <2>1. u # None /\ turn'[u] = turn[u] /\ turn' \in TurnTable
    BY <1>2, <1>7, CodexAssumption DEF OnlyOf
  <2>2. turn[u].ph \notin Early => (RunsNow(u)' <=> RunsNow(u))
    BY <1>1, <1>7, <2>1, OthersRun
  <2> QED
    BY <2>1, <2>2, LeftMoves DEF Only, TurnTable
<1> QED
  BY <1>4, <1>5, <1>6, <1>7, MovesTurning

LEMMA StopsTurning ==
    ASSUME Basis, Basis', Turning, NEW p \in Pairs, NEW s \in Sessions, NEW r \in Turns,
           Stops(p, s, r)
    PROVE  Turning'
<1>1. /\ ses[p][s].running = r /\ ses'[p][s].running = r /\ ses'[p][s].block = r
      /\ OtherSessions(p, s) /\ UNCHANGED <<wire, child>>
      /\ OnlyOf(turn, turn', r, {"drv", "settle"}) /\ turn'[r].drv \in {"live", turn[r].drv}
  BY DEF Stops
<1>2. Places
  BY <1>1, OtherPlaces
<1>3. r # None /\ turn[r].ph \notin Early /\ Drivable(r)
  BY <1>1, CodexAssumption DEF Turning, RunningKnown, TurnsRun
<1>4. /\ turn'[r].ph = turn[r].ph /\ turn'[r].pair = turn[r].pair /\ turn'[r].out = turn[r].out
      /\ turn'[r].dq = turn[r].dq /\ turn'[r].pid = turn[r].pid /\ turn'[r].lid = turn[r].lid
  BY <1>1 DEF OnlyOf, Only
<1>5. RunsNow(r)' <=> RunsNow(r)
  BY <1>1, <1>3, <1>4, OthersRun
<1>6. Drivable(r)' /\ (IdKnown(turn, r) => IdKnown(turn', r))
  BY <1>1, <1>3, <1>4 DEF Drivable, IdKnown
<1>7. Moves(r)
  BY <1>3, <1>4, <1>5, <1>6, StepMoves
<1>8. ASSUME NEW u \in Turns, u # r PROVE Moves(u)
  <2>1. turn'[u] = turn[u] /\ turn' \in TurnTable
    BY <1>1, <1>8 DEF OnlyOf
  <2>2. turn[u].ph \notin Early => (RunsNow(u)' <=> RunsNow(u))
    BY <1>1, <1>8, <2>1, OthersRun
  <2> QED
    BY <2>1, <2>2, LeftMoves DEF Only, TurnTable
<1> QED
  BY <1>1, <1>2, <1>7, <1>8, SameWritten, MovesTurning

LEMMA OpensTurning ==
    ASSUME Basis, Basis', Turning, NEW t \in Turns, Opens(t) PROVE Turning'
<1> DEFINE r == ses[turn[t].pair][SessionOf[t]].running
<1>1. /\ turn[t].rq = "ok" /\ turn[t].ph \in {"start", "restart"}
      /\ turn' \in TurnTable /\ turn'[t].ph = "open" /\ turn'[t].pid
      /\ Only(turn[t], turn'[t], {"ph", "rq", "pid", "drv", "settle"})
      /\ \A u \in Turns : u # t => Only(turn[u], turn'[u], {"drv", "settle"})
      /\ \A u \in Turns : Prodded(turn[u], turn'[u])
      /\ \A u \in Turns : u # r => Idle(turn[u], turn'[u])
      /\ ses' = ses /\ wire' = wire /\ child' = child
  BY DEF Opens
<1>2. SameRunning
  BY <1>1 DEF SameRunning
<1>3. turn[t].ph \notin Early /\ turn'[t].ph \notin Early
  BY <1>1 DEF Early
<1>4. Moves(t)
  <2>1. turn'[t].pair = turn[t].pair /\ turn'[t].out = turn[t].out
    BY <1>1 DEF Only
  <2>2. RunsNow(t)' <=> RunsNow(t)
    BY <1>2, <1>3, <2>1, RunsSame
  <2>3. Drivable(t)' /\ IdKnown(turn', t)
    BY <1>1 DEF Drivable, IdKnown
  <2> QED
    BY <1>3, <2>1, <2>2, <2>3, StepMoves
<1>5. ASSUME NEW u \in Turns, u # t PROVE Moves(u)
  <2>1. /\ Only(turn[u], turn'[u], {"drv", "settle"})
        /\ turn'[u].ph = turn[u].ph /\ turn'[u].pair = turn[u].pair
        /\ turn'[u].out = turn[u].out /\ turn'[u].pid = turn[u].pid
        /\ turn'[u].lid = turn[u].lid /\ turn'[u].dq = turn[u].dq
    BY <1>1, <1>5 DEF Only
  <2>2. turn[u].ph \notin Early => (RunsNow(u)' <=> RunsNow(u))
    BY <1>2, <2>1, RunsSame
  <2>3. CASE u = r
    <3>1. turn[t].pair \in Pairs /\ SessionOf[t] \in Sessions /\ u # None
      BY <1>3, RunsKnown, CodexAssumption
    <3>2. turn[u].ph \notin Early
      BY <2>3, <3>1 DEF Turning, RunningKnown
    <3>3. Drivable(u)
      BY DEF Turning, TurnsRun
    <3>4. turn'[u].drv = turn[u].drv \/ turn'[u].drv \in {"none", "live"}
      BY <1>1 DEF Prodded
    <3>5. Drivable(u)' /\ (IdKnown(turn, u) => IdKnown(turn', u))
      BY <2>1, <3>3, <3>4 DEF Drivable, IdKnown
    <3> QED
      BY <2>1, <2>2, <3>2, <3>5, StepMoves
  <2>4. CASE u # r
    <3>1. turn'[u].drv = turn[u].drv /\ turn'[u].settle = turn[u].settle
      BY <1>1, <2>4 DEF Idle
    <3>2. Only(turn[u], turn'[u], {"rq", "settle"})
      BY <2>1, <3>1 DEF Only
    <3> QED
      BY <1>1, <2>2, <3>1, <3>2, LeftMoves
  <2> QED
    BY <2>3, <2>4
<1> QED
  BY <1>1, <1>2, <1>4, <1>5, SamePlaces, SameWritten, MovesTurning

(* A turn that runs is over: it ends, and nobody runs in its session.        *)
LEMMA OverMoves ==
    ASSUME Basis, Turning, NEW p \in Pairs, NEW r \in Turns, ses[p][SessionOf[r]].running = r,
           RunsThen(p, SessionOf[r], None), turn'[r].out # "none", turn'[r].ph \notin Early,
           turn'[r].pair = turn[r].pair, Drivable(r)', IdKnown(turn, r) => IdKnown(turn', r)
    PROVE  Moves(r)
<1>1. turn[r].pair = p /\ turn[r].ph \notin Early /\ r # None
  BY CodexAssumption DEF Turning, RunningKnown
<1>2. ~RunsNow(r)'
  BY <1>1 DEF RunsNow, RunsThen
<1> QED
  BY <1>1, <1>2 DEF Moves, Over

LEMMA StopPlaces ==
    ASSUME Turning, NEW p \in Pairs, NEW s \in Sessions, RunsThen(p, s, None)
    PROVE  Places
BY OtherPlaces DEF RunsThen

LEMMA FinishesTurning ==
    ASSUME Basis, Basis', Turning, NEW p \in Pairs, NEW r \in Turns, NEW out,
           Finishes(p, r, out), Written
    PROVE  Turning'
<1> DEFINE s == SessionOf[r]
<1>1. /\ ses[p][s].running = r /\ OnlyOf(turn, turn', r, {"out", "settle"})
      /\ turn'[r].out # "none" /\ RunsThen(p, s, None) /\ s \in Sessions
  BY CodexAssumption DEF Finishes, Outcomes
<1>2. /\ turn'[r].ph = turn[r].ph /\ turn'[r].pair = turn[r].pair /\ turn'[r].drv = turn[r].drv
      /\ turn'[r].dq = turn[r].dq /\ turn'[r].pid = turn[r].pid /\ turn'[r].lid = turn[r].lid
  BY <1>1 DEF OnlyOf, Only
<1>3. turn[r].ph \notin Early /\ Drivable(r)
  BY <1>1, CodexAssumption DEF Turning, RunningKnown, TurnsRun
<1>4. Drivable(r)' /\ (IdKnown(turn, r) => IdKnown(turn', r))
  BY <1>2, <1>3 DEF Drivable, IdKnown
<1>5. Moves(r)
  BY <1>1, <1>2, <1>3, <1>4, OverMoves
<1>6. ASSUME NEW u \in Turns, u # r PROVE Moves(u)
  <2>1. turn'[u] = turn[u] /\ turn' \in TurnTable /\ u # None
    BY <1>1, <1>6, CodexAssumption DEF OnlyOf
  <2>2. turn[u].ph \notin Early => (RunsNow(u)' <=> RunsNow(u))
    BY <1>1, <1>6, <2>1, OthersRun DEF RunsThen
  <2> QED
    BY <2>1, <2>2, LeftMoves DEF Only, TurnTable
<1> QED
  BY <1>1, <1>5, <1>6, StopPlaces, MovesTurning

LEMMA GivesUpTurning ==
    ASSUME Basis, Basis', Turning, NEW t \in Turns, GivesUp(t) PROVE Turning'
<1>1. Finishes(turn[t].pair, t, "interrupted") /\ wire' = wire /\ child' = child
      /\ turn[t].pair \in Pairs
  BY DEF GivesUp, Finishes
<1> QED
  BY <1>1, FinishesTurning, SameWritten

LEMMA FailsTurning ==
    ASSUME Basis, Basis', Turning, NEW t \in Turns, Fails(t) PROVE Turning'
<1> DEFINE p == turn[t].pair
           s == SessionOf[t]
           r == ses[p][s].running
<1>1. /\ turn[t].rq \in {"error", "missing"}
      /\ turn' \in TurnTable /\ turn'[t].ph = "open" /\ turn'[t].rq = "none"
      /\ Only(turn[t], turn'[t], {"ph", "rq", "out", "settle"})
      /\ \A u \in Turns : u # t => Only(turn[u], turn'[u], {"out", "settle"})
      /\ \A u \in Turns : u = r => turn'[u].out # "none"
      /\ \A u \in Turns : u # r => turn'[u].out = turn[u].out /\ turn'[u].settle = turn[u].settle
      /\ RunsThen(p, s, None) /\ wire' = wire /\ child' = child
  BY DEF Fails
<1>2. turn[t].ph \notin Early
  <2>1. turn[t].ph \in Early => turn[t].rq = "none"
    BY BasisParts DEF TurnsKnown, Early
  <2> QED
    BY <1>1, <2>1
<1>3. p \in Pairs /\ s \in Sessions
  BY <1>2, RunsKnown
<1>4. ASSUME NEW u \in Turns
      PROVE  /\ turn'[u].pair = turn[u].pair /\ turn'[u].drv = turn[u].drv
             /\ turn'[u].dq = turn[u].dq /\ turn'[u].pid = turn[u].pid
             /\ turn'[u].lid = turn[u].lid /\ turn'[u].ph \in {turn[u].ph, "open"}
             /\ turn[u].ph \notin Early => turn'[u].ph \notin Early
  <2>1. CASE u = t
    BY <1>1, <2>1 DEF Only, Early
  <2>2. CASE u # t
    BY <1>1, <2>2 DEF Only
  <2> QED
    BY <2>1, <2>2
<1>5. ASSUME NEW u \in Turns PROVE Drivable(u)' /\ (IdKnown(turn, u) => IdKnown(turn', u))
  <2>1. Drivable(u)
    BY DEF Turning, TurnsRun
  <2> QED
    BY <1>4, <2>1 DEF Drivable, IdKnown
<1> HIDE DEF p, s, r
<1>6. ASSUME NEW u \in Turns PROVE Moves(u)
  <2>0. u # None
    BY CodexAssumption
  <2>1. CASE u = r
    <3>1. SessionOf[u] = s /\ turn[u].ph \notin Early /\ ses[p][s].running = u
      BY <1>3, <2>0, <2>1 DEF Turning, RunningKnown, r
    <3> QED
      BY <1>1, <1>3, <1>4, <1>5, <2>1, <3>1, OverMoves
  <2>2. CASE u # r
    <3>1. turn[u].ph \notin Early => (RunsNow(u)' <=> RunsNow(u))
      <4>1. ses[p][s].running # u /\ ses'[p][s].running # u
        BY <1>1, <2>0, <2>2 DEF RunsThen, r
      <4> QED
        BY <1>1, <1>3, <1>4, <4>1, OthersRun DEF RunsThen
    <3>2. CASE u = t
      BY <1>1, <1>2, <1>4, <1>5, <2>2, <3>1, <3>2, StepMoves
    <3>3. CASE u # t
      <4>1. Only(turn[u], turn'[u], {"out", "settle"}) /\ turn'[u].out = turn[u].out
            /\ turn'[u].settle = turn[u].settle
        BY <1>1, <2>2, <3>3
      <4>2. Only(turn[u], turn'[u], {"rq", "settle"})
        BY <4>1 DEF Only
      <4> QED
        BY <1>1, <3>1, <4>1, <4>2, LeftMoves
    <3> QED
      BY <3>2, <3>3
  <2> QED
    BY <2>1, <2>2
<1> QED
  BY <1>1, <1>3, <1>6, StopPlaces, SameWritten, MovesTurning

LEMMA HandshakenTurning ==
    ASSUME Basis, Basis', Turning, NEW p \in Pairs, Handshaken(p) PROVE Turning'
<1>1. /\ turn' \in TurnTable /\ \A u \in Turns : Only(turn[u], turn'[u], {"rq", "dq"})
      /\ wire'[p].in = wire[p].in \cup JoinedLines(p) /\ wire'[p].out = wire[p].out
      /\ \A o \in Pairs \ {p} : wire'[o] = wire[o]
      /\ ses' = ses /\ child' = child
  BY DEF Handshaken
<1>2. SameRunning
  BY <1>1 DEF SameRunning
<1>3. ASSUME NEW u \in Turns
      PROVE  /\ turn'[u].ph = turn[u].ph /\ turn'[u].pair = turn[u].pair
             /\ turn'[u].out = turn[u].out /\ turn'[u].drv = turn[u].drv
             /\ turn'[u].settle = turn[u].settle /\ turn'[u].pid = turn[u].pid
             /\ turn'[u].lid = turn[u].lid
             /\ turn'[u].dq = turn[u].dq \/ turn[u].dq # "none"
  <2>1. Only(turn[u], turn'[u], {"rq", "dq"})
    BY <1>1
  <2>2. turn'[u].dq \in {turn[u].dq, Sent(turn[u].dq)}
    BY DEF Handshaken
  <2> QED
    BY <2>1, <2>2 DEF Only, Sent
<1>4. ASSUME NEW u \in Turns PROVE Moves(u)
  <2>1. Drivable(u) /\ (turn[u].ph \in Early => Unbegun(u))
    BY DEF Turning, TurnsRun
  <2>2. Drivable(u)' /\ (IdKnown(turn, u) => IdKnown(turn', u))
    BY <1>3, <2>1 DEF Drivable, IdKnown
  <2>3. CASE turn[u].ph \in Early
    BY <1>3, <2>1, <2>2, <2>3 DEF Moves, Waiting, Unbegun
  <2>4. CASE turn[u].ph \notin Early
    BY <1>2, <1>3, <2>2, <2>4, RunsSame, StepMoves
  <2> QED
    BY <2>3, <2>4
<1>5. Written
  <2>1. ASSUME NEW m \in JoinedLines(p) PROVE Speaks(turn', m, p)
    <3>1. CASE \E u \in Turns : /\ turn[u].pair = p /\ turn[u].rq = "joined"
                                /\ m = IF turn[u].ph \in {"load", "reload"} THEN LoadLine(u) ELSE StartLine(u)
      <4> PICK u \in Turns : /\ turn[u].pair = p /\ turn[u].rq = "joined"
                             /\ m = IF turn[u].ph \in {"load", "reload"} THEN LoadLine(u) ELSE StartLine(u)
        BY <3>1
      <4>1. m.for = u /\ m.what # "interrupt"
        BY DEF LoadLine, StartLine, Line
      <4>2. turn[u].ph \notin Early
        BY BasisParts DEF TurnsKnown, Early
      <4> QED
        BY <1>3, <4>1, <4>2 DEF Speaks, Begun
    <3>2. CASE \E u \in Turns : /\ turn[u].pair = p /\ turn[u].dq = "joined"
                                /\ m = Line(u, "interrupt", IF turn[u].lid # None THEN turn[u].lid ELSE u)
      <4> PICK u \in Turns : /\ turn[u].pair = p /\ turn[u].dq = "joined"
                             /\ m = Line(u, "interrupt", IF turn[u].lid # None THEN turn[u].lid ELSE u)
        BY <3>2
      <4>1. m.for = u
        BY DEF Line
      <4>2. IdKnown(turn, u) /\ turn[u].ph \notin Early
        BY DEF Turning, TurnsRun, Drivable, Unbegun
      <4>3. IdKnown(turn', u)
        BY <1>3, <4>2 DEF IdKnown
      <4> QED
        BY <1>3, <4>1, <4>2, <4>3 DEF Speaks, Begun
    <3> QED
      BY <3>1, <3>2 DEF JoinedLines
  <2> SUFFICES ASSUME NEW o \in Pairs
               PROVE  /\ \A n \in wire'[o].in : n \in wire[o].in \/ Speaks(turn', n, o)
                      /\ wire'[o].out = wire[o].out
    BY <1>1 DEF Written
  <2>2. CASE o = p
    BY <1>1, <2>1, <2>2
  <2>3. CASE o # p
    BY <1>1, <2>3
  <2> QED
    BY <2>2, <2>3
<1> QED
  BY <1>2, <1>4, <1>5, SamePlaces, MovesTurning

LEMMA RunsOutTurning ==
    ASSUME Basis, Basis', Turning, NEW t \in Turns, RunsOut(t) PROVE Turning'
<1> DEFINE p == turn[t].pair
<1>1. /\ p \in Pairs
      /\ \/ turn[t].rq = "sent" /\ OnlyOf(turn, turn', t, {"rq"})
         \/ turn[t].dq = "sent" /\ OnlyOf(turn, turn', t, {"dq"})
      /\ \A m \in wire'[p].in : \E n \in wire[p].in : m.for = n.for /\ m.what = n.what
      /\ \A i \in DOMAIN wire'[p].out : \E j \in DOMAIN wire[p].out : wire'[p].out[i] = wire[p].out[j]
      /\ \A o \in Pairs \ {p} : wire'[o] = wire[o]
      /\ ses' = ses /\ child' = child
  BY DEF RunsOut
<1>2. SameRunning
  BY <1>1 DEF SameRunning
<1>3. OnlyOf(turn, turn', t, {"rq", "dq"})
  BY <1>1, OnlyMore
<1>4. turn[t].ph \notin Early
  <2>1. turn[t].ph \in Early => turn[t].rq = "none"
    BY BasisParts DEF TurnsKnown, Early
  <2>2. turn[t].ph \in Early => turn[t].dq = "none"
    BY DEF Turning, TurnsRun, Unbegun
  <2> QED
    BY <1>1, <2>1, <2>2
<1>5. /\ turn'[t].ph = turn[t].ph /\ turn'[t].pair = turn[t].pair /\ turn'[t].out = turn[t].out
      /\ turn'[t].drv = turn[t].drv /\ turn'[t].pid = turn[t].pid /\ turn'[t].lid = turn[t].lid
      /\ turn'[t].dq = turn[t].dq \/ turn[t].dq # "none"
  BY <1>1 DEF OnlyOf, Only
<1>6. Drivable(t)' /\ (IdKnown(turn, t) => IdKnown(turn', t))
  <2>1. Drivable(t)
    BY DEF Turning, TurnsRun
  <2> QED
    BY <1>5, <2>1 DEF Drivable, IdKnown
<1> HIDE DEF p
<1>7. Written
  <2>1. \A u \in Turns : turn'[u].ph = turn[u].ph /\ turn'[u].pair = turn[u].pair
                         /\ (IdKnown(turn, u) => IdKnown(turn', u))
    BY <1>3, <1>5, <1>6 DEF OnlyOf, IdKnown
  <2>2. ASSUME NEW m \in wire'[p].in PROVE Speaks(turn', m, p)
    <3>1. PICK n \in wire[p].in : m.for = n.for /\ m.what = n.what
      BY <1>1
    <3>2. Speaks(turn, n, p)
      BY <1>1 DEF Turning, Heard
    <3> QED
      BY <2>1, <3>1, <3>2 DEF Speaks, Begun
  <2> SUFFICES ASSUME NEW o \in Pairs
               PROVE  /\ \A m \in wire'[o].in : m \in wire[o].in \/ Speaks(turn', m, o)
                      /\ \A i \in DOMAIN wire'[o].out : \E j \in DOMAIN wire[o].out : wire'[o].out[i] = wire[o].out[j]
    BY <1>1 DEF Written
  <2>3. CASE o = p
    BY <1>1, <2>2, <2>3
  <2>4. CASE o # p
    BY <1>1, <2>4
  <2> QED
    BY <2>3, <2>4
<1> QED
  BY <1>2, <1>3, <1>4, <1>5, <1>6, <1>7, OneTurning

LEMMA WorksTurning ==
    ASSUME Basis, Basis', Turning, NEW p \in Pairs, Works(p) PROVE Turning'
<1>1. UNCHANGED <<turn, ses>> /\ OtherWires(p) /\ turn \in TurnTable
  BY BasisParts DEF Works
<1>2. SameRunning
  BY <1>1 DEF SameRunning
<1>3. ASSUME NEW u \in Turns PROVE Moves(u)
  <2>1. turn[u].ph \notin Early => (RunsNow(u)' <=> RunsNow(u))
    BY <1>1, <1>2, RunsSame
  <2> QED
    BY <1>1, <2>1, LeftMoves DEF Only, TurnTable
<1>4. ASSUME NEW m \in wire[p].in
      PROVE  Begun(turn, m.for, p) /\ (m.what = "interrupt" => IdKnown(turn, m.for))
  BY DEF Turning, Heard, Speaks
<1>5. ASSUME NEW s \in Sessions, child[p][s].active # None
      PROVE  Begun(turn, child[p][s].active, p) /\ SessionOf[child[p][s].active] = s
  BY <1>5 DEF Turning, Heard
<1>6. ASSUME NEW i, NEW x, NEW k, k # "interrupt", IsEvent(wire'[p].out[i], k, x), Begun(turn, x, p)
      PROVE  Speaks(turn, wire'[p].out[i], p)
  BY <1>6 DEF IsEvent, Speaks
<1>7. ASSUME NEW i, NEW m \in wire[p].in, NEW a, IsReply(wire'[p].out[i], m, a)
      PROVE  Speaks(turn, wire'[p].out[i], p)
  BY <1>4, <1>7 DEF IsReply, Speaks
<1>8. ASSUME /\ wire'[p].in \subseteq wire[p].in
             /\ \A i \in DOMAIN wire'[p].out :
                  i \in New(p) => Speaks(turn, wire'[p].out[i], p)
             /\ Grown(p)
             /\ \A s \in Sessions : LET x == child'[p][s].active IN
                  x \in {None, child[p][s].active} \/ (Begun(turn, x, p) /\ SessionOf[x] = s)
      PROVE  Written
  <2> SUFFICES ASSUME NEW o \in Pairs
               PROVE  /\ \A n \in wire'[o].in : n \in wire[o].in
                      /\ \A i \in DOMAIN wire'[o].out :
                           (\E j \in DOMAIN wire[o].out : wire'[o].out[i] = wire[o].out[j])
                             \/ Speaks(turn', wire'[o].out[i], o)
                      /\ \A s \in Sessions : LET x == child'[o][s].active IN
                           x \in {None, child[o][s].active} \/ (Begun(turn', x, o) /\ SessionOf[x] = s)
    BY DEF Written
  <2>1. CASE o # p
    BY <1>1, <2>1 DEF OtherWires
  <2>2. CASE o = p
    BY <1>1, <1>8, <2>2 DEF New, Grown
  <2> QED
    BY <2>1, <2>2
<1>9. Written
  <2>1. ASSUME NEW m \in wire[p].in, NEW a, Answers1(p, m, a) PROVE Written
    BY <1>7, <1>8, <2>1 DEF Answers1
  <2>2. ASSUME NEW m \in wire[p].in, NEW k, k # "interrupt", NEW x, TellsToo(p, m, k, x),
               Begun(turn, x, p),
               \A s \in Sessions : LET y == child'[p][s].active IN
                  y \in {None, child[p][s].active} \/ (Begun(turn, y, p) /\ SessionOf[y] = s)
        PROVE  Written
    <3>1. \A i \in New(p) : Speaks(turn, wire'[p].out[i], p)
      BY <1>6, <1>7, <2>2 DEF TellsToo, Tells
    <3> QED
      BY <1>8, <2>2, <3>1 DEF TellsToo, Tells
  <2>3. ASSUME NEW m \in wire[p].in, Starts1(p, m) PROVE Written
    <3>1. Begun(turn, m.for, p)
      BY <1>4
    <3>2. \A s \in Sessions : LET y == child'[p][s].active IN
            y \in {None, child[p][s].active} \/ (Begun(turn, y, p) /\ SessionOf[y] = s)
      BY <2>3, <3>1 DEF Starts1, Becomes
    <3> QED
      BY <2>2, <2>3, <3>1, <3>2 DEF Starts1
  <2>4. ASSUME NEW m \in wire[p].in, Stops1(p, m) PROVE Written
    <3>0. m.for \in Turns /\ m.on \in Turns
      BY WireParts DEF Questions
    <3>1. Begun(turn, m.on, p)
      BY <1>5, <2>4, <3>0, CodexAssumption DEF Stops1, Becomes
    <3>2. \A s \in Sessions : child'[p][s].active \in {None, child[p][s].active}
      BY <2>4 DEF Stops1, Becomes
    <3> QED
      BY <2>2, <2>4, <3>1, <3>2 DEF Stops1
  <2>5. ASSUME NEW s \in Sessions, NEW x \in Turns, NEW k \in Ends, EndsSo(p, s, x, k) PROVE Written
    <3>1. Begun(turn, x, p)
      BY <1>5, <2>5, CodexAssumption DEF EndsSo, Becomes
    <3>2. \A z \in Sessions : child'[p][z].active \in {None, child[p][z].active}
      BY <2>5 DEF EndsSo, Becomes
    <3>3. \A i \in New(p) : Speaks(turn, wire'[p].out[i], p)
      BY <1>6, <2>5, <3>1 DEF EndsSo, Tells, Ends
    <3> QED
      BY <1>8, <2>5, <3>2, <3>3 DEF EndsSo, Tells
  <2> QED
    BY <2>1, <2>3, <2>4, <2>5 DEF Works
<1> QED
  BY <1>2, <1>3, <1>9, SamePlaces, MovesTurning

LEMMA ReadsTurning ==
    ASSUME Basis, Basis', Turning, NEW p \in Pairs, Reads(p) PROVE Turning'
<1> DEFINE l == Head(wire[p].out)
<1>1. /\ wire[p].out # <<>> /\ wire'[p].in = wire[p].in /\ wire'[p].out = Tail(wire[p].out)
      /\ OtherWires(p) /\ child' = child
      /\ Answered1(l) \/ Unheard(p, l) \/ Named(p, l) \/ EndRead(p, l)
  BY DEF Reads
<1>2. /\ l = wire[p].out[1] /\ 1 \in DOMAIN wire[p].out /\ l \in Answers
      /\ \A i \in DOMAIN Tail(wire[p].out) :
           Tail(wire[p].out)[i] = wire[p].out[i + 1] /\ i + 1 \in DOMAIN wire[p].out
  BY <1>1, HeadLine
<1>3. PICK x \in Turns : x = l.for /\ Speaks(turn, l, p)
  BY <1>2 DEF Turning, Heard, Speaks, Begun
<1>10. PICK r : r = ses[p][SessionOf[x]].running
  OBVIOUS
<1>4. turn[x].ph \notin Early /\ (l.what = "interrupt" => IdKnown(turn, x))
  BY <1>3 DEF Speaks, Begun
<1>5. Written
  <2> SUFFICES ASSUME NEW o \in Pairs
               PROVE  /\ wire'[o].in = wire[o].in
                      /\ \A i \in DOMAIN wire'[o].out :
                           \E j \in DOMAIN wire[o].out : wire'[o].out[i] = wire[o].out[j]
    BY <1>1 DEF Written
  <2>1. CASE o = p
    BY <1>1, <1>2, <2>1
  <2>2. CASE o # p
    BY <1>1, <2>2 DEF OtherWires
  <2> QED
    BY <2>1, <2>2
<1> HIDE DEF l
<1>6. CASE Answered1(l)
  <2>0. SameRunning
    BY <1>6 DEF Answered1, SameRunning
  <2>1. OnlyOf(turn, turn', x, {"dq", "rq"}) /\ (turn'[x].dq = turn[x].dq \/ IdKnown(turn, x))
    <3>1. CASE l.what = "interrupt"
      <4>1. OnlyOf(turn, turn', x, {"dq"})
        BY <1>3, <1>6, <3>1 DEF Answered1
      <4> QED
        BY <1>4, <3>1, <4>1, OnlyMore
    <3>2. CASE l.what # "interrupt"
      <4>1. OnlyOf(turn, turn', x, {"rq"})
        BY <1>3, <1>6, <3>2 DEF Answered1
      <4>2. turn'[x].dq = turn[x].dq
        BY <4>1 DEF OnlyOf, Only
      <4> QED
        BY <4>1, <4>2, OnlyMore
    <3> QED
      BY <3>1, <3>2
  <2>2. /\ turn'[x].ph = turn[x].ph /\ turn'[x].pair = turn[x].pair /\ turn'[x].out = turn[x].out
        /\ turn'[x].drv = turn[x].drv /\ turn'[x].pid = turn[x].pid /\ turn'[x].lid = turn[x].lid
    BY <2>1 DEF OnlyOf, Only
  <2>3. Drivable(x)
    BY <1>3 DEF Turning, TurnsRun
  <2>4. Drivable(x)' /\ (IdKnown(turn, x) => IdKnown(turn', x))
    BY <2>1, <2>2, <2>3 DEF Drivable, IdKnown
  <2> QED
    BY <1>3, <1>4, <1>5, <2>0, <2>1, <2>2, <2>4, OneTurning
<1>7. CASE Unheard(p, l)
  <2>1. turn' = turn /\ ses' = ses /\ turn \in TurnTable
    BY <1>7, BasisParts DEF Unheard
  <2>2. SameRunning
    BY <2>1 DEF SameRunning
  <2>3. ASSUME NEW u \in Turns PROVE Moves(u)
    <3>1. turn[u].ph \notin Early => (RunsNow(u)' <=> RunsNow(u))
      BY <2>1, <2>2, RunsSame
    <3> QED
      BY <2>1, <3>1, LeftMoves DEF Only, TurnTable
  <2> QED
    BY <1>5, <2>2, <2>3, SamePlaces, MovesTurning
<1>8. CASE Named(p, l)
  <2>1. /\ r \in Turns /\ ses' = ses /\ OnlyOf(turn, turn', r, {"lid", "drv", "settle"})
        /\ turn'[r].lid = x /\ Prodded(turn[r], turn'[r])
    BY <1>3, <1>8, <1>10 DEF Named
  <2>2. SameRunning
    BY <2>1 DEF SameRunning
  <2>3. r # None /\ SessionOf[x] \in Sessions /\ x # None
    BY <1>3, <2>1, CodexAssumption
  <2>4. turn[r].ph \notin Early
    BY <1>10, <2>3 DEF Turning, RunningKnown
  <2>5. /\ turn'[r].ph = turn[r].ph /\ turn'[r].pair = turn[r].pair /\ turn'[r].out = turn[r].out
        /\ turn'[r].dq = turn[r].dq /\ turn'[r].pid = turn[r].pid
    BY <2>1 DEF OnlyOf, Only
  <2>6. IdKnown(turn', r)
    BY <2>1, <2>3 DEF IdKnown
  <2>7. Drivable(r)'
    <3>1. Drivable(r)
      BY <2>1 DEF Turning, TurnsRun
    <3> QED
      BY <2>5, <2>6, <3>1 DEF Drivable
  <2> QED
    BY <1>5, <2>1, <2>2, <2>4, <2>5, <2>6, <2>7, OneTurning
<1>9. CASE EndRead(p, l)
  <2>1. PICK out \in Outcomes : Finishes(p, r, out)
    BY <1>3, <1>9, <1>10 DEF EndRead
  <2>2. r \in Turns
    BY <2>1 DEF Finishes
  <2> QED
    BY <1>5, <2>1, <2>2, FinishesTurning
<1> QED
  BY <1>1, <1>6, <1>7, <1>8, <1>9

LEMMA TurningInit == ASSUME CodexInit PROVE Turning
<1>1. ASSUME NEW p \in Pairs, NEW s \in Sessions
      PROVE  /\ ses[p][s] = NewSession /\ wire[p] = NoLines /\ child[p][s].active = None
  BY DEF CodexInit, NewChild
<1>2. ASSUME NEW t \in Turns
      PROVE  /\ turn[t].ph = "new" /\ turn[t].out = "none" /\ turn[t].drv = "none"
             /\ turn[t].dq = "none" /\ ~turn[t].settle /\ turn[t].lid = None /\ ~turn[t].pid
  BY DEF CodexInit
<1>3. RunningKnown
  BY <1>1 DEF RunningKnown, NewSession
<1>4. TurnsRun
  <2>1. ASSUME NEW t \in Turns PROVE Unbegun(t) /\ turn[t].ph \in Early
    BY <1>2 DEF Unbegun, Early
  <2>2. ASSUME NEW t \in Turns PROVE Drivable(t)
    BY <1>2 DEF Drivable
  <2> QED
    BY <2>1, <2>2 DEF TurnsRun
<1>5. Heard
  <2>1. DOMAIN <<>> = {}
    OBVIOUS
  <2>2. \A p \in Pairs : wire[p].in = {} /\ wire[p].out = <<>>
    BY DEF CodexInit, NoLines
  <2>3. \A p \in Pairs : DOMAIN wire[p].out = {}
    BY <2>1, <2>2
  <2> QED
    BY <1>1, <2>2, <2>3 DEF Heard
<1> QED
  BY <1>3, <1>4, <1>5 DEF Turning

LEMMA TurningSame == ASSUME Basis, Basis', Turning, UNCHANGED vars PROVE Turning'
<1>1. EarlyMoves
  BY SameEarly DEF vars, SameRunning, SameSlow
<1> QED
  BY <1>1, EarlyTurning

(* What a step of the runtime, of the managers and of the child may be.      *)
LEMMA ReactionIs ==
    ASSUME Basis, Turning, Reactions
    PROVE  \/ EarlyMoves \/ \E p \in Pairs : Lost(p)
           \/ \E t \in Turns : Asks1(t) \/ Opens(t) \/ Fails(t) \/ Drives1(t)
           \/ \E p \in Pairs, s \in Sessions :
                Pops(p, s) \/ \E h \in Turns : Begins(p, s, h) \/ Stops(p, s, h)
<1>1. CASE \E t \in Turns : EnterManager(t) \/ CompleteRun(t) \/ AbortAfterSetup(t)
  BY <1>1, EnterEarly, CompleteLost, AbortEarly
<1>2. CASE \E t \in Turns : BeginContinues(t) \/ DriverContinues(t)
  BY <1>2, BeginSends, ContinuesDrives
<1>3. CASE \E p \in Pairs, s \in Sessions : HeadStarts(p, s)
  BY <1>3, HeadStartsBegins
<1> QED
  BY <1>1, <1>2, <1>3 DEF Reactions

LEMMA TimerIs ==
    ASSUME Basis, Turning, Timers
    PROVE  \/ \E p \in Pairs : Lost(p)
           \/ \E t \in Turns : Drives1(t) \/ GivesUp(t) \/ RunsOut(t)
           \/ \E p \in Pairs, s \in Sessions : Pops(p, s) \/ \E h \in Turns : Begins(p, s, h)
<1>1. CASE \E t \in Turns : DriverAsks(t) \/ GiveUp(t)
  BY <1>1, AsksDrives, GiveUpGives
<1>2. CASE \E t \in Turns, f \in {"rq", "dq"} : TimeOut(t, f)
  BY <1>2, TimeOutRuns
<1>3. CASE \E p \in Pairs, s \in Sessions : HeadResumes(p, s)
  BY <1>3, HeadResumesBegins
<1>4. CASE \E p \in Pairs : Reap(p)
  BY <1>4, LossLost
<1> QED
  BY <1>1, <1>2, <1>3, <1>4 DEF Timers

Slows == /\ UNCHANGED <<turn, ses, stale, wire, child>>
         /\ \A p \in Pairs : conn[p].slow => conn'[p].slow

LEMMA SlowDownSlows == ASSUME Basis, NEW p \in Pairs, SlowDown(p) PROVE Slows
<1>1. conn \in ConnTable /\ conn' = [conn EXCEPT ![p].slow = TRUE]
      /\ UNCHANGED <<turn, ses, stale, wire, child>>
  BY BasisParts DEF SlowDown
<1> QED
  BY <1>1 DEF Slows, ConnTable

LEMMA AppServerIs ==
    ASSUME Basis, Turning, AppServer
    PROVE  Slows \/ \E p \in Pairs : Lost(p) \/ Handshaken(p) \/ Reads(p) \/ Works(p)
<1> PICK p \in Pairs :
        \/ Handshake(p) \/ ChildLost(p) \/ SlowDown(p) \/ Deliver(p)
        \/ \E m \in wire[p].in : Serve(p, m)
        \/ \E s \in Sessions, k \in Ends : ServeEnd(p, s, k)
  BY DEF AppServer
<1>1. CASE Handshake(p) \/ ChildLost(p) \/ SlowDown(p) \/ Deliver(p)
  BY <1>1, HandshakeDone, LossLost, SlowDownSlows, DeliverReads
<1>2. CASE \E m \in wire[p].in : Serve(p, m)
  BY <1>2, ServeWorks
<1>3. CASE \E s \in Sessions, k \in Ends : ServeEnd(p, s, k)
  BY <1>3, ServeEndWorks
<1> QED
  BY <1>1, <1>2, <1>3

LEMMA RuntimeIs ==
    ASSUME Basis, Runtime PROVE EarlyMoves \/ \E p \in Pairs : Lost(p)
<1>1. CASE \E t \in Turns : StartRun(t) \/ Kill(t)
  BY <1>1, StartEarly, KillEarly
<1>2. CASE \E p \in Pairs : CreatePair(p)
  BY <1>2, CreateEarly
<1>3. CASE RuntimeChanged \/ AccountChanged
  BY <1>3, RetiresLost
<1> QED
  BY <1>1, <1>2, <1>3 DEF Runtime

LEMMA TurningNext == ASSUME Basis, Basis', Turning, [CodexNext]_vars PROVE Turning'
<1>1. CASE Reactions
  BY <1>1, ReactionIs, EarlyTurning, LostTurning, AsksTurning, OpensTurning, FailsTurning,
     DrivesTurning, PopsTurning, BeginsTurning, StopsTurning
<1>2. CASE Timers
  BY <1>2, TimerIs, LostTurning, DrivesTurning, GivesUpTurning, RunsOutTurning,
     PopsTurning, BeginsTurning
<1>3. CASE AppServer
  <2>1. CASE Slows
    <3>1. turn' = turn /\ ses' = ses /\ UNCHANGED <<wire, child>> /\ turn \in TurnTable
      BY <2>1, BasisParts DEF Slows
    <3>2. SameRunning
      BY <3>1 DEF SameRunning
    <3>3. ASSUME NEW u \in Turns PROVE Moves(u)
      <4>1. turn[u].ph \notin Early => (RunsNow(u)' <=> RunsNow(u))
        BY <3>1, <3>2, RunsSame
      <4> QED
        BY <3>1, <4>1, LeftMoves DEF Only, TurnTable
    <3> QED
      BY <3>1, <3>2, <3>3, SamePlaces, SameWritten, MovesTurning
  <2> QED
    BY <1>3, <2>1, AppServerIs, LostTurning, HandshakenTurning, ReadsTurning, WorksTurning
<1>4. CASE Runtime
  BY <1>4, RuntimeIs, EarlyTurning, LostTurning
<1>5. CASE UNCHANGED vars
  BY <1>5, TurningSame
<1> QED
  BY <1>1, <1>2, <1>3, <1>4, <1>5 DEF CodexNext

(* A turn that has begun and is not over is the one that runs in its session *)
(* of the manager it was handed to, so that a replaced turn, a stale end or  *)
(* an interrupt never leaves two of them (the running slot of SessionState). *)
THEOREM TurningHolds == CodexSpec => []Turning
<1>1. CodexInit => Basis /\ Wires /\ Turning
  BY BasisInit, WiresInit, TurningInit
<1>2. Basis /\ Wires /\ Turning /\ [CodexNext]_vars => (Basis /\ Wires /\ Turning)'
  BY BasisNext, WiresNext, TurningNext
<1> QED
  BY <1>1, <1>2, PTL DEF CodexSpec
-----------------------------------------------------------------------------
(* Which runs are still to begin. One pair at a time is set up, the runs     *)
(* that wait came after those that are queued, and the runtime knows the     *)
(* last run of a session as long as one of it waits or is queued.            *)
SetupKnown ==
    /\ rt.cur \in {0, rt.setup} /\ rt.setup <= rt.last /\ rt.setup \notin rt.failed
    /\ \A p \in Resolved(rt) : p <= rt.last
    /\ \A p \in Pairs : p <= rt.last /\ p \notin Resolved(rt) => p = rt.setup
    /\ rt.setup \in {0} \cup rt.made \/ rt.waits # <<>>
WaitsAlike ==
    \A i, j \in DOMAIN rt.waits :
      /\ turn[rt.waits[i]].pair = turn[rt.waits[j]].pair
      /\ \/ turn[rt.waits[i]].pair = rt.setup
         \/ turn[rt.waits[i]].pair \in rt.failed /\ rt.setup = 0
InWaits(x) == \E k \in DOMAIN rt.waits : rt.waits[k] = x
Behind(q, i, x) == \E j \in DOMAIN q : i <= j /\ q[j] = x
LastRuns ==
    /\ \A s \in Sessions : rt.runs[s] # None => SessionOf[rt.runs[s]] = s
    /\ \A i \in DOMAIN rt.waits : Behind(rt.waits, i, rt.runs[SessionOf[rt.waits[i]]])
    /\ rt.cur # 0 => \A s \in Sessions : LET q == ses[rt.cur][s].queue IN
         \A i \in DOMAIN q : q[i] # None =>
           rt.runs[s] # None /\ (InWaits(rt.runs[s]) \/ Behind(q, i, rt.runs[s]))
(* Nobody is about to enter the manager, and no queue can go on.             *)
Steady ==
    /\ \A i \in DOMAIN rt.waits : turn[rt.waits[i]].pair \notin Resolved(rt)
    /\ \A p \in Pairs, s \in Sessions : ses[p][s].block = None => ses[p][s].queue = <<>>
Setups == SetupKnown /\ WaitsAlike /\ LastRuns
RunOrder  == Setups /\ (rt.chunk # 0 => Steady)

LEMMA QuietSteady ==
    ASSUME Basis, WaitsKnown, Quiet
    PROVE  Steady /\ rt.chunk = 0
<1>1. \A i \in DOMAIN rt.waits : turn[rt.waits[i]].pair \notin Resolved(rt)
  BY NoneWaits, RunsFacts DEF WaitsKnown
<1> QED
  BY <1>1, Zenon DEF Steady, Quiet, HeadDue

(* A step that leaves the runtime, the queues and the pairs of turns alone.  *)
RtLike == /\ rt'.cur = rt.cur /\ rt'.setup = rt.setup /\ rt'.last = rt.last
          /\ rt'.made = rt.made /\ rt'.failed = rt.failed
          /\ rt'.runs = rt.runs /\ rt'.waits = rt.waits
PairsStay  == \A u \in Turns : turn'[u].pair = turn[u].pair
QueuesSame == \A p \in Pairs, s \in Sessions : ses'[p][s].queue = ses[p][s].queue

LEMMA CurrentPair ==
    ASSUME Basis PROVE rt.cur \in 0..MaxPairs /\ (rt.cur # 0 => rt.cur \in Pairs)
BY BasisParts, RtFields, CodexAssumption DEF Pairs

LEMMA RestsSetups ==
    ASSUME Basis, Setups, RtLike, PairsStay, QueuesSame
    PROVE  Setups'
<1>0. /\ \A i \in DOMAIN rt.waits : rt.waits[i] \in Turns
      /\ rt.cur # 0 => rt.cur \in Pairs
  BY RunsFacts, CurrentPair
<1>1. SetupKnown'
  BY DEF Setups, SetupKnown, RtLike, Resolved
<1>2. WaitsAlike'
  BY <1>0 DEF Setups, WaitsAlike, RtLike, PairsStay
<1>3. \A s \in Sessions : rt'.runs[s] # None => SessionOf[rt'.runs[s]] = s
  BY DEF Setups, LastRuns, RtLike
<1>4. \A i \in DOMAIN rt'.waits : Behind(rt'.waits, i, rt'.runs[SessionOf[rt'.waits[i]]])
  BY DEF Setups, LastRuns, RtLike
<1>5. ASSUME rt'.cur # 0, NEW s \in Sessions, NEW i \in DOMAIN ses'[rt'.cur][s].queue,
             ses'[rt'.cur][s].queue[i] # None
      PROVE  /\ rt'.runs[s] # None
             /\ (\E k \in DOMAIN rt'.waits : rt'.waits[k] = rt'.runs[s])
                  \/ Behind(ses'[rt'.cur][s].queue, i, rt'.runs[s])
  <2>1. rt'.cur = rt.cur /\ rt.cur \in Pairs /\ ses'[rt.cur][s].queue = ses[rt.cur][s].queue
        /\ rt'.runs = rt.runs /\ rt'.waits = rt.waits
    BY <1>0, <1>5 DEF RtLike, QueuesSame
  <2> QED
    BY <1>5, <2>1 DEF Setups, LastRuns, InWaits
<1>6. LastRuns'
  BY <1>3, <1>4, <1>5 DEF LastRuns, InWaits, Behind
<1> QED
  BY <1>1, <1>2, <1>6 DEF Setups

(* A run starts: it waits behind the others for the pair that is set up, or  *)
(* for a new one.                                                            *)
LEMMA WaitsPairs ==
    ASSUME Basis, WaitsKnown, NEW i \in DOMAIN rt.waits
    PROVE  /\ rt.waits[i] \in Turns /\ turn[rt.waits[i]].ph = "setup"
           /\ turn[rt.waits[i]].pair \in Pairs /\ turn[rt.waits[i]].pair # 0
BY RunsFacts DEF WaitsKnown, TurnsKnown

LEMMA SteadyWaits ==
    ASSUME Basis, WaitsKnown, Setups, Steady
    PROVE  /\ \A i \in DOMAIN rt.waits : turn[rt.waits[i]].pair = rt.setup
           /\ rt.setup = 0 => DOMAIN rt.waits = {}
<1>1. ASSUME NEW i \in DOMAIN rt.waits PROVE turn[rt.waits[i]].pair = rt.setup
  BY DEF Setups, WaitsAlike, Steady, Resolved
<1>2. ASSUME NEW i \in DOMAIN rt.waits, rt.setup = 0 PROVE FALSE
  BY <1>1, <1>2, WaitsPairs
<1> QED
  BY <1>1, <1>2

LEMMA StartRunSetups ==
    ASSUME Basis, WaitsKnown, Setups, NEW t \in Turns, StartRun(t)
    PROVE  Setups'
<1> DEFINE p == IF rt.setup # 0 THEN rt.setup ELSE rt.last + 1
           W == Append(rt.waits, t)
           L == IF p > rt.last THEN p ELSE rt.last
           s == SessionOf[t]
<1>0. /\ turn \in TurnTable /\ rt \in RtStates /\ rt.made \subseteq Pairs
      /\ rt.failed \subseteq Pairs /\ s \in Sessions /\ t # None
      /\ rt.last \in 0..MaxPairs /\ rt.setup \in 0..MaxPairs /\ MaxPairs \in Nat
      /\ rt.runs \in [Sessions -> Turns \cup {None}] /\ Pairs = 1..MaxPairs
  BY RunsFacts, RtFields, CodexAssumption DEF Pairs
<1>1. Steady
  BY QuietSteady DEF StartRun
<1>2. /\ rt' = [rt EXCEPT !.setup = p, !.last = L, !.runs[s] = t, !.waits = W]
      /\ turn' = [turn EXCEPT ![t].ph = "setup", ![t].pair = p] /\ ses' = ses
      /\ rt.setup # 0 \/ rt.last < MaxPairs
  BY DEF StartRun, KeepPair
<1>3. /\ p \in Pairs /\ p \notin rt.failed /\ L \in 0..MaxPairs /\ p <= L /\ rt.last <= L
      /\ \A o \in Pairs : o <= L => o = p \/ o <= rt.last
      /\ rt.setup # 0 => p = rt.setup /\ L = rt.last
      /\ rt.setup = 0 => rt.cur = 0 /\ p = rt.last + 1
  <2>1. rt.setup <= rt.last /\ rt.setup \notin rt.failed /\ rt.cur \in {0, rt.setup}
        /\ \A o \in Resolved(rt) : o <= rt.last
    BY DEF Setups, SetupKnown
  <2>2. CASE rt.setup # 0
    BY <1>0, <1>2, <2>1, <2>2
  <2>3. CASE rt.setup = 0
    BY <1>0, <1>2, <2>1, <2>3 DEF Resolved
  <2> QED
    BY <2>2, <2>3
<1>4. /\ rt'.setup = p /\ rt'.last = L /\ rt'.waits = W /\ rt'.cur = rt.cur
      /\ rt'.made = rt.made /\ rt'.failed = rt.failed
      /\ rt'.runs[s] = t /\ \A z \in Sessions \ {s} : rt'.runs[z] = rt.runs[z]
  <2> HIDE DEF p, L, W, s
  <2> QED
    BY <1>0, <1>2 DEF RtStates
<1>5. turn'[t].pair = p /\ \A u \in Turns \ {t} : turn'[u] = turn[u]
  <2> HIDE DEF p
  <2> QED
    BY <1>0, <1>2 DEF TurnTable, TurnState
<1>6. PICK q \in Seq(Turns) : q = rt.waits
  BY RunsFacts
<1>7. /\ DOMAIN W = 1..(Len(q) + 1) /\ W[Len(q) + 1] = t /\ DOMAIN q = 1..Len(q)
      /\ Len(q) \in Nat /\ \A i \in 1..Len(q) : W[i] = q[i] /\ q[i] \in Turns
  BY <1>6
<1> HIDE DEF W, p, L, s
<1>8. \A i \in 1..Len(q) : turn'[q[i]].pair = p
  <2> SUFFICES ASSUME NEW i \in 1..Len(q) PROVE turn'[q[i]].pair = p
    OBVIOUS
  <2>1. i \in DOMAIN rt.waits /\ q[i] = rt.waits[i]
    BY <1>6, <1>7
  <2>2. turn[q[i]].pair = rt.setup /\ rt.setup # 0 /\ q[i] \in Turns /\ turn[q[i]].ph = "setup"
    BY <1>1, <2>1, SteadyWaits, WaitsPairs
  <2> QED
    BY <1>3, <1>5, <2>2
<1>9. SetupKnown'
  <2>1. W # <<>>
    BY <1>7
  <2>2. rt'.cur \in {0, rt'.setup}
    BY <1>3, <1>4 DEF Setups, SetupKnown
  <2>3. \A o \in Resolved(rt) : o <= L
    BY <1>0, <1>3 DEF Setups, SetupKnown, Resolved
  <2>4. \A o \in Pairs : o <= L /\ o \notin Resolved(rt) => o = p
    <3> SUFFICES ASSUME NEW o \in Pairs, o <= L, o \notin Resolved(rt), o # p PROVE FALSE
      OBVIOUS
    <3>1. o <= rt.last
      BY <1>3
    <3>2. o = rt.setup /\ o # 0
      BY <1>0, <3>1 DEF Setups, SetupKnown
    <3> QED
      BY <1>3, <3>2
  <2> QED
    BY <1>3, <1>4, <2>1, <2>2, <2>3, <2>4 DEF SetupKnown, Resolved
<1>10. WaitsAlike'
  <2>1. \A i \in DOMAIN W : turn'[W[i]].pair = p
    BY <1>5, <1>7, <1>8
  <2> QED
    BY <1>4, <2>1 DEF WaitsAlike
<1>11. \A i \in DOMAIN W : Behind(W, i, rt'.runs[SessionOf[W[i]]])
  <2> SUFFICES ASSUME NEW i \in DOMAIN W PROVE Behind(W, i, rt'.runs[SessionOf[W[i]]])
    OBVIOUS
  <2>1. CASE i = Len(q) + 1 \/ SessionOf[W[i]] = s
    <3>1. rt'.runs[SessionOf[W[i]]] = t /\ Len(q) + 1 \in DOMAIN W /\ i <= Len(q) + 1
      BY <1>4, <1>7, <2>1 DEF s
    <3> QED
      BY <1>7, <3>1 DEF Behind
  <2>2. CASE i # Len(q) + 1 /\ SessionOf[W[i]] # s
    <3>1. i \in DOMAIN q /\ W[i] = q[i] /\ SessionOf[q[i]] \in Sessions
      BY <1>7, <2>2, CodexAssumption
    <3>2. PICK j \in DOMAIN q : i <= j /\ q[j] = rt.runs[SessionOf[q[i]]]
      BY <1>6, <3>1 DEF Setups, LastRuns, Behind
    <3>3. j \in DOMAIN W /\ W[j] = rt'.runs[SessionOf[W[i]]]
      BY <1>4, <1>7, <2>2, <3>1, <3>2
    <3> QED
      BY <3>2, <3>3 DEF Behind
  <2> QED
    BY <2>1, <2>2
<1>12. \A x : InWaits(x) => \E k \in DOMAIN W : W[k] = x
  BY <1>6, <1>7 DEF InWaits
<1>13. LastRuns'
  <2>1. \A z \in Sessions : rt'.runs[z] # None => SessionOf[rt'.runs[z]] = z
    BY <1>4 DEF Setups, LastRuns, s
  <2>2. ASSUME rt.cur # 0, NEW z \in Sessions, NEW i \in DOMAIN ses[rt.cur][z].queue,
               ses[rt.cur][z].queue[i] # None
        PROVE  /\ rt'.runs[z] # None
               /\ (\E k \in DOMAIN W : W[k] = rt'.runs[z])
                    \/ Behind(ses[rt.cur][z].queue, i, rt'.runs[z])
    <3>1. CASE z = s
      <4>1. rt'.runs[z] = t /\ Len(q) + 1 \in DOMAIN W
        BY <1>4, <1>7, <3>1
      <4> QED
        BY <1>0, <1>7, <4>1
    <3>2. CASE z # s
      BY <1>4, <1>12, <2>2, <3>2 DEF Setups, LastRuns
    <3> QED
      BY <3>1, <3>2
  <2> QED
    BY <1>2, <1>4, <1>11, <2>1, <2>2 DEF LastRuns, InWaits, Behind
<1> QED
  BY <1>9, <1>10, <1>13 DEF Setups

LEMMA Appended ==
    ASSUME NEW S, NEW q \in Seq(S), NEW x
    PROVE  /\ DOMAIN Append(q, x) = 1..(Len(q) + 1) /\ Append(q, x)[Len(q) + 1] = x
           /\ Len(q) \in Nat /\ DOMAIN q = 1..Len(q)
           /\ \A i \in DOMAIN q : i \in DOMAIN Append(q, x) /\ Append(q, x)[i] = q[i]
OBVIOUS

LEMMA CreatePairSetups ==
    ASSUME Basis, Runs, Setups, NEW p \in Pairs, CreatePair(p)
    PROVE  Setups'
<1>0. /\ turn' = turn /\ ses' = ses /\ rt \in RtStates /\ 0 \notin Pairs
      /\ rt.made \subseteq Pairs /\ rt.failed \subseteq Pairs
  BY RunsFacts DEF CreatePair, KeepPair
<1>1. Steady /\ p <= rt.last /\ p \notin Resolved(rt)
  BY QuietSteady DEF CreatePair, Runs, Resolved
<1>2. p = rt.setup /\ p # 0 /\ rt.cur = 0
  BY <1>0, <1>1 DEF Setups, SetupKnown, Runs, PairsKnown, Resolved
<1>3. \A i \in DOMAIN rt.waits : turn[rt.waits[i]].pair = p
  BY <1>1, <1>2, SteadyWaits DEF Runs
<1>4. /\ rt'.last = rt.last /\ rt'.runs = rt.runs /\ rt'.waits = rt.waits
      /\ Resolved(rt') = Resolved(rt) \cup {p}
      /\ \/ rt'.made = rt.made \cup {p} /\ rt'.failed = rt.failed /\ rt'.cur = p /\ rt'.setup = p
         \/ rt'.failed = rt.failed \cup {p} /\ rt'.cur = 0 /\ rt'.setup = 0
  <2>1. CASE rt' = [rt EXCEPT !.made = @ \cup {p}, !.cur = p]
    BY <1>0, <1>2, <2>1 DEF RtStates, Resolved
  <2>2. CASE rt' = [rt EXCEPT !.failed = @ \cup {p}, !.setup = IF @ = p THEN 0 ELSE @]
    BY <1>0, <1>2, <2>2 DEF RtStates, Resolved
  <2> QED
    BY <2>1, <2>2 DEF CreatePair
<1>5. SetupKnown'
  <2>1. /\ \A o \in Pairs : o <= rt.last /\ o \notin Resolved(rt) => o = p
        /\ \A o \in Resolved(rt) : o <= rt.last
        /\ p <= rt.last /\ p \notin rt.failed /\ 0 <= rt.last
    <3>1. rt.last \in Nat
      BY RtFields, BasisParts, CodexAssumption
    <3> QED
      BY <1>1, <1>2, <3>1 DEF Setups, SetupKnown
  <2>2. \A o \in Pairs : o <= rt.last => o \in Resolved(rt')
    BY <1>4, <2>1
  <2>3. \A o \in Resolved(rt') : o <= rt.last
    BY <1>4, <2>1
  <2>4. rt'.setup <= rt.last /\ rt'.cur \in {0, rt'.setup} /\ rt'.setup \in {0} \cup rt'.made
    BY <1>4, <2>1
  <2>5. rt'.setup \notin rt'.failed
    BY <1>0, <1>2, <1>4, <2>1
  <2> QED
    BY <1>4, <2>2, <2>3, <2>4, <2>5 DEF SetupKnown
<1>6. WaitsAlike'
  BY <1>0, <1>3, <1>4 DEF WaitsAlike
<1>7. ASSUME NEW s \in Sessions, NEW i \in DOMAIN ses[p][s].queue PROVE ses[p][s].queue[i] = None
  <2> SUFFICES ASSUME ses[p][s].queue[i] # None PROVE FALSE
    OBVIOUS
  <2>1. PICK u \in Turns : u = ses[p][s].queue[i]
    BY <1>7, SessionTypes
  <2>2. turn[u].pair = p /\ turn[u].ph = "queued"
    BY <1>7, <2>1 DEF Basis, QueueKnown, QueueOf
  <2> QED
    BY <1>1, <2>2 DEF Runs, PlaceKnown
<1>8. LastRuns'
  BY <1>0, <1>4, <1>7 DEF Setups, LastRuns, InWaits, Behind
<1> QED
  BY <1>5, <1>6, <1>8 DEF Setups

LEMMA EnterSetups ==
    ASSUME Basis, Runs, Setups, NEW t \in Turns, EnterManager(t)
    PROVE  Setups'
<1> DEFINE s == SessionOf[t]
<1>0. /\ rt \in RtStates /\ s \in Sessions /\ t # None /\ rt.runs \in [Sessions -> Turns \cup {None}]
  BY RunsFacts, RtFields, CodexAssumption
<1>1. PICK q \in Seq(Turns) : q = rt.waits
  BY RunsFacts
<1>2. /\ DOMAIN q = 1..Len(q) /\ Len(q) \in Nat /\ \A i \in DOMAIN q : q[i] \in Turns
      /\ \A i, j \in DOMAIN q : q[i] = q[j] => i = j
  BY <1>1 DEF Runs, WaitsKnown
<1>3. PICK i \in DOMAIN q : q[i] = t /\ rt' = [rt EXCEPT !.waits = RemoveAt(@, i)]
  BY <1>1 DEF EnterManager
<1>4. i = 1 /\ 1 \in DOMAIN q
  <2>1. PICK h \in DOMAIN q : q[h] = t /\ \A j \in 1..(h - 1) : turn[q[j]].pair # turn[t].pair
    BY <1>1 DEF EnterManager, EnterDue
  <2>2. h = i
    BY <1>2, <1>3, <2>1
  <2>3. 1 \in DOMAIN q /\ turn[q[1]].pair = turn[q[h]].pair
    BY <1>1, <1>2, <2>1 DEF Setups, WaitsAlike
  <2> QED
    BY <1>2, <2>1, <2>2, <2>3
<1>5. PICK w \in Seq(Turns) : w = RemoveAt(q, 1)
  BY <1>2, <1>4, RemoveAtProperties
<1>6. /\ DOMAIN w = 1..(Len(q) - 1) /\ \A j \in DOMAIN w : w[j] = q[j + 1] /\ j + 1 \in DOMAIN q
  <2>1. 1 \in 1..Len(q)
    BY <1>2, <1>4
  <2>2. /\ Len(w) = Len(q) - 1
        /\ \A j \in 1..(Len(q) - 1) : w[j] = IF j < 1 THEN q[j] ELSE q[j + 1]
    BY <1>5, <2>1, RemoveAtProperties
  <2>3. DOMAIN w = 1..Len(w)
    BY <1>5
  <2>4. DOMAIN w = 1..(Len(q) - 1)
    BY <2>2, <2>3
  <2>5. ASSUME NEW j \in 1..(Len(q) - 1) PROVE w[j] = q[j + 1] /\ j + 1 \in DOMAIN q
    <3>1. j \in Nat /\ ~(j < 1) /\ j + 1 \in 1..Len(q)
      BY <1>2
    <3> QED
      BY <1>2, <2>2, <3>1
  <2> QED
    BY <2>4, <2>5
<1>7. /\ rt'.waits = w /\ rt'.cur = rt.cur /\ rt'.setup = rt.setup /\ rt'.last = rt.last
      /\ rt'.made = rt.made /\ rt'.failed = rt.failed /\ rt'.runs = rt.runs
  <2>1. rt' = [rt EXCEPT !.waits = w]
    BY <1>1, <1>3, <1>4, <1>5
  <2> QED
    BY <1>0, <2>1 DEF RtStates
<1>8. /\ turn[t].pair \in Resolved(rt) /\ rt.setup \in {0} \cup rt.made
      /\ turn[t].pair \in rt.failed => rt.cur = 0
  <2>1. turn[t].pair \in Resolved(rt)
    BY DEF EnterManager, EnterDue, Resolved
  <2>2. turn[t].pair = rt.setup \/ (turn[t].pair \in rt.failed /\ rt.setup = 0)
    BY <1>1, <1>3 DEF Setups, WaitsAlike
  <2> QED
    BY <2>1, <2>2 DEF Setups, SetupKnown, Resolved
<1>9. Enters(t)
  BY EnterEnters
<1>10. \A u \in Turns \ {t} : turn'[u].pair = turn[u].pair
  BY <1>9 DEF Enters, Moved
<1>11. \A j \in DOMAIN w : w[j] # t /\ w[j] \in Turns
  <2> SUFFICES ASSUME NEW j \in DOMAIN w PROVE w[j] # t /\ w[j] \in Turns
    OBVIOUS
  <2>1. w[j] = q[j + 1] /\ j + 1 \in DOMAIN q /\ j + 1 # 1
    BY <1>6
  <2> QED
    BY <1>2, <1>3, <1>4, <2>1
<1>12. SetupKnown'
  BY <1>7, <1>8 DEF Setups, SetupKnown, Resolved
<1>13. WaitsAlike'
  <2>1. ASSUME NEW h \in DOMAIN w, NEW j \in DOMAIN w
        PROVE  /\ turn[w[h]].pair = turn[w[j]].pair
               /\ turn[w[h]].pair = rt.setup \/ (turn[w[h]].pair \in rt.failed /\ rt.setup = 0)
    BY <1>1, <1>6 DEF Setups, WaitsAlike
  <2> QED
    BY <1>7, <1>10, <1>11, <2>1 DEF WaitsAlike
<1>14. \A j \in DOMAIN w : Behind(w, j, rt.runs[SessionOf[w[j]]])
  <2> SUFFICES ASSUME NEW j \in DOMAIN w PROVE Behind(w, j, rt.runs[SessionOf[w[j]]])
    OBVIOUS
  <2>1. PICK k \in DOMAIN q : j + 1 <= k /\ q[k] = rt.runs[SessionOf[w[j]]]
    <3>1. w[j] = q[j + 1] /\ j + 1 \in DOMAIN rt.waits
      BY <1>1, <1>6
    <3>2. Behind(rt.waits, j + 1, rt.runs[SessionOf[rt.waits[j + 1]]])
      BY <3>1 DEF Setups, LastRuns
    <3> QED
      BY <1>1, <3>1, <3>2 DEF Behind
  <2>2. k - 1 \in DOMAIN w /\ w[k - 1] = q[k] /\ j <= k - 1
    <3>1. k - 1 \in 1..(Len(q) - 1) /\ k - 1 + 1 = k /\ j <= k - 1
      BY <1>2, <1>6, <2>1
    <3> QED
      BY <1>6, <3>1
  <2> QED
    BY <2>1, <2>2 DEF Behind
<1>15. \A x : InWaits(x) /\ x # t => \E k \in DOMAIN w : w[k] = x
  <2> SUFFICES ASSUME NEW k \in DOMAIN q, q[k] # t PROVE \E j \in DOMAIN w : w[j] = q[k]
    BY <1>1 DEF InWaits
  <2>1. k - 1 \in 1..(Len(q) - 1) /\ k - 1 + 1 = k
    BY <1>2, <1>3, <1>4
  <2> QED
    BY <1>6, <2>1
<1> DEFINE r == rt.runs[s]
<1>16. r # None /\ (r = t \/ \E k \in DOMAIN w : w[k] = r)
  <2>1. PICK k \in DOMAIN q : q[k] = r
    BY <1>1, <1>3, <1>4 DEF Setups, LastRuns, Behind
  <2>2. r \in Turns /\ r # None /\ InWaits(r)
    BY <1>1, <1>2, <2>1, CodexAssumption DEF InWaits
  <2> QED
    BY <1>15, <2>2
<1> HIDE DEF r
<1>17. ASSUME rt.cur # 0, NEW z \in Sessions, NEW k \in DOMAIN ses'[rt.cur][z].queue,
              ses'[rt.cur][z].queue[k] # None
       PROVE  /\ rt.runs[z] # None
              /\ (\E h \in DOMAIN w : w[h] = rt.runs[z])
                   \/ Behind(ses'[rt.cur][z].queue, k, rt.runs[z])
  <2>1. rt.cur \in Pairs /\ ~(turn[t].pair \in rt.failed \/ rt.cur = 0)
    BY <1>8, <1>17, CurrentPair
  <2>2. Queues(rt.cur, s, t)
    BY <2>1, EnterQueues
  <2>3. CASE z # s
    <3>1. ses'[rt.cur][z].queue = ses[rt.cur][z].queue
      BY <2>1, <2>2, <2>3 DEF Queues, OtherSessions, SameSession
    <3>2. rt.runs[z] # None /\ (InWaits(rt.runs[z]) \/ Behind(ses[rt.cur][z].queue, k, rt.runs[z]))
      BY <1>17, <3>1 DEF Setups, LastRuns
    <3>3. rt.runs[z] # t
      BY <2>3, <3>2 DEF Setups, LastRuns, s
    <3> QED
      BY <1>15, <3>1, <3>2, <3>3
  <2>4. CASE z = s
    <3>1. PICK e \in Seq(Turns \cup {None}) : e = ses[rt.cur][s].queue
      BY <1>0, <2>1, SessionTypes
    <3>2. ses'[rt.cur][s].queue = Append(e, t)
      BY <2>2, <3>1 DEF Queues
    <3>6. PICK S : e \in Seq(S)
      BY <3>1
    <3>3. /\ DOMAIN Append(e, t) = 1..(Len(e) + 1) /\ Append(e, t)[Len(e) + 1] = t
          /\ Len(e) \in Nat
      BY <3>6, Appended
    <3> DEFINE f == Append(e, t)
    <3> HIDE DEF f
    <3>4. CASE r = t
      <4>1. Len(e) + 1 \in DOMAIN f /\ k <= Len(e) + 1 /\ f[Len(e) + 1] = t
        BY <1>17, <2>4, <3>2, <3>3 DEF f
      <4>2. Behind(f, k, t)
        BY <4>1 DEF Behind
      <4> QED
        BY <1>16, <2>4, <3>2, <3>4, <4>2 DEF f, r
    <3>5. CASE r # t
      BY <1>16, <2>4, <3>5 DEF r
    <3> QED
      BY <3>4, <3>5
  <2> QED
    BY <2>3, <2>4
<1>18. LastRuns'
  <2>1. \A z \in Sessions : rt'.runs[z] # None => SessionOf[rt'.runs[z]] = z
    BY <1>7 DEF Setups, LastRuns
  <2> QED
    BY <1>7, <1>14, <1>17, <2>1 DEF LastRuns, InWaits, Behind
<1> QED
  BY <1>12, <1>13, <1>18 DEF Setups

(* A run that is over neither waits nor is queued.                           *)
LEMMA OverElsewhere ==
    ASSUME Basis, Runs, Turning, NEW t \in Turns, turn[t].out # "none"
    PROVE  /\ ~InWaits(t)
           /\ \A p \in Pairs, s \in Sessions : \A i \in DOMAIN ses[p][s].queue : ses[p][s].queue[i] # t
<1>1. turn[t].ph \notin {"setup", "queued"} /\ t # None
  BY CodexAssumption DEF Turning, TurnsRun, Unbegun, Early
<1>2. ~InWaits(t)
  BY <1>1 DEF Runs, WaitsKnown, InWaits
<1>3. ASSUME NEW p \in Pairs, NEW s \in Sessions, NEW i \in DOMAIN ses[p][s].queue,
             ses[p][s].queue[i] = t
      PROVE  FALSE
  BY <1>1, <1>3 DEF Basis, QueueKnown, QueueOf
<1> QED
  BY <1>2, <1>3

(* A run that is over is forgotten.                                          *)
LEMMA ForgetSetups ==
    ASSUME Basis, Runs, Turning, Setups, NEW t \in Turns, turn[t].out # "none",
           PairsStay, QueuesSame, rt'.cur = rt.cur, rt'.setup = rt.setup, rt'.last = rt.last,
           rt'.made = rt.made, rt'.failed = rt.failed, rt'.waits = rt.waits,
           rt.runs[SessionOf[t]] = t, rt'.runs = [rt.runs EXCEPT ![SessionOf[t]] = None]
    PROVE  Setups'
<1>0. /\ \A i \in DOMAIN rt.waits : rt.waits[i] \in Turns
      /\ rt.cur # 0 => rt.cur \in Pairs
      /\ rt.runs \in [Sessions -> Turns \cup {None}] /\ SessionOf[t] \in Sessions
      /\ \A u \in Turns : SessionOf[u] \in Sessions
  BY RunsFacts, CurrentPair, BasisParts, RtFields, CodexAssumption
<1>1. SetupKnown'
  BY DEF Setups, SetupKnown, Resolved
<1>2. WaitsAlike'
  BY <1>0 DEF Setups, WaitsAlike, PairsStay
<1>3. \A s \in Sessions : IF s = SessionOf[t] THEN rt.runs[s] = t /\ rt'.runs[s] = None
                                              ELSE rt'.runs[s] = rt.runs[s]
  BY <1>0
<1>4. \A s \in Sessions : rt'.runs[s] # None => SessionOf[rt'.runs[s]] = s
  BY <1>3 DEF Setups, LastRuns
<1>5. \A i \in DOMAIN rt.waits : Behind(rt.waits, i, rt'.runs[SessionOf[rt.waits[i]]])
  <2> SUFFICES ASSUME NEW i \in DOMAIN rt.waits
               PROVE  Behind(rt.waits, i, rt'.runs[SessionOf[rt.waits[i]]])
    OBVIOUS
  <2>1. Behind(rt.waits, i, rt.runs[SessionOf[rt.waits[i]]])
    BY DEF Setups, LastRuns
  <2>2. rt.runs[SessionOf[rt.waits[i]]] # t
    BY <2>1, OverElsewhere DEF Behind, InWaits
  <2> QED
    BY <1>0, <1>3, <2>1, <2>2
<1>6. ASSUME rt.cur # 0, NEW s \in Sessions, NEW i \in DOMAIN ses[rt.cur][s].queue,
             ses[rt.cur][s].queue[i] # None
      PROVE  /\ rt'.runs[s] # None
             /\ InWaits(rt'.runs[s]) \/ Behind(ses[rt.cur][s].queue, i, rt'.runs[s])
  <2>1. /\ rt.runs[s] # None
        /\ InWaits(rt.runs[s]) \/ Behind(ses[rt.cur][s].queue, i, rt.runs[s])
    BY <1>6 DEF Setups, LastRuns
  <2>2. rt.runs[s] # t
    BY <1>0, <1>6, <2>1, OverElsewhere DEF Behind
  <2> QED
    BY <1>3, <2>1, <2>2
<1>7. rt.cur # 0 => \A s \in Sessions : ses'[rt.cur][s].queue = ses[rt.cur][s].queue
  BY <1>0 DEF QueuesSame
<1>8. LastRuns'
  BY <1>4, <1>5, <1>6, <1>7 DEF LastRuns, InWaits, Behind
<1> QED
  BY <1>1, <1>2, <1>8 DEF Setups

(* The pair is retired, when no run waits for it.                            *)
LEMMA RetiredSetups ==
    ASSUME Basis, Setups, DOMAIN rt.waits = {}, rt'.cur = 0, rt'.setup = 0, rt'.last = rt.last,
           rt'.made = rt.made, rt'.failed = rt.failed, rt'.waits = rt.waits,
           \A s \in Sessions : rt'.runs[s] \in {None, rt.runs[s]}
    PROVE  Setups'
<1>0. rt.last \in Nat /\ rt.failed \subseteq Pairs /\ 0 \notin Pairs /\ rt.waits = <<>>
  <2>1. PICK q \in Seq(Turns) : q = rt.waits
    BY RunsFacts
  <2>2. q = <<>>
    <3>1. DOMAIN q = 1..Len(q) /\ Len(q) \in Nat /\ DOMAIN q = {}
      BY <2>1
    <3>2. Len(q) = 0
      BY <3>1
    <3> QED
      BY <3>2, EmptySeq
  <2> QED
    BY <2>1, <2>2, RunsFacts, RtFields, BasisParts, CodexAssumption
<1>1. SetupKnown'
  BY <1>0 DEF Setups, SetupKnown, Resolved
<1>2. WaitsAlike'
  BY DEF WaitsAlike
<1>3. LastRuns'
  BY DEF LastRuns, Setups
<1> QED
  BY <1>1, <1>2, <1>3 DEF Setups

(* No run waits when the runtime knows of none, but for one that is over.    *)
LEMMA NoRunWaits ==
    ASSUME Basis, Runs, Turning, Setups,
           \A s \in Sessions : rt.runs[s] = None
              \/ \E t \in Turns : turn[t].out # "none" /\ rt.runs[s] = t
    PROVE  /\ DOMAIN rt.waits = {}
           /\ rt.cur # 0 => \A s \in Sessions : \A i \in DOMAIN ses[rt.cur][s].queue :
                ses[rt.cur][s].queue[i] = None
<1>0. /\ \A i \in DOMAIN rt.waits : rt.waits[i] \in Turns
      /\ rt.cur # 0 => rt.cur \in Pairs
      /\ \A u \in Turns : SessionOf[u] \in Sessions /\ u # None
  BY RunsFacts, CurrentPair, CodexAssumption
<1>1. ASSUME NEW i \in DOMAIN rt.waits PROVE FALSE
  <2>1. Behind(rt.waits, i, rt.runs[SessionOf[rt.waits[i]]])
    BY DEF Setups, LastRuns
  <2>2. PICK j \in DOMAIN rt.waits : rt.waits[j] = rt.runs[SessionOf[rt.waits[i]]]
    BY <2>1 DEF Behind
  <2>3. PICK t \in Turns : turn[t].out # "none" /\ rt.waits[j] = t
    BY <1>0, <2>2
  <2> QED
    BY <2>3, OverElsewhere DEF InWaits
<1>2. ASSUME rt.cur # 0, NEW s \in Sessions, NEW i \in DOMAIN ses[rt.cur][s].queue,
             ses[rt.cur][s].queue[i] # None
      PROVE  FALSE
  <2>1. /\ rt.runs[s] # None
        /\ InWaits(rt.runs[s]) \/ Behind(ses[rt.cur][s].queue, i, rt.runs[s])
    BY <1>2 DEF Setups, LastRuns
  <2>2. PICK t \in Turns : turn[t].out # "none" /\ rt.runs[s] = t
    BY <2>1
  <2> QED
    BY <1>0, <1>2, <2>1, <2>2, OverElsewhere DEF Behind
<1> QED
  BY <1>1, <1>2

LEMMA TailOf ==
    ASSUME NEW S, NEW q \in Seq(S), q # <<>>
    PROVE  /\ Len(q) \in Nat /\ DOMAIN q = 1..Len(q) /\ 1 \in DOMAIN q
           /\ DOMAIN Tail(q) = 1..(Len(q) - 1) /\ Len(Tail(q)) = Len(q) - 1
           /\ \A i \in DOMAIN Tail(q) : Tail(q)[i] = q[i + 1] /\ i + 1 \in DOMAIN q
           /\ \A j \in DOMAIN q : j > 1 => j - 1 \in DOMAIN Tail(q) /\ Tail(q)[j - 1] = q[j]
<1>1. Len(q) \in Nat /\ Len(q) # 0 /\ DOMAIN q = 1..Len(q)
  BY EmptySeq
<1> QED
  BY <1>1

(* The head of a queue leaves, or an abort joins one.                        *)
LEMMA QueueSetups ==
    ASSUME Basis, Setups, RtLike, PairsStay,
           rt.cur \in Pairs => \A s \in Sessions :
             LET q == ses[rt.cur][s].queue
                 w == ses'[rt.cur][s].queue IN
             \/ w = q \/ w = Append(q, None) \/ (q # <<>> /\ w = Tail(q))
    PROVE  Setups'
<1>0. /\ \A i \in DOMAIN rt.waits : rt.waits[i] \in Turns
      /\ rt.cur # 0 => rt.cur \in Pairs
  BY RunsFacts, CurrentPair
<1>1. SetupKnown'
  BY DEF Setups, SetupKnown, RtLike, Resolved
<1>2. WaitsAlike'
  BY <1>0 DEF Setups, WaitsAlike, RtLike, PairsStay
<1>3. \A s \in Sessions : rt'.runs[s] # None => SessionOf[rt'.runs[s]] = s
  BY DEF Setups, LastRuns, RtLike
<1>4. \A i \in DOMAIN rt'.waits : Behind(rt'.waits, i, rt'.runs[SessionOf[rt'.waits[i]]])
  BY DEF Setups, LastRuns, RtLike
<1>5. ASSUME rt.cur # 0, NEW s \in Sessions, NEW i \in DOMAIN ses'[rt.cur][s].queue,
             ses'[rt.cur][s].queue[i] # None
      PROVE  rt.runs[s] # None /\ (InWaits(rt.runs[s]) \/ Behind(ses'[rt.cur][s].queue, i, rt.runs[s]))
  <2>0. PICK S : ses[rt.cur][s].queue \in Seq(S)
    BY <1>0, <1>5, SessionTypes
  <2>1. PICK q \in Seq(S) : q = ses[rt.cur][s].queue
    BY <2>0
  <2>2. PICK w : w = ses'[rt.cur][s].queue
    OBVIOUS
  <2>3. \A k \in DOMAIN q : q[k] # None => rt.runs[s] # None /\ (InWaits(rt.runs[s]) \/ Behind(q, k, rt.runs[s]))
    BY <1>5, <2>1 DEF Setups, LastRuns
  <2>4. w = q \/ w = Append(q, None) \/ (q # <<>> /\ w = Tail(q))
    BY <1>0, <1>5, <2>1, <2>2
  <2>5. CASE w = q
    BY <1>5, <2>2, <2>3, <2>5
  <2>6. CASE w = Append(q, None)
    <3>1. /\ DOMAIN w = 1..(Len(q) + 1) /\ w[Len(q) + 1] = None /\ Len(q) \in Nat
          /\ DOMAIN q = 1..Len(q) /\ \A k \in DOMAIN q : k \in DOMAIN w /\ w[k] = q[k]
      BY <2>6, Appended
    <3>2. i \in DOMAIN q /\ q[i] # None
      BY <1>5, <2>2, <3>1
    <3>3. Behind(q, i, rt.runs[s]) => Behind(w, i, rt.runs[s])
      BY <3>1 DEF Behind
    <3> QED
      BY <2>2, <2>3, <3>2, <3>3
  <2>7. CASE q # <<>> /\ w = Tail(q)
    <3>1. /\ w[i] = q[i + 1] /\ i + 1 \in DOMAIN q /\ i \in DOMAIN w /\ i \in Nat /\ i > 0
          /\ \A j \in DOMAIN q : j > 1 => j - 1 \in DOMAIN w /\ w[j - 1] = q[j]
          /\ \A j \in DOMAIN q : j \in Nat
      BY <1>5, <2>2, <2>7, TailOf
    <3>2. ASSUME NEW j \in DOMAIN q, i + 1 <= j, q[j] = rt.runs[s] PROVE Behind(w, i, rt.runs[s])
      <4>1. j > 1 /\ i <= j - 1
        BY <3>1, <3>2
      <4> QED
        BY <3>1, <3>2, <4>1 DEF Behind
    <3>3. rt.runs[s] # None /\ (InWaits(rt.runs[s]) \/ Behind(q, i + 1, rt.runs[s]))
      BY <1>5, <2>2, <2>3, <3>1
    <3> QED
      BY <2>2, <3>2, <3>3 DEF Behind
  <2> QED
    BY <2>4, <2>5, <2>6, <2>7
<1>6. LastRuns'
  BY <1>3, <1>4, <1>5 DEF LastRuns, InWaits, Behind, RtLike
<1> QED
  BY <1>1, <1>2, <1>6 DEF Setups

LEMMA AbortSetups ==
    ASSUME Basis, Setups, NEW t \in Turns, AbortAfterSetup(t) PROVE Setups'
<1>1. PairsStay /\ RtLike
  BY AbortAborts DEF Aborts, PairsStay, RtLike
<1>2. ses' = ses \/ Queues(rt.cur, SessionOf[t], None)
  BY AbortQueues
<1>3. ASSUME rt.cur \in Pairs, NEW s \in Sessions
      PROVE  LET q == ses[rt.cur][s].queue
                 w == ses'[rt.cur][s].queue IN w = q \/ w = Append(q, None)
  BY <1>2, <1>3 DEF Queues, OtherSessions, SameSession
<1> QED
  BY <1>1, <1>3, QueueSetups

LEMMA GoesSetups ==
    ASSUME Basis, Setups, NEW p \in Pairs, NEW s \in Sessions, rt' = rt,
           Pops(p, s) \/ \E h \in Turns : Begins(p, s, h) \/ Stops(p, s, h)
    PROVE  Setups'
<1>1. RtLike
  BY DEF RtLike
<1>2. CASE Pops(p, s)
  <2>1. PairsStay
    BY <1>2 DEF Pops, PairsStay
  <2>2. QueueGoes(p, s, None)
    BY <1>2 DEF Pops
  <2> QED
    BY <1>1, <2>1, <2>2, QueueSetups DEF QueueGoes, OtherSessions, SameSession
<1>3. ASSUME NEW h \in Turns, Begins(p, s, h) PROVE Setups'
  <2>1. PairsStay
    BY <1>3 DEF Begins, Sends, OnlyOf, Only, PairsStay
  <2>2. QueueGoes(p, s, h)
    BY <1>3 DEF Begins
  <2> QED
    BY <1>1, <2>1, <2>2, QueueSetups DEF QueueGoes, OtherSessions, SameSession
<1>4. ASSUME NEW h \in Turns, Stops(p, s, h) PROVE Setups'
  <2>1. PairsStay
    BY <1>4 DEF Stops, OnlyOf, Only, PairsStay
  <2>2. QueuesSame
    BY <1>4 DEF Stops, OtherSessions, SameSession, QueuesSame
  <2> QED
    BY <1>1, <2>1, <2>2, RestsSetups
<1> QED
  BY <1>2, <1>3, <1>4

(* Steps of turns that have begun leave the queues alone.                    *)
Apart == PairsStay /\ QueuesSame
         /\ \A p \in Pairs, s \in Sessions : ses'[p][s].block = ses[p][s].block
LEMMA SameApart ==
    ASSUME \A u \in Turns : turn'[u].pair = turn[u].pair, ses' = ses PROVE Apart
BY DEF Apart, PairsStay, QueuesSame

LEMMA RunsThenApart ==
    ASSUME \A u \in Turns : turn'[u].pair = turn[u].pair,
           NEW p \in Pairs, NEW s \in Sessions, NEW x, RunsThen(p, s, x)
    PROVE  Apart
BY DEF Apart, PairsStay, QueuesSame, RunsThen, OtherSessions, SameSession

LEMMA OnlyOfPairs ==
    ASSUME NEW t, NEW S, OnlyOf(turn, turn', t, S), "pair" \notin S
    PROVE  \A u \in Turns : turn'[u].pair = turn[u].pair
BY DEF OnlyOf, Only

LEMMA BeginApart ==
    ASSUME Basis, NEW t \in Turns, Asks1(t) \/ Opens(t) \/ Fails(t)
    PROVE  Apart
<1>1. CASE Asks1(t)
  <2>1. PICK S : S = {"ph", "rq"}
    OBVIOUS
  <2>2. OnlyOf(turn, turn', t, S) /\ "pair" \notin S
    BY <1>1, <2>1 DEF Asks1, Sends
  <2>3. \A u \in Turns : turn'[u].pair = turn[u].pair
    BY <2>2, OnlyOfPairs
  <2> QED
    BY <1>1, <2>3 DEF Asks1, SameSessions, SameSession, Apart, PairsStay, QueuesSame
<1>2. CASE Opens(t)
  <2>1. \A u \in Turns : turn'[u].pair = turn[u].pair
    BY <1>2 DEF Opens, Only
  <2> QED
    BY <1>2, <2>1, SameApart DEF Opens
<1>3. CASE Fails(t)
  <2>1. \A u \in Turns : turn'[u].pair = turn[u].pair
    BY <1>3 DEF Fails, Only
  <2>2. turn[t].pair \in Pairs /\ SessionOf[t] \in Sessions
    BY <1>3, Going, TurnTypes DEF Fails
  <2> QED
    BY <1>3, <2>1, <2>2, RunsThenApart DEF Fails
<1> QED
  BY <1>1, <1>2, <1>3

LEMMA DriveApart ==
    ASSUME Basis, NEW t \in Turns, Drives1(t) \/ GivesUp(t) \/ RunsOut(t)
    PROVE  Apart
<1>1. \A u \in Turns : turn'[u].pair = turn[u].pair
  <2>1. CASE Drives1(t)
    <3>1. PICK S \in {{"dq", "drv"}, {"dq", "lid"}, {"dq", "drv", "settle"}} :
            OnlyOf(turn, turn', t, S)
      <4>1. CASE AsksFor(t)
        BY <4>1 DEF AsksFor
      <4>2. CASE Found(t)
        BY <4>2 DEF Found
      <4>3. CASE Again(t)
        BY <4>3 DEF Again
      <4>4. CASE Leaves(t)
        BY <4>4 DEF Leaves
      <4> QED
        BY <2>1, <4>1, <4>2, <4>3, <4>4 DEF Drives1
    <3>2. "pair" \notin S
      OBVIOUS
    <3> QED
      BY <3>1, <3>2, OnlyOfPairs
  <2>2. CASE GivesUp(t)
    <3>1. PICK S : OnlyOf(turn, turn', t, S) /\ "pair" \notin S
      BY <2>2 DEF GivesUp, Finishes
    <3> QED
      BY <3>1, OnlyOfPairs
  <2>3. CASE RunsOut(t)
    <3>1. OnlyOf(turn, turn', t, {"rq"}) \/ OnlyOf(turn, turn', t, {"dq"})
      BY <2>3 DEF RunsOut
    <3>2. "pair" \notin {"rq"} /\ "pair" \notin {"dq"}
      OBVIOUS
    <3> QED
      BY <3>1, <3>2, OnlyOfPairs
  <2> QED
    BY <2>1, <2>2, <2>3
<1>2. CASE GivesUp(t)
  BY <1>1, <1>2, RunsThenApart, TurnTypes DEF GivesUp, Finishes
<1>3. CASE ses' = ses
  BY <1>1, <1>3, SameApart
<1> QED
  BY <1>2, <1>3 DEF Drives1, RunsOut

LEMMA WireApart ==
    ASSUME Basis, Turning, NEW p \in Pairs, Handshaken(p) \/ Works(p) \/ Reads(p) \/ Lost(p)
    PROVE  Apart
<1>1. CASE Lost(p)
  BY <1>1 DEF Lost, LostTurn, Apart, PairsStay, QueuesSame
<1>2. CASE Handshaken(p)
  BY <1>2, SameApart DEF Handshaken, Only
<1>3. CASE Works(p)
  BY <1>3, SameApart DEF Works
<1>4. CASE Reads(p)
  <2> DEFINE l == Head(wire[p].out)
  <2>1. Answered1(l) \/ Unheard(p, l) \/ Named(p, l) \/ EndRead(p, l)
    BY <1>4 DEF Reads
  <2> HIDE DEF l
  <2>2. CASE Answered1(l)
    <3>1. PICK S : OnlyOf(turn, turn', l.for, S) /\ "pair" \notin S
      BY <2>2 DEF Answered1
    <3>2. \A u \in Turns : turn'[u].pair = turn[u].pair
      BY <3>1, OnlyOfPairs
    <3> QED
      BY <2>2, <3>2, SameApart DEF Answered1
  <2>3. CASE Unheard(p, l)
    BY <2>3, SameApart DEF Unheard
  <2>4. CASE Named(p, l)
    <3>1. PICK r, S : OnlyOf(turn, turn', r, S) /\ "pair" \notin S
      BY <2>4 DEF Named
    <3>2. \A u \in Turns : turn'[u].pair = turn[u].pair
      BY <3>1, OnlyOfPairs
    <3> QED
      BY <2>4, <3>2, SameApart DEF Named
  <2>5. CASE EndRead(p, l)
    <3>1. PICK r, out : Finishes(p, r, out)
      BY <2>5 DEF EndRead
    <3>2. PICK S : OnlyOf(turn, turn', r, S) /\ "pair" \notin S
      BY <3>1 DEF Finishes
    <3>3. \A u \in Turns : turn'[u].pair = turn[u].pair
      BY <3>2, OnlyOfPairs
    <3>4. r \in Turns /\ SessionOf[r] \in Sessions
      BY <3>1, CodexAssumption DEF Finishes
    <3> QED
      BY <3>1, <3>3, <3>4, RunsThenApart DEF Finishes
  <2> QED
    BY <2>1, <2>2, <2>3, <2>4, <2>5
<1> QED
  BY <1>1, <1>2, <1>3, <1>4

LEMMA ApartCalls ==
    ASSUME Basis, RunOrder, Apart, RtLike, rt.chunk = 0, rt'.chunk = 0 PROVE RunOrder'
BY RestsSetups DEF RunOrder, Apart

LEMMA RtSame == ASSUME rt' = rt PROVE RtLike /\ rt'.chunk = rt.chunk
BY DEF RtLike

(* Lines of one chunk are read one after the other, and nothing is due then. *)
LEMMA DeliverCalls ==
    ASSUME Basis, Runs, Turning, RunOrder, NEW p \in Pairs, Deliver(p) PROVE RunOrder'
<1>1. PICK more \in 0..MaxPairs : rt' = [rt EXCEPT !.chunk = more]
  BY DeliverDelivers DEF Delivers
<1>2. RtLike
  BY <1>1, BasisParts DEF RtLike, RtStates
<1>3. Apart
  BY DeliverReads, WireApart
<1>4. Setups'
  BY <1>2, <1>3, RestsSetups DEF RunOrder, Apart
<1>5. Steady
  <2>1. CASE Quiet
    BY <2>1, QuietSteady DEF Runs
  <2>2. CASE rt.chunk = p
    BY <2>2, CodexAssumption DEF RunOrder, Pairs
  <2> QED
    BY <2>1, <2>2 DEF Deliver
<1>6. Steady'
  <2>1. \A i \in DOMAIN rt.waits : turn'[rt.waits[i]].pair = turn[rt.waits[i]].pair
    BY <1>3, RunsFacts DEF Apart, PairsStay
  <2> QED
    BY <1>2, <1>3, <1>5, <2>1 DEF Steady, Apart, QueuesSame, RtLike, Resolved
<1> QED
  BY <1>4, <1>6 DEF RunOrder

(* A run is over: it is forgotten, and may have been the last of its pair.   *)
RetiredRt(r) == rt' = [r EXCEPT !.cur = 0, !.setup = 0, !.changed = FALSE]
LEMMA RetireSets ==
    ASSUME Basis, Setups, DOMAIN rt.waits = {}, NEW r \in RtStates, RetiredRt(r),
           r.last = rt.last, r.made = rt.made, r.failed = rt.failed, r.waits = rt.waits,
           \A s \in Sessions : r.runs[s] \in {None, rt.runs[s]}
    PROVE  Setups' /\ rt'.chunk = r.chunk
<1>1. /\ rt'.cur = 0 /\ rt'.setup = 0 /\ rt'.last = r.last /\ rt'.made = r.made
      /\ rt'.failed = r.failed /\ rt'.waits = r.waits /\ rt'.runs = r.runs /\ rt'.chunk = r.chunk
  BY DEF RetiredRt, RtStates
<1> QED
  BY <1>1, RetiredSetups

LEMMA CompleteCalls ==
    ASSUME Basis, Runs, Turning, RunOrder, rt.chunk = 0, NEW t \in Turns, CompleteRun(t)
    PROVE  RunOrder'
<1> DEFINE s == SessionOf[t]
           f == [turn EXCEPT ![t].gone = TRUE, ![t].by = None]
           r == IF rt.runs[s] = t THEN [rt EXCEPT !.runs[s] = None] ELSE rt
<1>0. /\ turn[t].out # "none" /\ rt \in RtStates /\ r \in RtStates
      /\ rt.runs \in [Sessions -> Turns \cup {None}] /\ s \in Sessions
  <2>1. rt \in RtStates /\ r \in RtStates
    BY BasisParts, RunsKeep
  <2> QED
    BY <2>1, RtFields, CodexAssumption DEF CompleteRun, SettleDue
<1>1. IF rt.changed /\ \A z \in Sessions : r.runs[z] = None
        THEN RetirePair(f, r) ELSE turn' = f /\ rt' = r /\ KeepPair
  BY DEF CompleteRun
<1>2. /\ r.cur = rt.cur /\ r.setup = rt.setup /\ r.last = rt.last /\ r.made = rt.made
      /\ r.failed = rt.failed /\ r.waits = rt.waits /\ r.chunk = rt.chunk
      /\ IF rt.runs[s] = t THEN r.runs = [rt.runs EXCEPT ![s] = None] ELSE r = rt
  BY <1>0 DEF RtStates
<1> HIDE DEF r
<1>3. CASE rt.changed /\ \A z \in Sessions : r.runs[z] = None
  <2>1. RetiredRt(r)
    BY <1>1, <1>3 DEF RetirePair, RetiredRt
  <2>2. \A z \in Sessions : rt.runs[z] = None \/ (turn[t].out # "none" /\ rt.runs[z] = t)
    BY <1>0, <1>2, <1>3
  <2>3. DOMAIN rt.waits = {}
    BY <2>2, NoRunWaits DEF RunOrder
  <2>4. \A z \in Sessions : r.runs[z] \in {None, rt.runs[z]}
    BY <1>3
  <2> QED
    BY <1>0, <1>2, <2>1, <2>3, <2>4, RetireSets DEF RunOrder
<1>4. CASE ~(rt.changed /\ \A z \in Sessions : r.runs[z] = None)
  <2>1. turn' = f /\ rt' = r /\ ses' = ses
    BY <1>1, <1>4 DEF KeepPair
  <2>2. \A u \in Turns : turn'[u].pair = turn[u].pair
    <3>1. turn \in TurnTable
      BY BasisParts
    <3>2. PICK S : S = {}
      OBVIOUS
    <3>3. OnlyOf(turn, f, t, {})
      BY <3>1, GoneOnly
    <3>4. OnlyOf(turn, turn', t, S) /\ "pair" \notin S
      BY <2>1, <3>2, <3>3
    <3> QED
      BY <3>4, OnlyOfPairs
  <2>3. Apart
    BY <2>1, <2>2, SameApart
  <2>4. CASE rt.runs[s] = t
    BY <1>0, <1>2, <2>1, <2>3, <2>4, ForgetSetups DEF RunOrder, Apart
  <2>5. CASE rt.runs[s] # t
    BY <1>2, <2>1, <2>3, <2>5, RtSame, ApartCalls
  <2> QED
    BY <2>4, <2>5
<1> QED
  BY <1>3, <1>4

(* The managed runtime or the account changes when nobody is set up for a    *)
(* pair that is not there yet.                                               *)
LEMMA AccountCalls ==
    ASSUME ~EarlyRetire, Basis, Runs, Turning, RunOrder, AccountChanged PROVE RunOrder'
<1>1. Steady /\ rt.chunk = 0 /\ RetiredRt(rt) /\ rt.setup \in {0, rt.cur} /\ rt \in RtStates
  BY QuietSteady, BasisParts DEF AccountChanged, RetirePair, RetiredRt, Runs
<1>2. DOMAIN rt.waits = {}
  <2>1. ASSUME NEW i \in DOMAIN rt.waits PROVE FALSE
    <3>1. turn[rt.waits[i]].pair = rt.setup /\ rt.setup # 0 /\ rt.setup \notin Resolved(rt)
      BY <1>1, SteadyWaits DEF RunOrder, Runs, Steady
    <3> QED
      BY <1>1, <3>1 DEF Runs, PairsKnown, Resolved
  <2> QED
    BY <2>1
<1> QED
  BY <1>1, <1>2, RetireSets DEF RunOrder

LEMMA RuntimeChangedCalls ==
    ASSUME Basis, Runs, Turning, RunOrder, RuntimeChanged PROVE RunOrder'
<1>1. rt.chunk = 0 /\ rt \in RtStates
  BY QuietSteady, BasisParts DEF RuntimeChanged, Runs
<1>2. CASE \A s \in Sessions : rt.runs[s] = None
  <2>1. RetiredRt(rt)
    BY <1>2 DEF RuntimeChanged, RetirePair, RetiredRt
  <2>2. DOMAIN rt.waits = {}
    BY <1>2, NoRunWaits DEF RunOrder
  <2> QED
    BY <1>1, <2>1, <2>2, RetireSets DEF RunOrder
<1>3. CASE ~\A s \in Sessions : rt.runs[s] = None
  <2>1. rt' = [rt EXCEPT !.changed = TRUE]
        /\ ((Lose(rt.cur, turn, conn[rt.cur].reaper) /\ rt.cur # 0) \/ (UNCHANGED turn /\ KeepPair))
    BY <1>3 DEF RuntimeChanged
  <2>2. RtLike /\ rt'.chunk = 0
    BY <1>1, <2>1 DEF RtLike, RtStates
  <2>3. Apart
    <3>1. CASE Lose(rt.cur, turn, conn[rt.cur].reaper) /\ rt.cur # 0
      <4>1. rt.cur \in Pairs /\ Lost(rt.cur)
        BY <3>1, CurrentPair, LoseLost, SameOnly
      <4> QED
        BY <4>1, WireApart
    <3>2. CASE UNCHANGED turn /\ KeepPair
      BY <3>2, SameApart DEF KeepPair
    <3> QED
      BY <2>1, <3>1, <3>2
  <2> QED
    BY <1>1, <2>2, <2>3, ApartCalls
<1> QED
  BY <1>2, <1>3

LEMMA ReactionCalls ==
    ASSUME Basis, Runs, Turning, RunOrder, Reactions PROVE RunOrder'
<1>0. rt.chunk = 0 /\ rt \in RtStates
  BY BasisParts DEF Reactions
<1>1. ASSUME NEW t \in Turns, EnterManager(t) PROVE RunOrder'
  <2>1. PICK w : rt' = [rt EXCEPT !.waits = w]
    BY <1>1 DEF EnterManager
  <2>2. rt'.chunk = 0
    BY <1>0, <2>1 DEF RtStates
  <2> QED
    BY <1>1, <2>2, EnterSetups DEF RunOrder
<1>2. ASSUME NEW t \in Turns, CompleteRun(t) PROVE RunOrder'
  BY <1>0, <1>2, CompleteCalls
<1>3. ASSUME NEW t \in Turns, AbortAfterSetup(t) PROVE RunOrder'
  <2>1. rt' = rt
    BY <1>3 DEF AbortAfterSetup
  <2> QED
    BY <1>0, <1>3, <2>1, AbortSetups DEF RunOrder
<1>4. ASSUME NEW t \in Turns, BeginContinues(t) PROVE RunOrder'
  <2>1. rt' = rt
    BY <1>4 DEF BeginContinues
  <2> QED
    BY <1>0, <1>4, <2>1, BeginSends, BeginApart, RtSame, ApartCalls
<1>5. ASSUME NEW t \in Turns, DriverContinues(t) PROVE RunOrder'
  <2>1. rt' = rt
    BY <1>5 DEF DriverContinues
  <2> QED
    BY <1>0, <1>5, <2>1, ContinuesDrives, DriveApart, RtSame, ApartCalls
<1>6. ASSUME NEW p \in Pairs, NEW s \in Sessions, HeadStarts(p, s) PROVE RunOrder'
  <2>1. rt' = rt
    BY <1>6 DEF HeadStarts
  <2>2. Setups'
    BY <1>6, <2>1, HeadStartsBegins, GoesSetups DEF RunOrder
  <2> QED
    BY <1>0, <2>1, <2>2 DEF RunOrder
<1> QED
  BY <1>1, <1>2, <1>3, <1>4, <1>5, <1>6 DEF Reactions

LEMMA QuietChunk == ASSUME Quiet PROVE rt.chunk = 0
BY DEF Quiet

LEMMA TimerCalls ==
    ASSUME Basis, Runs, Turning, RunOrder, Timers PROVE RunOrder'
<1>1. ASSUME NEW t \in Turns, DriverAsks(t) \/ GiveUp(t) PROVE RunOrder'
  <2>1. rt' = rt /\ rt.chunk = 0
    BY <1>1, QuietChunk DEF DriverAsks, GiveUp
  <2> QED
    BY <1>1, <2>1, AsksDrives, GiveUpGives, DriveApart, RtSame, ApartCalls
<1>2. ASSUME NEW t \in Turns, NEW f \in {"rq", "dq"}, TimeOut(t, f) PROVE RunOrder'
  <2>1. rt' = rt /\ rt.chunk = 0
    BY <1>2, QuietChunk DEF TimeOut
  <2> QED
    BY <1>2, <2>1, TimeOutRuns, DriveApart, RtSame, ApartCalls
<1>3. ASSUME NEW p \in Pairs, NEW s \in Sessions, HeadResumes(p, s) PROVE RunOrder'
  <2>1. rt' = rt /\ rt.chunk = 0
    BY <1>3, QuietChunk DEF HeadResumes
  <2>2. Setups'
    BY <1>3, <2>1, HeadResumesBegins, GoesSetups DEF RunOrder
  <2> QED
    BY <2>1, <2>2 DEF RunOrder
<1>4. ASSUME NEW p \in Pairs, Reap(p) PROVE RunOrder'
  <2>1. rt' = rt /\ rt.chunk = 0
    BY <1>4, QuietChunk DEF Reap
  <2> QED
    BY <1>4, <2>1, LossLost, WireApart, RtSame, ApartCalls
<1> QED
  BY <1>1, <1>2, <1>3, <1>4 DEF Timers

LEMMA AppServerCalls ==
    ASSUME Basis, Runs, Turning, RunOrder, AppServer PROVE RunOrder'
<1>1. ASSUME NEW p \in Pairs, Handshake(p) \/ ChildLost(p) PROVE RunOrder'
  <2>1. rt' = rt /\ rt.chunk = 0
    BY <1>1, QuietChunk DEF Handshake, ChildLost
  <2> QED
    BY <1>1, <2>1, HandshakeDone, LossLost, WireApart, RtSame, ApartCalls
<1>2. ASSUME NEW p \in Pairs, SlowDown(p) PROVE RunOrder'
  <2>1. rt' = rt /\ rt.chunk = 0 /\ ses' = ses /\ turn' = turn
    BY <1>2, QuietChunk DEF SlowDown
  <2> QED
    BY <2>1, SameApart, RtSame, ApartCalls
<1>3. ASSUME NEW p \in Pairs, Deliver(p) PROVE RunOrder'
  BY <1>3, DeliverCalls
<1>4. ASSUME NEW p \in Pairs, NEW m \in wire[p].in, Serve(p, m) PROVE RunOrder'
  <2>1. rt' = rt /\ rt.chunk = 0
    BY <1>4, QuietChunk DEF Serve
  <2> QED
    BY <1>4, <2>1, ServeWorks, WireApart, RtSame, ApartCalls
<1>5. ASSUME NEW p \in Pairs, NEW s \in Sessions, NEW k \in Ends, ServeEnd(p, s, k) PROVE RunOrder'
  <2>1. rt' = rt /\ rt.chunk = 0
    BY <1>5, QuietChunk DEF ServeEnd
  <2> QED
    BY <1>5, <2>1, ServeEndWorks, WireApart, RtSame, ApartCalls
<1> QED
  BY <1>1, <1>2, <1>3, <1>4, <1>5 DEF AppServer

LEMMA RuntimeCalls ==
    ASSUME ~EarlyRetire, Basis, Runs, Turning, RunOrder, Runtime PROVE RunOrder'
<1>0. rt \in RtStates
  BY BasisParts
<1>1. ASSUME NEW t \in Turns, StartRun(t) PROVE RunOrder'
  <2>1. PICK a, b, c, d : rt' = [rt EXCEPT !.setup = a, !.last = b, !.runs = c, !.waits = d]
    BY <1>0, <1>1 DEF StartRun, RtStates
  <2>2. rt'.chunk = 0
    BY <1>0, <1>1, <2>1, QuietChunk DEF StartRun, RtStates
  <2> QED
    BY <1>1, <2>2, StartRunSetups DEF RunOrder, Runs
<1>2. ASSUME NEW t \in Turns, Kill(t) PROVE RunOrder'
  <2>1. rt' = rt /\ rt.chunk = 0 /\ ses' = ses
    BY <1>2, QuietChunk DEF Kill, KeepPair
  <2>2. \A u \in Turns : turn'[u].pair = turn[u].pair
    BY <1>2, BasisParts DEF Kill, TurnTable, TurnState
  <2> QED
    BY <2>1, <2>2, SameApart, RtSame, ApartCalls
<1>3. ASSUME NEW p \in Pairs, CreatePair(p) PROVE RunOrder'
  <2>1. rt'.chunk = rt.chunk
    BY <1>0, <1>3 DEF CreatePair, RtStates
  <2>2. rt.chunk = 0
    BY <1>3, QuietChunk DEF CreatePair
  <2> QED
    BY <1>3, <2>1, <2>2, CreatePairSetups DEF RunOrder
<1> QED
  BY <1>1, <1>2, <1>3, AccountCalls, RuntimeChangedCalls DEF Runtime

LEMMA CallsInit == ASSUME CodexInit PROVE RunOrder
<1>1. /\ rt = [cur |-> 0, setup |-> 0, made |-> {}, failed |-> {}, last |-> 0,
               changed |-> FALSE, runs |-> [s \in Sessions |-> None], waits |-> <<>>,
               chunk |-> 0]
  BY DEF CodexInit
<1>2. DOMAIN rt.waits = {} /\ rt.runs = [s \in Sessions |-> None]
  BY <1>1
<1>3. SetupKnown
  BY <1>1, CodexAssumption DEF SetupKnown, Resolved, Pairs
<1>4. WaitsAlike
  BY <1>2 DEF WaitsAlike
<1>5. LastRuns
  BY <1>1, <1>2 DEF LastRuns
<1> QED
  BY <1>1, <1>3, <1>4, <1>5 DEF RunOrder, Setups

LEMMA CallsSame == ASSUME Basis, RunOrder, UNCHANGED vars PROVE RunOrder'
<1>1. RtLike /\ Apart /\ rt' = rt /\ ses' = ses /\ turn' = turn
  BY SameApart DEF vars, RtLike
<1>2. Setups'
  BY <1>1, RestsSetups DEF RunOrder, Apart
<1> QED
  BY <1>1, <1>2 DEF RunOrder, Steady, Resolved

LEMMA CallsNext ==
    ASSUME ~EarlyRetire, Basis, Runs, Turning, RunOrder, [CodexNext]_vars PROVE RunOrder'
BY ReactionCalls, TimerCalls, AppServerCalls, RuntimeCalls, CallsSame DEF CodexNext
=============================================================================
