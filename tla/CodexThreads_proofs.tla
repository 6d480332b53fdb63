------------------------- MODULE CodexThreads_proofs -------------------------
(* Safety of the codex turns for any number of turns, sessions and account   *)
(* changes. Three layers of an inductive invariant: Basis has the types and  *)
(* the queues, Wires relates the open requests of a pair to the turns that   *)
(* wait for them, and Runs relates the pairs of the runtime to the turns that*)
(* await one and to the threads their sessions have.                         *)
EXTENDS CodexThreads, SequenceTheorems, WellFoundedInduction, TLAPS

-----------------------------------------------------------------------------
(* Turns of Codex. The lines on the wire and their types.                    *)
TurnTable == [Turns -> TurnState]
SesTable  == [Pairs -> [Sessions -> SessionState]]
ConnTable == [Pairs -> [st : {"none", "starting", "ready"}, gen : Nat, reaper : BOOLEAN,
                        slow : BOOLEAN]]
KidTable  == [Pairs -> [Sessions -> [loaded : BOOLEAN, active : Turns \cup {None}]]]
Questions == [for : Turns, what : {"load", "turn", "interrupt"}, on : Turns, open : BOOLEAN]
Answers   == [kind : {"reply"}, for : Turns, what : {"load", "turn"},
              answer : {"ok", "missing", "error"}]
             \cup [kind : {"reply"}, for : Turns, what : {"interrupt"},
                   answer : {"ok", "idle", "error"} \cup Turns]
             \cup [kind : {"started", "completed", "interrupted", "broken"}, for : Turns,
                   what : {"event"}, answer : {"none"}]
WireTable == [Pairs -> [in : SUBSET Questions, out : Seq(Answers)]]

(* A turn waits in the queue of its session, in the manager of its pair.     *)
QueueOf(f, q, p, s) ==
    /\ \A i \in DOMAIN q : q[i] # None =>
         f[q[i]].pair = p /\ SessionOf[q[i]] = s /\ f[q[i]].ph = "queued"
    /\ \A i, j \in DOMAIN q : q[i] # None /\ q[i] = q[j] => i = j

QueueKnown == \A p \in Pairs, s \in Sessions : QueueOf(turn, ses[p][s].queue, p, s)

(* A queue that waits for an interrupted turn has its head still.            *)
BlockKnown ==
    \A p \in Pairs, s \in Sessions : ses[p][s].block # None => ses[p][s].queue # <<>>

TurnsKnown ==
    \A t \in Turns :
      /\ turn[t].ph = "new" => turn[t].killed = 0
      /\ turn[t].ph # "new" => turn[t].pair \in Pairs
      /\ turn[t].ph \in {"new", "setup", "queued"} => turn[t].rq = "none"

Basis == CodexTypeOK /\ wire \in WireTable /\ TurnsKnown /\ QueueKnown /\ BlockKnown

LEMMA BasisTables ==
    ASSUME Basis
    PROVE  /\ turn \in TurnTable /\ ses \in SesTable /\ conn \in ConnTable
           /\ child \in KidTable /\ wire \in WireTable /\ faults \in 0..MaxFaults
BY DEF Basis, CodexTypeOK, TurnTable, SesTable, ConnTable, KidTable

(* What the helpers of the module do to the turns.                           *)
(* Turns that are where they were, and wait for what they waited for.        *)
Alike(f, g) ==
    /\ g \in TurnTable
    /\ \A u \in Turns : /\ g[u].ph = f[u].ph /\ g[u].pair = f[u].pair
                        /\ g[u].rq = f[u].rq /\ g[u].killed = f[u].killed

LEMMA AlikeTwice == ASSUME NEW f, NEW g, NEW h, Alike(f, g), Alike(g, h) PROVE Alike(f, h)
BY DEF Alike

(* The same of one turn, whichever other field of it is set.                 *)
Like(a, b) == /\ b \in TurnState /\ b.ph = a.ph /\ b.pair = a.pair
              /\ b.rq = a.rq /\ b.killed = a.killed

LEMMA FieldsLike ==
    ASSUME NEW a \in TurnState
    PROVE  /\ Like(a, a)
           /\ \A x \in Requests \cup Turns : Like(a, [a EXCEPT !.dq = x])
           /\ \A x \in {"none", "live", "ask", "again"} : Like(a, [a EXCEPT !.drv = x])
           /\ \A x \in 0..MaxTries : Like(a, [a EXCEPT !.tries = x])
           /\ \A x \in BOOLEAN : Like(a, [a EXCEPT !.settle = x])
           /\ \A x \in BOOLEAN : Like(a, [a EXCEPT !.abort = x])
           /\ \A x \in BOOLEAN : Like(a, [a EXCEPT !.pid = x])
           /\ \A x \in Turns \cup {None} : Like(a, [a EXCEPT !.lid = x])
           /\ \A x \in Outcomes : Like(a, [a EXCEPT !.out = x])
           /\ \A x \in Turns \cup {None} : Like(a, [a EXCEPT !.by = x])
           /\ \A x \in BOOLEAN : Like(a, [a EXCEPT !.gone = x])
<1>1. Like(a, a)
  BY DEF Like
<1>2. \A x \in Requests \cup Turns : Like(a, [a EXCEPT !.dq = x])
  BY DEF Like, TurnState
<1>3. \A x \in {"none", "live", "ask", "again"} : Like(a, [a EXCEPT !.drv = x])
  BY DEF Like, TurnState
<1>4. \A x \in 0..MaxTries : Like(a, [a EXCEPT !.tries = x])
  BY DEF Like, TurnState
<1>5. \A x \in BOOLEAN : Like(a, [a EXCEPT !.settle = x])
  BY DEF Like, TurnState
<1>6. \A x \in BOOLEAN : Like(a, [a EXCEPT !.abort = x])
  BY DEF Like, TurnState
<1>7. \A x \in BOOLEAN : Like(a, [a EXCEPT !.pid = x])
  BY DEF Like, TurnState
<1>8. \A x \in Turns \cup {None} : Like(a, [a EXCEPT !.lid = x])
  BY DEF Like, TurnState
<1>9. \A x \in Outcomes : Like(a, [a EXCEPT !.out = x])
  BY DEF Like, TurnState
<1>10. \A x \in Turns \cup {None} : Like(a, [a EXCEPT !.by = x])
  BY DEF Like, TurnState
<1>11. \A x \in BOOLEAN : Like(a, [a EXCEPT !.gone = x])
  BY DEF Like, TurnState
<1> QED
  BY <1>1, <1>2, <1>3, <1>4, <1>5, <1>6, <1>7, <1>8, <1>9, <1>10, <1>11

LEMMA LikeTwice == ASSUME NEW a, NEW b, NEW c, Like(a, b), Like(b, c) PROVE Like(a, c)
BY DEF Like

LEMMA LikeAlike ==
    ASSUME NEW f \in TurnTable, NEW t \in Turns, NEW a, Like(f[t], a)
    PROVE  Alike(f, [f EXCEPT ![t] = a])
BY DEF Like, Alike, TurnTable

LEMMA InterruptedKeeps ==
    ASSUME NEW f \in TurnTable, NEW r \in Turns
    PROVE  Alike(f, Interrupted(f, r))
<1> DEFINE a == [f[r] EXCEPT !.abort = TRUE]
           b == [a EXCEPT !.drv = "live"]
           c == [b EXCEPT !.tries = 0]
           d == [a EXCEPT !.settle = TRUE]
<1>5. Interrupted(f, r) = [f EXCEPT ![r] = c] \/ Interrupted(f, r) = [f EXCEPT ![r] = d]
  BY DEF Interrupted, TurnTable
<1>1. Like(f[r], a)
  BY FieldsLike DEF TurnTable
<1>a. a \in TurnState
  BY <1>1 DEF Like
<1> HIDE DEF a
<1>2. Like(a, b) /\ Like(a, d)
  BY <1>a, FieldsLike
<1>b. b \in TurnState /\ 0 \in 0..MaxTries
  BY <1>2, CodexAssumption DEF Like
<1> HIDE DEF b
<1>3. Like(b, c)
  BY <1>b, FieldsLike
<1> HIDE DEF c, d
<1>4. Like(f[r], c) /\ Like(f[r], d)
  BY <1>1, <1>2, <1>3, LikeTwice
<1> QED
  BY <1>4, <1>5, LikeAlike

LEMMA SettleKeeps ==
    ASSUME NEW f \in TurnTable, NEW r \in Turns, NEW out \in Outcomes, NEW who \in Turns
    PROVE  Alike(f, Settle(f, r, out, who))
<1> DEFINE a == [f[r] EXCEPT !.out = out]
           b == [a EXCEPT !.by = who]
           c == [b EXCEPT !.settle = FALSE]
<1>5. Settle(f, r, out, who) = [f EXCEPT ![r] = c]
  BY DEF Settle, TurnTable
<1>1. Like(f[r], a)
  BY FieldsLike DEF TurnTable
<1>a. a \in TurnState
  BY <1>1 DEF Like
<1> HIDE DEF a
<1>2. Like(a, b)
  BY <1>a, FieldsLike
<1>b. b \in TurnState
  BY <1>2 DEF Like
<1> HIDE DEF b
<1>3. Like(b, c)
  BY <1>b, FieldsLike
<1> HIDE DEF c
<1>4. Like(f[r], c)
  BY <1>1, <1>2, <1>3, LikeTwice
<1>6. Alike(f, [f EXCEPT ![r] = c])
  BY <1>4, LikeAlike
<1> QED
  BY <1>5, <1>6

LEMMA LeaveKeeps ==
    ASSUME NEW f \in TurnTable, NEW t \in Turns
    PROVE  Alike(f, Leave(f, t))
<1> DEFINE x == f[t].out = "none"
           a == [f[t] EXCEPT !.drv = "none"]
           b == [a EXCEPT !.dq = "none"]
           c == [b EXCEPT !.tries = 0]
           d == [c EXCEPT !.settle = x]
<1>0. x \in BOOLEAN
  OBVIOUS
<1>6. Leave(f, t) = [f EXCEPT ![t] = d]
  BY DEF Leave, TurnTable
<1> HIDE DEF x
<1>1. Like(f[t], a)
  BY FieldsLike DEF TurnTable
<1>a. a \in TurnState /\ "none" \in Requests
  BY <1>1 DEF Like, Requests
<1> HIDE DEF a
<1>2. Like(a, b)
  BY <1>a, FieldsLike
<1>b. b \in TurnState /\ 0 \in 0..MaxTries
  BY <1>2, CodexAssumption DEF Like
<1> HIDE DEF b
<1>3. Like(b, c)
  BY <1>b, FieldsLike
<1>c. c \in TurnState
  BY <1>3 DEF Like
<1> HIDE DEF c
<1>4. Like(c, d)
  BY <1>0, <1>c, FieldsLike
<1> HIDE DEF d
<1>5. Like(f[t], d)
  BY <1>1, <1>2, <1>3, <1>4, LikeTwice
<1> QED
  BY <1>5, <1>6, LikeAlike

(* The loss of the child of pair p: requests are rejected.                   *)
LEMMA OrphanedKeeps ==
    ASSUME NEW f \in TurnTable, NEW p
    PROVE  /\ Orphaned(p, f) \in TurnTable
           /\ \A u \in Turns :
                /\ Orphaned(p, f)[u].ph = f[u].ph /\ Orphaned(p, f)[u].pair = f[u].pair
                /\ Orphaned(p, f)[u].killed = f[u].killed
                /\ \/ Orphaned(p, f)[u].rq = f[u].rq /\ ~(f[u].pair = p /\ f[u].rq \in Pending)
                   \/ f[u].pair = p /\ f[u].rq \in Pending /\ Orphaned(p, f)[u].rq = "error"
<1>1. ASSUME NEW u \in Turns
      PROVE  /\ Orphaned(p, f)[u] \in TurnState
             /\ Orphaned(p, f)[u].ph = f[u].ph /\ Orphaned(p, f)[u].pair = f[u].pair
             /\ Orphaned(p, f)[u].killed = f[u].killed
             /\ \/ Orphaned(p, f)[u].rq = f[u].rq /\ ~(f[u].pair = p /\ f[u].rq \in Pending)
                \/ f[u].pair = p /\ f[u].rq \in Pending /\ Orphaned(p, f)[u].rq = "error"
  <2> DEFINE rq  == IF f[u].pair = p /\ f[u].rq \in Pending THEN "error" ELSE f[u].rq
             dq  == IF f[u].pair = p /\ f[u].dq \in Pending THEN "error" ELSE f[u].dq
             end == IF f[u].abort THEN "interrupted" ELSE "failed"
             g   == [f[u] EXCEPT !.rq = rq]
             h   == [g EXCEPT !.dq = dq]
             a   == [h EXCEPT !.out = end]
             b   == [a EXCEPT !.by = u]
             c   == [b EXCEPT !.settle = FALSE]
  <2>1. f[u] \in TurnState /\ rq \in Requests /\ dq \in Requests \cup Turns /\ end \in Outcomes
    BY DEF TurnTable, TurnState, Requests, Outcomes
  <2>2. \/ rq = f[u].rq /\ ~(f[u].pair = p /\ f[u].rq \in Pending)
        \/ f[u].pair = p /\ f[u].rq \in Pending /\ rq = "error"
    OBVIOUS
  <2>3. Orphaned(p, f)[u] = IF u \in RunningIn(p) THEN c ELSE h
    BY DEF Orphaned, TurnTable
  <2> HIDE DEF rq, dq, end
  <2>4. /\ g \in TurnState /\ g.ph = f[u].ph /\ g.pair = f[u].pair
        /\ g.killed = f[u].killed /\ g.rq = rq
    BY <2>1 DEF TurnState
  <2> HIDE DEF g
  <2>5. Like(g, h)
    BY <2>1, <2>4, FieldsLike
  <2>h. h \in TurnState
    BY <2>5 DEF Like
  <2> HIDE DEF h
  <2>6. Like(h, a)
    BY <2>1, <2>h, FieldsLike
  <2>a. a \in TurnState
    BY <2>6 DEF Like
  <2> HIDE DEF a
  <2>7. Like(a, b)
    BY <2>a, FieldsLike
  <2>b. b \in TurnState
    BY <2>7 DEF Like
  <2> HIDE DEF b
  <2>8. Like(b, c)
    BY <2>b, FieldsLike
  <2> HIDE DEF c
  <2>9. Like(g, c)
    BY <2>5, <2>6, <2>7, <2>8, LikeTwice
  <2> QED
    BY <2>2, <2>3, <2>4, <2>5, <2>9 DEF Like
<1>2. Orphaned(p, f) = [u \in Turns |-> Orphaned(p, f)[u]]
  BY DEF Orphaned
<1> QED
  BY <1>1, <1>2 DEF TurnTable

(* A request is issued: it waits for the handshake, is on the wire, or has   *)
(* failed; a child may be spawned for it.                                    *)
Issued(p, f, t, field, m) ==
    /\ \/ /\ turn' = [f EXCEPT ![t][field] = "sent"]
          /\ wire' = [wire EXCEPT ![p].in = @ \cup {m}]
       \/ /\ turn' = [f EXCEPT ![t][field] = "joined"] \/ turn' = [f EXCEPT ![t][field] = "error"]
          /\ wire' = wire
    /\ wire' \in WireTable
    /\ conn' \in ConnTable /\ \A r \in Pairs : conn'[r].gen = conn[r].gen
    /\ child' = child /\ faults' \in 0..MaxFaults

LEMMA IssueKeeps ==
    ASSUME Basis, NEW p, NEW f, NEW t, NEW field, NEW m \in Questions,
           Issue(p, f, t, field, m)
    PROVE  Issued(p, f, t, field, m)
<1>1. conn \in ConnTable /\ wire \in WireTable /\ faults \in 0..MaxFaults /\ MaxFaults \in Nat
  BY BasisTables, CodexAssumption
<1>2. [wire EXCEPT ![p].in = @ \cup {m}] \in WireTable
  BY <1>1 DEF WireTable
<1>3. /\ [conn EXCEPT ![p].st = "starting"] \in ConnTable
      /\ \A r \in Pairs : [conn EXCEPT ![p].st = "starting"][r].gen = conn[r].gen
  BY <1>1 DEF ConnTable
<1>4. wire' \in WireTable
  BY <1>1, <1>2 DEF Issue
<1>5. conn' \in ConnTable /\ \A r \in Pairs : conn'[r].gen = conn[r].gen
  BY <1>1, <1>3 DEF Issue
<1>6. child' = child /\ faults' \in 0..MaxFaults
  BY <1>1 DEF Issue, Fault
<1>7. \/ /\ turn' = [f EXCEPT ![t][field] = "sent"]
         /\ wire' = [wire EXCEPT ![p].in = @ \cup {m}]
      \/ /\ turn' = [f EXCEPT ![t][field] = "joined"] \/ turn' = [f EXCEPT ![t][field] = "error"]
         /\ wire' = wire
  BY DEF Issue
<1> QED
  BY <1>4, <1>5, <1>6, <1>7 DEF Issued

LEMMA IssuedTurns ==
    ASSUME NEW f \in TurnTable, NEW t \in Turns, NEW x \in {"sent", "joined", "error"}
    PROVE  /\ Alike(f, [f EXCEPT ![t].dq = x])
           /\ [f EXCEPT ![t].rq = x] \in TurnTable
           /\ [f EXCEPT ![t].rq = x][t].rq = x
           /\ \A u \in Turns :
                LET g == [f EXCEPT ![t].rq = x] IN
                /\ g[u].ph = f[u].ph /\ g[u].pair = f[u].pair /\ g[u].killed = f[u].killed
                /\ u # t => g[u] = f[u]
<1>1. x \in Requests
  BY DEF Requests
<1>2. f[t] \in TurnState
  BY DEF TurnTable
<1> DEFINE a == [f[t] EXCEPT !.rq = x]
<1>3. a \in TurnState /\ a.ph = f[t].ph /\ a.pair = f[t].pair /\ a.killed = f[t].killed /\ a.rq = x
  BY <1>1, <1>2 DEF TurnState
<1>4. [f EXCEPT ![t].rq = x] = [f EXCEPT ![t] = a]
  BY DEF TurnTable
<1>5. Alike(f, [f EXCEPT ![t].dq = x])
  <2>1. Like(f[t], [f[t] EXCEPT !.dq = x])
    BY <1>1, <1>2, FieldsLike
  <2>2. [f EXCEPT ![t].dq = x] = [f EXCEPT ![t] = [f[t] EXCEPT !.dq = x]]
    BY DEF TurnTable
  <2> QED
    BY <2>1, <2>2, LikeAlike
<1> HIDE DEF a
<1> QED
  BY <1>3, <1>4, <1>5 DEF TurnTable

(* Turns whose place in the manager may advance, and sessions whose queue,   *)
(* thread and generation stay.                                               *)
Early == {"new", "setup", "queued"}

Still(f, g) ==
    /\ g \in TurnTable
    /\ \A u \in Turns :
         /\ g[u].pair = f[u].pair /\ g[u].killed = f[u].killed
         /\ g[u].ph = f[u].ph \/ (g[u].ph \notin Early /\ f[u].ph \notin Early)
         /\ f[u].ph \in Early => g[u].rq = f[u].rq

SesLike(g) ==
    /\ g \in SesTable
    /\ \A p \in Pairs, s \in Sessions :
         /\ g[p][s].queue = ses[p][s].queue /\ g[p][s].owned = ses[p][s].owned
         /\ g[p][s].block = ses[p][s].block
         /\ g[p][s].thread = ses[p][s].thread /\ g[p][s].gen = ses[p][s].gen

(* No queue moves, and only one with a head waits for a turn.                *)
QueuesStay(g) ==
    \A p \in Pairs, s \in Sessions :
      /\ g[p][s].queue = ses[p][s].queue
      /\ g[p][s].block # None => ses[p][s].queue # <<>>

LEMMA AlikeStill == ASSUME NEW f, NEW g, Alike(f, g) PROVE Still(f, g)
BY DEF Alike, Still

LEMMA StillTwice == ASSUME NEW f, NEW g, NEW h, Still(f, g), Still(g, h) PROVE Still(f, h)
BY DEF Still

LEMMA StillKnown ==
    ASSUME Basis, Still(turn, turn'), QueuesStay(ses')
    PROVE  TurnsKnown' /\ QueueKnown' /\ BlockKnown'
<1>1. ses \in SesTable
  BY BasisTables
<1>2. TurnsKnown'
  BY DEF Basis, TurnsKnown, Still, Early
<1>3. ASSUME NEW p \in Pairs, NEW s \in Sessions, NEW i \in DOMAIN ses[p][s].queue,
             ses[p][s].queue[i] # None
      PROVE  ses[p][s].queue[i] \in Turns
  BY <1>1, <1>3 DEF SesTable, SessionState
<1>4. QueueKnown'
  BY <1>3 DEF Basis, QueueKnown, QueueOf, Still, Early, QueuesStay
<1>5. BlockKnown'
  BY DEF BlockKnown, QueuesStay
<1> QED
  BY <1>2, <1>4, <1>5

LEMMA OrphanedStill ==
    ASSUME Basis, NEW f \in TurnTable, NEW p, Still(turn, f)
    PROVE  Still(turn, Orphaned(p, f))
<1>1. ASSUME NEW u \in Turns, turn[u].ph \in Early PROVE f[u].rq = "none"
  BY <1>1 DEF Basis, TurnsKnown, Still, Early
<1>3. \A u \in Turns : f[u].ph \in Early => f[u].rq \notin Pending
  BY <1>1 DEF Still, Early, Pending
<1>4. Still(f, Orphaned(p, f))
  BY <1>3, OrphanedKeeps DEF Still
<1> QED
  BY <1>4, StillTwice

(* A session of which a field is set.                                        *)
LEMMA SessionFields ==
    ASSUME NEW a \in SessionState
    PROVE  /\ \A x \in BOOLEAN : [a EXCEPT !.owned = x] \in SessionState
           /\ \A x \in BOOLEAN : [a EXCEPT !.thread = x] \in SessionState
           /\ \A x \in Int : [a EXCEPT !.gen = x] \in SessionState
           /\ \A x \in Turns \cup {None} : [a EXCEPT !.running = x] \in SessionState
           /\ \A x \in Turns \cup {None} : [a EXCEPT !.block = x] \in SessionState
           /\ \A x \in BOOLEAN : [a EXCEPT !.drives = x] \in SessionState
           /\ \A x \in Seq(Turns \cup {None}) : [a EXCEPT !.queue = x] \in SessionState
<1> DEFINE Q == Seq(Turns \cup {None})
<1>1. SessionState = [owned : BOOLEAN, thread : BOOLEAN, gen : Int, running : Turns \cup {None},
                      block : Turns \cup {None}, drives : BOOLEAN, queue : Q]
  BY DEF SessionState
<1> HIDE DEF Q
<1>2. \A x \in BOOLEAN : [a EXCEPT !.owned = x] \in SessionState
  BY <1>1
<1>3. \A x \in BOOLEAN : [a EXCEPT !.thread = x] \in SessionState
  BY <1>1
<1>4. \A x \in Int : [a EXCEPT !.gen = x] \in SessionState
  BY <1>1
<1>5. \A x \in Turns \cup {None} : [a EXCEPT !.running = x] \in SessionState
  BY <1>1
<1>6. \A x \in Turns \cup {None} : [a EXCEPT !.block = x] \in SessionState
  BY <1>1
<1>7. \A x \in BOOLEAN : [a EXCEPT !.drives = x] \in SessionState
  BY <1>1
<1>8. \A x \in Q : [a EXCEPT !.queue = x] \in SessionState
  BY <1>1
<1> QED
  BY <1>2, <1>3, <1>4, <1>5, <1>6, <1>7, <1>8 DEF Q

RtStates == [cur : 0..MaxPairs, setup : 0..MaxPairs, made : SUBSET Pairs,
             failed : SUBSET Pairs, last : 0..MaxPairs, changed : BOOLEAN,
             runs : [Sessions -> Turns \cup {None}], waits : Seq(Turns),
             chunk : 0..MaxPairs]

(* The runtime, a field of which is set.                                     *)
LEMMA RtFields ==
    ASSUME NEW a \in RtStates
    PROVE  /\ a.cur \in 0..MaxPairs /\ a.setup \in 0..MaxPairs /\ a.last \in 0..MaxPairs
           /\ a.made \subseteq Pairs /\ a.failed \subseteq Pairs /\ a.changed \in BOOLEAN
           /\ a.runs \in [Sessions -> Turns \cup {None}] /\ a.waits \in Seq(Turns)
           /\ a.chunk \in 0..MaxPairs
           /\ \A x \in 0..MaxPairs : [a EXCEPT !.cur = x] \in RtStates
           /\ \A x \in 0..MaxPairs : [a EXCEPT !.setup = x] \in RtStates
           /\ \A x \in 0..MaxPairs : [a EXCEPT !.last = x] \in RtStates
           /\ \A x \in SUBSET Pairs : [a EXCEPT !.made = x] \in RtStates
           /\ \A x \in SUBSET Pairs : [a EXCEPT !.failed = x] \in RtStates
           /\ \A x \in BOOLEAN : [a EXCEPT !.changed = x] \in RtStates
           /\ \A x \in [Sessions -> Turns \cup {None}] : [a EXCEPT !.runs = x] \in RtStates
           /\ \A x \in Seq(Turns) : [a EXCEPT !.waits = x] \in RtStates
           /\ \A x \in 0..MaxPairs : [a EXCEPT !.chunk = x] \in RtStates
<1> DEFINE W == Seq(Turns)
           R == [Sessions -> Turns \cup {None}]
           P == SUBSET Pairs
<1>1. RtStates = [cur : 0..MaxPairs, setup : 0..MaxPairs, made : P, failed : P,
                  last : 0..MaxPairs, changed : BOOLEAN, runs : R, waits : W,
                  chunk : 0..MaxPairs]
  BY DEF RtStates
<1> HIDE DEF W, R, P
<1>2. /\ a.cur \in 0..MaxPairs /\ a.setup \in 0..MaxPairs /\ a.last \in 0..MaxPairs
      /\ a.made \in P /\ a.failed \in P /\ a.changed \in BOOLEAN
      /\ a.runs \in R /\ a.waits \in W /\ a.chunk \in 0..MaxPairs
  BY <1>1
<1>3. \A x \in 0..MaxPairs : [a EXCEPT !.cur = x] \in RtStates
  BY <1>1
<1>4. \A x \in 0..MaxPairs : [a EXCEPT !.setup = x] \in RtStates
  BY <1>1
<1>5. \A x \in 0..MaxPairs : [a EXCEPT !.last = x] \in RtStates
  BY <1>1
<1>6. \A x \in P : [a EXCEPT !.made = x] \in RtStates
  BY <1>1
<1>7. \A x \in P : [a EXCEPT !.failed = x] \in RtStates
  BY <1>1
<1>8. \A x \in BOOLEAN : [a EXCEPT !.changed = x] \in RtStates
  BY <1>1
<1>9. \A x \in R : [a EXCEPT !.runs = x] \in RtStates
  BY <1>1
<1>10. \A x \in W : [a EXCEPT !.waits = x] \in RtStates
  BY <1>1
<1>11. \A x \in 0..MaxPairs : [a EXCEPT !.chunk = x] \in RtStates
  BY <1>1
<1> QED
  BY <1>2, <1>3, <1>4, <1>5, <1>6, <1>7, <1>8, <1>9, <1>10, <1>11 DEF W, R, P

(* The tables of the connection and of the child keep their types, and the   *)
(* sessions and the turns theirs.                                            *)
Tables == /\ conn' \in ConnTable /\ child' \in KidTable /\ wire' \in WireTable
          /\ stale' \in [Pairs -> SUBSET Turns]

LEMMA LoseKeeps ==
    ASSUME Basis, NEW p \in Pairs, NEW f \in TurnTable, Still(turn, f), NEW reaps \in BOOLEAN,
           Lose(p, f, reaps)
    PROVE  /\ Still(turn, turn') /\ SesLike(ses') /\ Tables
           /\ conn'[p].gen = conn[p].gen + 1
           /\ \A r \in Pairs \ {p} : conn'[r].gen = conn[r].gen
<1>0. /\ turn \in TurnTable /\ ses \in SesTable /\ conn \in ConnTable /\ wire \in WireTable
      /\ child \in KidTable /\ stale \in [Pairs -> SUBSET Turns]
  BY BasisTables DEF Basis, CodexTypeOK
<1>1. Still(turn, turn')
  BY OrphanedStill DEF Lose
<1>2. RunningIn(p) \subseteq Turns
  BY <1>0 DEF RunningIn, SesTable, SessionState
<1>3. SesLike(ses')
  <2> DEFINE g(s) == [ses[p][s] EXCEPT !.running = None]
  <2>1. ASSUME NEW s \in Sessions
        PROVE  /\ g(s) \in SessionState /\ g(s).queue = ses[p][s].queue
               /\ g(s).owned = ses[p][s].owned /\ g(s).thread = ses[p][s].thread
               /\ g(s).gen = ses[p][s].gen /\ g(s).block = ses[p][s].block
    <3>1. ses[p][s] \in SessionState
      BY <1>0 DEF SesTable
    <3>2. g(s) \in SessionState
      BY <3>1, SessionFields
    <3> QED
      BY <3>1, <3>2 DEF SessionState
  <2>2. ses' = [ses EXCEPT ![p] = [s \in Sessions |-> g(s)]]
    BY DEF Lose
  <2> HIDE DEF g
  <2> QED
    BY <1>0, <2>1, <2>2 DEF SesLike, SesTable
<1>4. /\ conn' \in ConnTable /\ conn'[p].gen = conn[p].gen + 1
      /\ \A r \in Pairs \ {p} : conn'[r].gen = conn[r].gen
  BY <1>0 DEF Lose, ConnTable
<1>5. child' \in KidTable
  BY <1>0 DEF Lose, KidTable, NewChild
<1>6. wire' \in WireTable
  BY <1>0 DEF Lose, WireTable, NoLines
<1>7. stale' \in [Pairs -> SUBSET Turns]
  <2> DEFINE more == UNION {StaleAfter(p, t, IF f[t].abort THEN "interrupted" ELSE "failed") :
                              t \in RunningIn(p)}
  <2>1. ASSUME NEW t \in Turns, NEW out PROVE StaleAfter(p, t, out) \subseteq Turns
    BY <1>0 DEF StaleAfter, TurnTable, TurnState
  <2>2. more \subseteq Turns
    BY <1>2, <2>1
  <2>3. stale' = [stale EXCEPT ![p] = @ \cup more]
    BY DEF Lose
  <2> HIDE DEF more
  <2> QED
    BY <1>0, <2>2, <2>3
<1> QED
  BY <1>1, <1>3, <1>4, <1>5, <1>6, <1>7 DEF Tables

LEMMA BasisFrom ==
    ASSUME turn' \in TurnTable, ses' \in SesTable, Tables, faults' \in 0..MaxFaults,
           rt' \in RtStates, TurnsKnown', QueueKnown', BlockKnown'
    PROVE  Basis'
BY DEF Basis, CodexTypeOK, Tables, TurnTable, SesTable, ConnTable, KidTable, RtStates

LEMMA BasisParts ==
    ASSUME Basis
    PROVE  /\ turn \in TurnTable /\ ses \in SesTable /\ conn \in ConnTable
           /\ child \in KidTable /\ wire \in WireTable /\ faults \in 0..MaxFaults
           /\ stale \in [Pairs -> SUBSET Turns] /\ rt \in RtStates
           /\ TurnsKnown /\ QueueKnown /\ BlockKnown
BY BasisTables DEF Basis, CodexTypeOK, RtStates

(* A step that leaves every queue alone.                                     *)
LEMMA StillBasis ==
    ASSUME Basis, Still(turn, turn'), ses' \in SesTable, Tables, faults' \in 0..MaxFaults,
           rt' \in RtStates, QueuesStay(ses')
    PROVE  Basis'
<1>1. turn' \in TurnTable
  BY DEF Still
<1> QED
  BY <1>1, StillKnown, BasisFrom

(* Queued turns stay so, but for x.                                          *)
QueuedStay(x) ==
    \A u \in Turns : u # x /\ turn[u].ph = "queued" =>
      turn'[u].ph = "queued" /\ turn'[u].pair = turn[u].pair

(* The head of a queue leaves it.                                            *)
LEMMA QueueTail ==
    ASSUME Basis, NEW p \in Pairs, NEW s \in Sessions, ses[p][s].queue # <<>>,
           ses'[p][s].queue = Tail(ses[p][s].queue),
           \A o \in Pairs, z \in Sessions : o # p \/ z # s => ses'[o][z].queue = ses[o][z].queue,
           QueuedStay(Head(ses[p][s].queue))
    PROVE  QueueKnown'
<1> DEFINE q == ses[p][s].queue
           x == Head(q)
<1>1. q \in Seq(Turns \cup {None}) /\ Len(q) \in Nat \ {0}
  BY BasisTables, EmptySeq, LenProperties DEF SesTable, SessionState
<1>2. x = q[1] /\ 1 \in DOMAIN q
  BY <1>1
<1>3. /\ DOMAIN Tail(q) = 1..(Len(q) - 1)
      /\ \A i \in 1..(Len(q) - 1) : Tail(q)[i] = q[i + 1] /\ i + 1 \in DOMAIN q /\ i + 1 # 1
  BY <1>1
<1>4. ASSUME NEW o \in Pairs, NEW z \in Sessions, NEW i \in DOMAIN ses[o][z].queue,
             ses[o][z].queue[i] # None, o # p \/ z # s \/ i # 1
      PROVE  /\ turn'[ses[o][z].queue[i]].ph = "queued"
             /\ turn'[ses[o][z].queue[i]].pair = o /\ SessionOf[ses[o][z].queue[i]] = z
  <2> DEFINE u == ses[o][z].queue[i]
  <2>1. u \in Turns
    BY <1>4, BasisTables DEF SesTable, SessionState
  <2>2. turn[u].pair = o /\ SessionOf[u] = z /\ turn[u].ph = "queued"
    BY <1>4 DEF Basis, QueueKnown, QueueOf
  <2>3. u # x
    <3> SUFFICES ASSUME u = x PROVE FALSE
      OBVIOUS
    <3>1. turn[q[1]].pair = p /\ SessionOf[q[1]] = s
      BY <1>2, <1>4 DEF Basis, QueueKnown, QueueOf
    <3>2. o = p /\ z = s
      BY <1>2, <2>2, <3>1
    <3> QED
      BY <1>2, <1>4, <3>2 DEF Basis, QueueKnown, QueueOf
  <2> QED
    BY <2>1, <2>2, <2>3 DEF QueuedStay
<1> HIDE DEF x
<1>5. ASSUME NEW o \in Pairs, NEW z \in Sessions, o # p \/ z # s
      PROVE  QueueOf(turn', ses'[o][z].queue, o, z)
  BY <1>4, <1>5 DEF Basis, QueueKnown, QueueOf
<1>6. QueueOf(turn', ses'[p][s].queue, p, s)
  <2>1. \A i \in 1..(Len(q) - 1) : Tail(q)[i] # None =>
          /\ turn'[Tail(q)[i]].pair = p /\ SessionOf[Tail(q)[i]] = s
          /\ turn'[Tail(q)[i]].ph = "queued"
    BY <1>3, <1>4
  <2>2. \A i, j \in 1..(Len(q) - 1) : Tail(q)[i] # None /\ Tail(q)[i] = Tail(q)[j] => i = j
    <3> SUFFICES ASSUME NEW i \in 1..(Len(q) - 1), NEW j \in 1..(Len(q) - 1),
                        Tail(q)[i] # None, Tail(q)[i] = Tail(q)[j]
                 PROVE  i = j
      OBVIOUS
    <3>1. i + 1 = j + 1
      BY <1>3 DEF Basis, QueueKnown, QueueOf
    <3> QED
      BY <3>1, <1>1
  <2> QED
    BY <1>3, <2>1, <2>2 DEF QueueOf
<1> QED
  BY <1>5, <1>6 DEF QueueKnown

(* What an append leaves in the queue.                                       *)
LEMMA AppendParts ==
    ASSUME NEW S, NEW q \in Seq(S), NEW e \in S
    PROVE  /\ DOMAIN Append(q, e) = 1..(Len(q) + 1) /\ Append(q, e)[Len(q) + 1] = e
           /\ DOMAIN q = 1..Len(q) /\ \A i \in 1..Len(q) : Append(q, e)[i] = q[i]
OBVIOUS

(* A queue that was appended to is not empty.                                *)
LEMMA AppendNotEmpty ==
    ASSUME NEW S, NEW q \in Seq(S), NEW e \in S PROVE Append(q, e) # <<>>
  BY AppendProperties

(* A turn of the session, or an abort, is appended to a queue.               *)
LEMMA QueueAppend ==
    ASSUME Basis, NEW p \in Pairs, NEW s \in Sessions, NEW x \in Turns \cup {None},
           ses'[p][s].queue = Append(ses[p][s].queue, x),
           \A o \in Pairs, z \in Sessions : o # p \/ z # s => ses'[o][z].queue = ses[o][z].queue,
           QueuedStay(None),
           x # None => /\ turn[x].ph # "queued" /\ turn'[x].ph = "queued"
                       /\ turn'[x].pair = p /\ SessionOf[x] = s
    PROVE  QueueKnown'
<1> DEFINE q == ses[p][s].queue
<1>1. q \in Seq(Turns \cup {None}) /\ Len(q) \in Nat
  BY BasisTables, LenProperties DEF SesTable, SessionState
<1>2. ASSUME NEW o \in Pairs, NEW z \in Sessions, NEW i \in DOMAIN ses[o][z].queue,
             ses[o][z].queue[i] # None
      PROVE  /\ turn'[ses[o][z].queue[i]].ph = "queued" /\ turn[ses[o][z].queue[i]].ph = "queued"
             /\ turn'[ses[o][z].queue[i]].pair = o /\ SessionOf[ses[o][z].queue[i]] = z
  <2> DEFINE u == ses[o][z].queue[i]
  <2>1. u \in Turns
    BY <1>2, BasisTables DEF SesTable, SessionState
  <2>2. turn[u].pair = o /\ SessionOf[u] = z /\ turn[u].ph = "queued"
    BY <1>2 DEF Basis, QueueKnown, QueueOf
  <2> QED
    BY <1>2, <2>1, <2>2 DEF QueuedStay
<1>3. ASSUME NEW o \in Pairs, NEW z \in Sessions, o # p \/ z # s
      PROVE  QueueOf(turn', ses'[o][z].queue, o, z)
  BY <1>2, <1>3 DEF Basis, QueueKnown, QueueOf
<1>4. QueueOf(turn', ses'[p][s].queue, p, s)
  <2> DEFINE w == Append(q, x)
  <2>1. /\ DOMAIN w = 1..(Len(q) + 1) /\ w[Len(q) + 1] = x /\ DOMAIN q = 1..Len(q)
        /\ \A i \in 1..Len(q) : w[i] = q[i]
    BY <1>1, AppendParts
  <2> HIDE DEF w
  <2>2. \A i \in 1..Len(q) : q[i] # None =>
          turn'[q[i]].pair = p /\ SessionOf[q[i]] = s /\ turn'[q[i]].ph = "queued" /\ q[i] # x
    BY <1>2, <2>1
  <2>3. \A i, j \in 1..Len(q) : q[i] # None /\ q[i] = q[j] => i = j
    BY <2>1 DEF Basis, QueueKnown, QueueOf
  <2>4. \A i \in DOMAIN w : i \in 1..Len(q) \/ i = Len(q) + 1
    BY <1>1, <2>1
  <2>5. \A i \in DOMAIN w : w[i] # None =>
          turn'[w[i]].pair = p /\ SessionOf[w[i]] = s /\ turn'[w[i]].ph = "queued"
    BY <2>1, <2>2, <2>4
  <2>6. \A i, j \in DOMAIN w : w[i] # None /\ w[i] = w[j] => i = j
    BY <2>1, <2>2, <2>3, <2>4
  <2>7. ses'[p][s].queue = w
    BY DEF w
  <2> QED
    BY <2>5, <2>6, <2>7 DEF QueueOf
<1> QED
  BY <1>3, <1>4 DEF QueueKnown

(* The pair is retired: its child, if there is one, is lost.                 *)
LEMMA RetireKeeps ==
    ASSUME Basis, NEW f \in TurnTable, Still(turn, f), NEW r \in RtStates, RetirePair(f, r)
    PROVE  /\ Still(turn, turn') /\ SesLike(ses') /\ Tables
           /\ rt' = [r EXCEPT !.cur = 0, !.setup = 0, !.changed = FALSE] /\ rt' \in RtStates
           /\ \/ turn' = f /\ UNCHANGED <<ses, wire, child>>
                 /\ \A p \in Pairs : conn'[p].gen = conn[p].gen
              \/ rt.cur \in Pairs /\ Lose(rt.cur, f, FALSE)
<1>0. /\ ses \in SesTable /\ conn \in ConnTable /\ wire \in WireTable /\ rt \in RtStates
      /\ child \in KidTable /\ stale \in [Pairs -> SUBSET Turns]
  BY BasisParts
<1>1. rt' = [r EXCEPT !.cur = 0, !.setup = 0, !.changed = FALSE] /\ rt' \in RtStates
  <2> DEFINE a == [r EXCEPT !.cur = 0]
             b == [a EXCEPT !.setup = 0]
             c == [b EXCEPT !.changed = FALSE]
  <2>1. rt' = [r EXCEPT !.cur = 0, !.setup = 0, !.changed = FALSE] /\ rt' = c
    BY DEF RetirePair
  <2>2. 0 \in 0..MaxPairs
    BY CodexAssumption
  <2>3. a \in RtStates
    BY <2>2, RtFields
  <2> HIDE DEF a
  <2>4. b \in RtStates
    BY <2>2, <2>3, RtFields
  <2> HIDE DEF b
  <2>5. c \in RtStates
    BY <2>4, RtFields
  <2> QED
    BY <2>1, <2>5
<1>a. rt.cur # 0 => rt.cur \in Pairs
  <2>1. \A x \in 0..MaxPairs : x # 0 => x \in Pairs
    BY CodexAssumption DEF Pairs
  <2> QED
    BY <1>0, <2>1, RtFields
<1>2. CASE rt.cur # 0 /\ conn[rt.cur].st # "none"
  <2>1. rt.cur \in Pairs
    BY <1>a, <1>2
  <2>2. Lose(rt.cur, f, FALSE)
    BY <1>2, Zenon DEF RetirePair
  <2> QED
    BY <1>1, <2>1, <2>2, LoseKeeps
<1>3. CASE ~(rt.cur # 0 /\ conn[rt.cur].st # "none")
  <2>1. /\ turn' = f /\ UNCHANGED <<ses, stale, wire, child>>
        /\ \/ conn' = conn
           \/ rt.cur \in Pairs /\ conn' = [conn EXCEPT ![rt.cur].reaper = FALSE]
    <3>1. /\ turn' = f /\ UNCHANGED <<ses, stale, wire, child>>
          /\ conn' = IF rt.cur = 0 THEN conn ELSE [conn EXCEPT ![rt.cur].reaper = FALSE]
      BY <1>3, Zenon DEF RetirePair
    <3> QED
      BY <1>a, <3>1
  <2>2. conn' \in ConnTable /\ \A p \in Pairs : conn'[p].gen = conn[p].gen
    <3> DEFINE c == [conn[rt.cur] EXCEPT !.reaper = FALSE]
    <3>1. CASE rt.cur \in Pairs /\ conn' = [conn EXCEPT ![rt.cur].reaper = FALSE]
      <4>1. conn' = [conn EXCEPT ![rt.cur] = c] /\ c.gen = conn[rt.cur].gen
            /\ c \in [st : {"none", "starting", "ready"}, gen : Nat, reaper : BOOLEAN,
                      slow : BOOLEAN]
        BY <1>0, <3>1 DEF ConnTable
      <4> HIDE DEF c
      <4> QED
        BY <1>0, <3>1, <4>1 DEF ConnTable
    <3> QED
      BY <1>0, <2>1, <3>1
  <2>3. SesLike(ses) /\ Tables
    BY <1>0, <2>1, <2>2 DEF SesLike, Tables
  <2> QED
    BY <1>1, <2>1, <2>2, <2>3
<1> QED
  BY <1>2, <1>3

LEMMA LikeQueues ==
    ASSUME Basis, NEW g, SesLike(g)
    PROVE  g \in SesTable /\ QueuesStay(g)
BY DEF SesLike, Basis, BlockKnown, QueuesStay

LEMMA SameStill ==
    ASSUME Basis
    PROVE  Still(turn, turn) /\ SesLike(ses) /\ (KeepPair => Tables /\ SesLike(ses'))
BY BasisParts DEF Still, SesLike, KeepPair, Tables

LEMMA GoneKeeps ==
    ASSUME Basis, NEW t \in Turns
    PROVE  Alike(turn, [turn EXCEPT ![t].gone = TRUE, ![t].by = None])
<1> DEFINE a == [turn[t] EXCEPT !.gone = TRUE]
           b == [a EXCEPT !.by = None]
<1>0. turn \in TurnTable
  BY BasisParts
<1>1. [turn EXCEPT ![t].gone = TRUE, ![t].by = None] = [turn EXCEPT ![t] = b]
  BY <1>0 DEF TurnTable
<1>2. Like(turn[t], a)
  BY <1>0, FieldsLike DEF TurnTable
<1>3. a \in TurnState
  BY <1>2 DEF Like
<1> HIDE DEF a
<1>4. Like(a, b)
  BY <1>3, FieldsLike
<1> HIDE DEF b
<1>5. Like(turn[t], b)
  BY <1>2, <1>4, LikeTwice
<1> QED
  BY <1>0, <1>1, <1>5, LikeAlike

LEMMA RunsKeep ==
    ASSUME Basis, NEW t \in Turns
    PROVE  (IF rt.runs[SessionOf[t]] = t
              THEN [rt EXCEPT !.runs[SessionOf[t]] = None] ELSE rt) \in RtStates
<1>1. rt \in RtStates
  BY BasisParts
<1>2. /\ rt.runs \in [Sessions -> Turns \cup {None}]
      /\ \A x \in [Sessions -> Turns \cup {None}] : [rt EXCEPT !.runs = x] \in RtStates
  BY <1>1, RtFields
<1>3. [rt EXCEPT !.runs = [rt.runs EXCEPT ![SessionOf[t]] = None]] \in RtStates
  BY <1>2
<1> QED
  BY <1>1, <1>3

LEMMA CompleteRunBasis == ASSUME Basis, NEW t \in Turns, CompleteRun(t) PROVE Basis'
<1> DEFINE f == [turn EXCEPT ![t].gone = TRUE, ![t].by = None]
           r == IF rt.runs[SessionOf[t]] = t
                  THEN [rt EXCEPT !.runs[SessionOf[t]] = None] ELSE rt
<1>0. turn \in TurnTable /\ rt \in RtStates /\ faults \in 0..MaxFaults
  BY BasisParts
<1>1. Alike(turn, f)
  BY GoneKeeps
<1>3. r \in RtStates
  BY RunsKeep
<1>4. RetirePair(f, r) \/ (turn' = f /\ rt' = r /\ KeepPair)
  BY DEF CompleteRun
<1>5. faults' = faults
  BY DEF CompleteRun
<1> HIDE DEF f, r
<1>2. Still(turn, f) /\ f \in TurnTable
  BY <1>1, AlikeStill DEF Alike
<1>6. CASE RetirePair(f, r)
  BY <1>0, <1>2, <1>3, <1>5, <1>6, RetireKeeps, LikeQueues, StillBasis
<1>7. CASE turn' = f /\ rt' = r /\ KeepPair
  BY <1>0, <1>2, <1>3, <1>5, <1>7, SameStill, LikeQueues, StillBasis
<1> QED
  BY <1>4, <1>6, <1>7

LEMMA RetiresBasis == ASSUME Basis, RuntimeChanged \/ AccountChanged PROVE Basis'
<1>0. turn \in TurnTable /\ rt \in RtStates /\ faults \in 0..MaxFaults /\ MaxFaults \in Nat
      /\ conn \in ConnTable
  BY BasisParts, CodexAssumption
<1>1. faults' \in 0..MaxFaults
  BY <1>0 DEF RuntimeChanged, AccountChanged, Fault
<1>2. Still(turn, turn)
  BY SameStill
<1>3. CASE RetirePair(turn, rt)
  BY <1>0, <1>1, <1>2, <1>3, RetireKeeps, LikeQueues, StillBasis
<1>4. CASE ~RetirePair(turn, rt)
  <2>1. rt' = [rt EXCEPT !.changed = TRUE] /\ rt' \in RtStates
    BY <1>0, <1>4 DEF RuntimeChanged, AccountChanged, RtStates
  <2>2. CASE rt.cur # 0 /\ Lose(rt.cur, turn, conn[rt.cur].reaper)
    <3>1. rt.cur \in Pairs
      BY <1>0, <2>2, CodexAssumption DEF RtStates, Pairs
    <3>2. conn[rt.cur].reaper \in BOOLEAN
      BY <1>0, <3>1 DEF ConnTable
    <3> QED
      BY <1>0, <1>1, <1>2, <2>1, <2>2, <3>1, <3>2, LoseKeeps, LikeQueues, StillBasis
  <2>3. CASE UNCHANGED turn /\ KeepPair
    BY <1>0, <1>1, <1>2, <2>1, <2>3, SameStill, LikeQueues, StillBasis
  <2> QED
    BY <1>4, <2>2, <2>3 DEF RuntimeChanged, AccountChanged
<1> QED
  BY <1>3, <1>4

(* A run starts and a pair is created.                                       *)
LEMMA StartRunBasis == ASSUME Basis, NEW t \in Turns, StartRun(t) PROVE Basis'
<1> DEFINE p == IF rt.setup # 0 THEN rt.setup ELSE rt.last + 1
<1>0. turn \in TurnTable /\ rt \in RtStates /\ faults \in 0..MaxFaults /\ ses \in SesTable
      /\ turn[t].ph = "new" /\ SessionOf[t] \in Sessions /\ TurnsKnown /\ MaxPairs \in Nat
  BY BasisParts, CodexAssumption DEF StartRun
<1>1. p \in Pairs
  BY <1>0 DEF StartRun, RtStates, Pairs
<1>2. /\ rt' = [rt EXCEPT !.setup = p, !.last = IF p > @ THEN p ELSE @,
                          !.runs[SessionOf[t]] = t, !.waits = Append(@, t)]
      /\ turn' = [turn EXCEPT ![t].ph = "setup", ![t].pair = p]
      /\ KeepPair /\ faults' = faults
  BY DEF StartRun
<1> HIDE DEF p
<1>3. rt' \in RtStates
  <2>1. Append(rt.waits, t) \in Seq(Turns) /\ p \in 0..MaxPairs
    BY <1>0, <1>1 DEF RtStates, Pairs
  <2>2. [rt.runs EXCEPT ![SessionOf[t]] = t] \in [Sessions -> Turns \cup {None}]
    BY <1>0 DEF RtStates
  <2>3. (IF p > rt.last THEN p ELSE rt.last) \in 0..MaxPairs
    BY <1>0, <2>1 DEF RtStates
  <2> QED
    BY <1>0, <1>2, <2>1, <2>2, <2>3 DEF RtStates
<1>4. /\ turn' \in TurnTable /\ turn'[t].ph = "setup" /\ turn'[t].pair = p
      /\ turn'[t].rq = turn[t].rq /\ turn'[t].killed = turn[t].killed
      /\ \A u \in Turns \ {t} : turn'[u] = turn[u]
  <2> DEFINE a == [turn[t] EXCEPT !.ph = "setup", !.pair = p]
  <2>1. turn[t] \in TurnState /\ p \in 0..MaxPairs
    BY <1>0, <1>1 DEF TurnTable, Pairs
  <2>2. /\ a \in TurnState /\ a.ph = "setup" /\ a.pair = p
        /\ a.rq = turn[t].rq /\ a.killed = turn[t].killed
    BY <2>1 DEF TurnState
  <2>3. turn' = [turn EXCEPT ![t] = a]
    BY <1>0, <1>2 DEF TurnTable
  <2> HIDE DEF a
  <2> QED
    BY <1>0, <2>2, <2>3 DEF TurnTable
<1>5. TurnsKnown'
  BY <1>0, <1>1, <1>4 DEF TurnsKnown
<1>6. QueueKnown'
  <2>1. ses' = ses /\ QueueKnown
    BY <1>2, BasisParts DEF KeepPair
  <2>2. ASSUME NEW o \in Pairs, NEW z \in Sessions, NEW i \in DOMAIN ses[o][z].queue,
               ses[o][z].queue[i] # None
        PROVE  turn'[ses[o][z].queue[i]] = turn[ses[o][z].queue[i]]
    <3>1. ses[o][z].queue[i] \in Turns
      BY <1>0, <2>2 DEF SesTable, SessionState
    <3>2. turn[ses[o][z].queue[i]].ph = "queued"
      BY <2>1, <2>2 DEF QueueKnown, QueueOf
    <3> QED
      BY <1>0, <1>4, <3>1, <3>2
  <2> QED
    BY <2>1, <2>2 DEF QueueKnown, QueueOf
<1> QED
  BY <1>0, <1>2, <1>3, <1>4, <1>5, <1>6, SameStill, BasisParts, BasisFrom DEF SesLike, KeepPair, BlockKnown

LEMMA CreatePairBasis == ASSUME Basis, NEW p \in Pairs, CreatePair(p) PROVE Basis'
<1>0. rt \in RtStates /\ faults \in 0..MaxFaults /\ MaxFaults \in Nat
  BY BasisParts, CodexAssumption
<1>1. KeepPair /\ turn' = turn /\ faults' \in 0..MaxFaults
  BY <1>0 DEF CreatePair, Fault
<1>2. rt' \in RtStates
  <2>1. p \in 0..MaxPairs /\ 0 \in 0..MaxPairs
    BY CodexAssumption DEF Pairs
  <2>2. \/ rt' = [rt EXCEPT !.made = @ \cup {p}, !.cur = p]
        \/ rt' = [rt EXCEPT !.failed = @ \cup {p}, !.setup = IF @ = p THEN 0 ELSE @]
    BY DEF CreatePair
  <2>3. rt.made \cup {p} \in SUBSET Pairs /\ rt.failed \cup {p} \in SUBSET Pairs
        /\ (IF rt.setup = p THEN 0 ELSE rt.setup) \in 0..MaxPairs
    BY <1>0, <2>1, RtFields
  <2>4. ASSUME NEW x \in SUBSET Pairs, NEW y \in 0..MaxPairs
        PROVE  /\ [rt EXCEPT !.made = x, !.cur = y] \in RtStates
               /\ [rt EXCEPT !.failed = x, !.setup = y] \in RtStates
    <3>1. [rt EXCEPT !.made = x] \in RtStates /\ [rt EXCEPT !.failed = x] \in RtStates
      BY <1>0, RtFields
    <3>2. /\ [[rt EXCEPT !.made = x] EXCEPT !.cur = y] \in RtStates
          /\ [[rt EXCEPT !.failed = x] EXCEPT !.setup = y] \in RtStates
      BY <3>1, RtFields
    <3> QED
      BY <3>2
  <2> QED
    BY <2>1, <2>2, <2>3, <2>4
<1> QED
  BY <1>1, <1>2, SameStill, LikeQueues, StillBasis

(* A kill is asked for.                                                      *)
LEMMA KillBasis == ASSUME Basis, NEW t \in Turns, Kill(t) PROVE Basis'
<1>0. /\ turn \in TurnTable /\ rt \in RtStates /\ faults \in 0..MaxFaults /\ ses \in SesTable
      /\ TurnsKnown /\ QueueKnown /\ turn[t].ph # "new"
  BY BasisParts DEF Kill
<1>1. KeepPair /\ faults' = faults /\ rt' = rt
  BY DEF Kill
<1>2. PICK x \in -1..MaxPairs : turn' = [turn EXCEPT ![t].killed = x]
  <2>1. rt.setup \in -1..MaxPairs /\ -1 \in -1..MaxPairs
    BY <1>0, RtFields, CodexAssumption
  <2> QED
    BY <2>1 DEF Kill
<1>3. /\ turn' \in TurnTable
      /\ turn'[t].ph = turn[t].ph /\ turn'[t].pair = turn[t].pair /\ turn'[t].rq = turn[t].rq
      /\ \A u \in Turns \ {t} : turn'[u] = turn[u]
  <2> DEFINE a == [turn[t] EXCEPT !.killed = x]
  <2>1. /\ a \in TurnState /\ a.ph = turn[t].ph /\ a.pair = turn[t].pair /\ a.rq = turn[t].rq
    BY <1>0 DEF TurnTable, TurnState
  <2>2. turn' = [turn EXCEPT ![t] = a]
    BY <1>0, <1>2 DEF TurnTable
  <2> HIDE DEF a
  <2> QED
    BY <1>0, <2>1, <2>2 DEF TurnTable
<1>4. TurnsKnown'
  BY <1>0, <1>3 DEF TurnsKnown
<1>5. QueueKnown'
  <2>1. \A o \in Pairs, z \in Sessions : \A i \in DOMAIN ses[o][z].queue :
          ses[o][z].queue[i] # None => ses[o][z].queue[i] \in Turns
    BY <1>0 DEF SesTable, SessionState
  <2>2. ses' = ses /\ \A u \in Turns : turn'[u].ph = turn[u].ph /\ turn'[u].pair = turn[u].pair
    BY <1>1, <1>3 DEF KeepPair
  <2> QED
    BY <1>0, <2>1, <2>2 DEF QueueKnown, QueueOf
<1> QED
  BY <1>0, <1>1, <1>3, <1>4, <1>5, SameStill, BasisParts, BasisFrom DEF SesLike, KeepPair, BlockKnown

(* Steps that leave the wire, the connections and the children alone.        *)
LEMMA SameTables ==
    ASSUME Basis, UNCHANGED <<conn, child, wire>>, stale' \in [Pairs -> SUBSET Turns]
    PROVE  Tables
BY BasisParts DEF Tables

LEMMA IssuedTables ==
    ASSUME Basis, NEW p, NEW f, NEW t, NEW field, NEW m, Issued(p, f, t, field, m),
           stale' = stale
    PROVE  Tables /\ faults' \in 0..MaxFaults
BY BasisParts DEF Issued, Tables, KidTable

(* An interrupt is sent.                                                     *)
LEMMA IssuedInterrupt ==
    ASSUME Basis, NEW p, NEW f, NEW t \in Turns, NEW m, Alike(turn, f), Issued(p, f, t, "dq", m)
    PROVE  Alike(turn, turn')
<1>1. PICK x \in {"sent", "joined", "error"} : turn' = [f EXCEPT ![t].dq = x]
  BY DEF Issued
<1>2. f \in TurnTable
  BY DEF Alike
<1>3. Alike(f, turn')
  BY <1>1, <1>2, IssuedTurns
<1> QED
  BY <1>3, AlikeTwice

LEMMA StaleTurns == ASSUME Basis, NEW p \in Pairs, NEW r \in Turns, NEW out
                    PROVE  StaleAfter(p, r, out) \subseteq Turns
BY BasisParts DEF StaleAfter, TurnTable, TurnState

LEMMA RunningKeeps ==
    ASSUME Basis, NEW p, NEW s, NEW x \in Turns \cup {None}
    PROVE  SesLike([ses EXCEPT ![p][s].running = x])
<1> DEFINE a == [ses[p][s] EXCEPT !.running = x]
<1>0. ses \in SesTable
  BY BasisParts
<1>1. CASE p \in Pairs /\ s \in Sessions
  <2>1. ses[p][s] \in SessionState /\ a \in SessionState
    BY <1>0, <1>1, SessionFields DEF SesTable
  <2>2. /\ a.queue = ses[p][s].queue /\ a.owned = ses[p][s].owned
        /\ a.thread = ses[p][s].thread /\ a.gen = ses[p][s].gen /\ a.block = ses[p][s].block
    BY <2>1 DEF SessionState
  <2>3. [ses EXCEPT ![p][s].running = x] = [ses EXCEPT ![p] = [ses[p] EXCEPT ![s] = a]]
    BY <1>0, <1>1 DEF SesTable
  <2> HIDE DEF a
  <2> QED
    BY <1>0, <1>1, <2>1, <2>2, <2>3 DEF SesLike, SesTable
<1>2. CASE p \in Pairs /\ s \notin Sessions
  <2>1. [ses[p] EXCEPT ![s].running = x] = ses[p]
    BY <1>0, <1>2 DEF SesTable
  <2>2. [ses EXCEPT ![p][s].running = x] = ses
    BY <1>0, <1>2, <2>1 DEF SesTable
  <2> QED
    BY <1>0, <2>2 DEF SesLike
<1>3. CASE p \notin Pairs
  <2>1. [ses EXCEPT ![p][s].running = x] = ses
    BY <1>0, <1>3 DEF SesTable
  <2> QED
    BY <1>0, <2>1 DEF SesLike
<1> QED
  BY <1>1, <1>2, <1>3

LEMMA FinishKeeps ==
    ASSUME Basis, NEW p \in Pairs, NEW t \in Turns, NEW out, NEW who,
           FinishRunning(p, t, out, who)
    PROVE  SesLike(ses') /\ stale' \in [Pairs -> SUBSET Turns]
<1> DEFINE r == ses[p][SessionOf[t]].running
<1>0. ses \in SesTable /\ stale \in [Pairs -> SUBSET Turns] /\ SessionOf[t] \in Sessions
  BY BasisParts, CodexAssumption
<1>1. r \in Turns \cup {None}
  BY <1>0 DEF SesTable, SessionState
<1>2. CASE r = None
  BY <1>0, <1>2 DEF FinishRunning, SesLike
<1>3. CASE r # None
  <2>1. /\ stale' = [stale EXCEPT ![p] = StaleAfter(p, r, out)]
        /\ ses' = [ses EXCEPT ![p][SessionOf[t]].running = None]
    BY <1>3 DEF FinishRunning
  <2>2. StaleAfter(p, r, out) \subseteq Turns
    BY <1>1, <1>3, StaleTurns
  <2> QED
    BY <1>0, <2>1, <2>2, RunningKeeps
<1> QED
  BY <1>2, <1>3

LEMMA GiveUpBasis == ASSUME Basis, NEW t \in Turns, GiveUp(t) PROVE Basis'
<1>0. turn \in TurnTable /\ rt \in RtStates /\ faults \in 0..MaxFaults
      /\ stale \in [Pairs -> SUBSET Turns]
  BY BasisParts
<1> DEFINE p == turn[t].pair
<1>1. /\ turn' = Settle(turn, t, "interrupted", t)
      /\ stale' = [stale EXCEPT ![p] = StaleAfter(p, t, "interrupted")]
      /\ ses' = [ses EXCEPT ![p][SessionOf[t]].running = None]
      /\ UNCHANGED <<conn, wire, child, faults, rt>>
  BY DEF GiveUp
<1>2. Still(turn, turn')
  BY <1>0, <1>1, SettleKeeps, AlikeStill DEF Outcomes
<1>3. stale' \in [Pairs -> SUBSET Turns]
  <2>1. CASE p \in Pairs
    BY <1>0, <1>1, <2>1, StaleTurns
  <2>2. CASE p \notin Pairs
    BY <1>0, <1>1, <2>2
  <2> QED
    BY <2>1, <2>2
<1>4. SesLike(ses')
  BY <1>1, RunningKeeps
<1> QED
  BY <1>0, <1>1, <1>2, <1>3, <1>4, SameTables, LikeQueues, StillBasis

(* The interrupt driver of a turn goes on: it asks the child, or is done.     *)
Drives(t) ==
    /\ Alike(turn, turn') /\ Tables /\ faults' \in 0..MaxFaults
    /\ UNCHANGED <<ses, stale, rt>>
    /\ \/ UNCHANGED <<conn, wire, child>>
       \/ \E f, on : Issued(turn[t].pair, f, t, "dq", Line(t, "interrupt", on))

LEMMA DriverAsksDrives ==
    ASSUME Basis, NEW t \in Turns, DriverAsks(t) PROVE Drives(t)
<1>0. turn \in TurnTable /\ rt \in RtStates /\ faults \in 0..MaxFaults
      /\ stale \in [Pairs -> SUBSET Turns]
  BY BasisParts
<1> DEFINE f == [turn EXCEPT ![t].drv = "ask", ![t].tries = @ + 1]
           m == Line(t, "interrupt", WireId(t))
<1>1. ses' = ses /\ stale' = stale /\ rt' = rt
  BY DEF DriverAsks
<1>2. CASE turn' = Leave(turn, t) /\ UNCHANGED <<conn, wire, child, faults>>
  BY <1>0, <1>1, <1>2, LeaveKeeps, SameTables DEF Drives
<1>3. CASE turn[t].tries < MaxTries /\ Issue(turn[t].pair, f, t, "dq", m)
  <2>1. Alike(turn, f)
    <3> DEFINE a == [turn[t] EXCEPT !.drv = "ask"]
               b == [a EXCEPT !.tries = turn[t].tries + 1]
    <3>1. turn[t] \in TurnState /\ turn[t].tries + 1 \in 0..MaxTries
      BY <1>0, <1>3, CodexAssumption DEF TurnTable, TurnState
    <3>2. f = [turn EXCEPT ![t] = b]
      BY <1>0, <3>1 DEF TurnTable, TurnState
    <3>3. Like(turn[t], a)
      BY <3>1, FieldsLike
    <3>4. a \in TurnState
      BY <3>3 DEF Like
    <3> HIDE DEF a
    <3>5. Like(a, b)
      BY <3>1, <3>4, FieldsLike
    <3> HIDE DEF b
    <3>6. Like(turn[t], b)
      BY <3>3, <3>5, LikeTwice
    <3> QED
      BY <1>0, <3>2, <3>6, LikeAlike
  <2> HIDE DEF f
  <2>2. m \in Questions
    BY <1>0 DEF Questions, Line, WireId, TurnTable, TurnState
  <2> HIDE DEF m
  <2>3. Issued(turn[t].pair, f, t, "dq", m)
    BY <1>3, <2>2, IssueKeeps
  <2>5. Alike(turn, turn')
    BY <2>1, <2>3, IssuedInterrupt
  <2>6. Tables /\ faults' \in 0..MaxFaults
    BY <1>1, <2>3, IssuedTables
  <2> QED
    BY <1>1, <2>3, <2>5, <2>6 DEF Drives, m
<1> QED
  BY <1>2, <1>3 DEF DriverAsks

LEMMA DriverContinuesDrives ==
    ASSUME Basis, NEW t \in Turns, DriverContinues(t) PROVE Drives(t)
<1>0. turn \in TurnTable /\ rt \in RtStates /\ faults \in 0..MaxFaults
      /\ stale \in [Pairs -> SUBSET Turns] /\ turn[t] \in TurnState
  BY BasisParts DEF TurnTable
<1> DEFINE f == [turn EXCEPT ![t].dq = "none"]
           g == [f EXCEPT ![t].lid = turn[t].dq, ![t].tries = 2]
           h == [f EXCEPT ![t].drv = "again"]
           a == [turn[t] EXCEPT !.dq = "none"]
           m == Line(t, "interrupt", turn[t].dq)
<1>1. ses' = ses /\ stale' = stale /\ rt' = rt
  BY DEF DriverContinues
<1>2. /\ f = [turn EXCEPT ![t] = a]
      /\ g = [f EXCEPT ![t] = [[a EXCEPT !.lid = turn[t].dq] EXCEPT !.tries = 2]]
      /\ h = [f EXCEPT ![t] = [a EXCEPT !.drv = "again"]]
  BY <1>0 DEF TurnTable
<1>3. Like(turn[t], a) /\ f[t] = a
  BY <1>0, <1>2, FieldsLike DEF Requests, TurnTable
<1>4. Alike(turn, f)
  BY <1>0, <1>2, <1>3, LikeAlike
<1>5. f \in TurnTable /\ a \in TurnState
  BY <1>3, <1>4 DEF Alike, Like
<1>6. CASE turn' = Leave(f, t) /\ UNCHANGED <<conn, wire, child, faults>>
  <2> HIDE DEF f
  <2> QED
    BY <1>0, <1>1, <1>4, <1>5, <1>6, LeaveKeeps, AlikeTwice, SameTables DEF Drives
<1>7. CASE turn[t].dq \in Turns /\ Issue(turn[t].pair, g, t, "dq", m)
  <2> HIDE DEF f, a
  <2> DEFINE b == [a EXCEPT !.lid = turn[t].dq]
             c == [b EXCEPT !.tries = 2]
  <2>1. Like(a, b)
    BY <1>5, <1>7, FieldsLike
  <2>2. b \in TurnState /\ 2 \in 0..MaxTries
    BY <2>1, CodexAssumption DEF Like
  <2>3. g = [f EXCEPT ![t] = c]
    BY <1>2
  <2> HIDE DEF b, g
  <2>4. Like(b, c)
    BY <2>2, FieldsLike
  <2>5. Like(f[t], c)
    BY <1>3, <2>1, <2>4, LikeTwice
  <2> HIDE DEF c
  <2>6. Alike(turn, g)
    BY <1>4, <1>5, <2>3, <2>5, LikeAlike, AlikeTwice
  <2>7. m \in Questions
    BY <1>7 DEF Questions, Line
  <2> HIDE DEF m
  <2>8. Issued(turn[t].pair, g, t, "dq", m)
    BY <1>7, <2>7, IssueKeeps
  <2>10. Alike(turn, turn')
    BY <2>6, <2>8, IssuedInterrupt
  <2>11. Tables /\ faults' \in 0..MaxFaults
    BY <1>1, <2>8, IssuedTables
  <2> QED
    BY <1>1, <2>8, <2>10, <2>11 DEF Drives, m
<1>8. CASE turn' = h /\ UNCHANGED <<conn, wire, child, faults>>
  <2> HIDE DEF f, a
  <2>1. Like(a, [a EXCEPT !.drv = "again"])
    BY <1>5, FieldsLike
  <2>3. Alike(f, h)
    BY <1>2, <1>3, <1>5, <2>1, LikeAlike
  <2>2. Alike(turn, h)
    BY <1>4, <2>3, AlikeTwice
  <2> HIDE DEF h
  <2> QED
    BY <1>0, <1>1, <1>8, <2>2, SameTables DEF Drives
<1> QED
  BY <1>6, <1>7, <1>8 DEF DriverContinues

LEMMA DrivesBasis == ASSUME Basis, NEW t \in Turns, Drives(t) PROVE Basis'
<1>1. rt \in RtStates /\ ses' = ses
  BY BasisParts DEF Drives
<1> QED
  BY <1>1, AlikeStill, SameStill, LikeQueues, StillBasis DEF Drives

(* Removing position i of a sequence shifts what follows it down by one.     *)
LEMMA RemoveAtProperties ==
    ASSUME NEW S, NEW q \in Seq(S), NEW i \in 1..Len(q)
    PROVE  /\ RemoveAt(q, i) \in Seq(S)
           /\ Len(RemoveAt(q, i)) = Len(q) - 1
           /\ \A j \in 1..(Len(q) - 1) :
                RemoveAt(q, i)[j] = IF j < i THEN q[j] ELSE q[j + 1]
<1>1. PICK a \in Seq(S) : a = SubSeq(q, 1, i - 1)
  <2>1. SubSeq(q, 1, i - 1) \in Seq(S)
    OBVIOUS
  <2> QED
    BY <2>1, Zenon
<1>2. PICK b \in Seq(S) : b = SubSeq(q, i + 1, Len(q))
  <2>1. SubSeq(q, i + 1, Len(q)) \in Seq(S)
    OBVIOUS
  <2> QED
    BY <2>1, Zenon
<1>3. Len(a) = i - 1 /\ Len(b) = Len(q) - i
  BY <1>1, <1>2
<1>4. RemoveAt(q, i) = a \o b
  BY <1>1, <1>2 DEF RemoveAt
<1>5. ASSUME NEW j \in 1..(Len(q) - 1), j < i
      PROVE (a \o b)[j] = q[j]
  BY <1>5, <1>1, <1>3
<1>6. ASSUME NEW j \in 1..(Len(q) - 1), ~(j < i)
      PROVE (a \o b)[j] = q[j + 1]
  <2>1. (a \o b)[j] = b[j - (i - 1)]
    BY <1>6, <1>3
  <2>2. b[j - (i - 1)] = q[j + 1]
    BY <1>6, <1>2, SMTT(30)
  <2> QED
    BY <2>1, <2>2
<1>7. a \o b \in Seq(S) /\ Len(a \o b) = Len(q) - 1
  BY <1>3
<1>8. \A j \in 1..(Len(q) - 1) :
        (a \o b)[j] = IF j < i THEN q[j] ELSE q[j + 1]
  BY <1>5, <1>6, Zenon
<1> QED
  BY <1>4, <1>7, <1>8, Zenon

(* What one pair has on the wire is replaced.                                *)
LEMMA WireSet ==
    ASSUME NEW p, wire \in WireTable, NEW in \in SUBSET Questions, NEW out \in Seq(Answers)
    PROVE  /\ [wire EXCEPT ![p].in = in, ![p].out = out] \in WireTable
           /\ [wire EXCEPT ![p].in = in] \in WireTable
           /\ [wire EXCEPT ![p].out = out] \in WireTable
<1> DEFINE Q == Seq(Answers)
<1>0. wire \in [Pairs -> [in : SUBSET Questions, out : Q]] /\ out \in Q
  BY DEF WireTable
<1> HIDE DEF Q
<1>1. /\ [wire EXCEPT ![p].in = in, ![p].out = out] \in [Pairs -> [in : SUBSET Questions, out : Q]]
      /\ [wire EXCEPT ![p].in = in] \in [Pairs -> [in : SUBSET Questions, out : Q]]
      /\ [wire EXCEPT ![p].out = out] \in [Pairs -> [in : SUBSET Questions, out : Q]]
  BY <1>0
<1> QED
  BY <1>1 DEF WireTable, Q

LEMMA WireParts ==
    ASSUME Basis, NEW p \in Pairs
    PROVE  /\ wire[p].in \subseteq Questions /\ wire[p].out \in Seq(Answers)
           /\ Len(wire[p].out) \in Nat /\ DOMAIN wire[p].out = 1..Len(wire[p].out)
           /\ \A i \in DOMAIN wire[p].out : wire[p].out[i] \in Answers
<1>1. wire[p].in \subseteq Questions /\ wire[p].out \in Seq(Answers)
  BY BasisParts DEF WireTable
<1> QED
  BY <1>1, LenProperties

(* The timer of a request: it is closed, an answer on its way is dropped.    *)
LEMMA TimeOutBasis ==
    ASSUME Basis, NEW t \in Turns, NEW field \in {"rq", "dq"}, TimeOut(t, field) PROVE Basis'
<1> DEFINE p == turn[t].pair
           out == wire[p].out
           mine(m) == m.for = t /\ ((m.what = "interrupt") <=> (field = "dq"))
           replies == {i \in DOMAIN out : out[i].kind = "reply" /\ mine(out[i])}
           in2 == {IF mine(m) THEN [m EXCEPT !.open = FALSE] ELSE m : m \in wire[p].in}
           out2 == IF replies = {} THEN out ELSE RemoveAt(out, CHOOSE i \in replies : TRUE)
<1>0. turn \in TurnTable /\ rt \in RtStates /\ faults \in 0..MaxFaults /\ wire \in WireTable
      /\ stale \in [Pairs -> SUBSET Turns] /\ conn \in ConnTable /\ child \in KidTable
      /\ turn[t] \in TurnState
  BY BasisParts DEF TurnTable
<1>1. /\ turn' = [turn EXCEPT ![t][field] = "error"] /\ turn[t][field] = "sent"
      /\ wire' = [wire EXCEPT ![p].in = in2, ![p].out = out2]
      /\ UNCHANGED <<ses, conn, stale, child, faults, rt>>
  BY DEF TimeOut
<1>2. wire' \in WireTable
  <2>1. CASE p \in Pairs
    <3>0. wire[p].in \subseteq Questions /\ out \in Seq(Answers) /\ DOMAIN out = 1..Len(out)
      BY <2>1, WireParts
    <3>1. in2 \in SUBSET Questions
      BY <3>0 DEF Questions
    <3>2. out2 \in Seq(Answers)
      <4>1. CASE replies = {}
        BY <3>0, <4>1
      <4>2. CASE replies # {}
        <5>1. PICK i \in replies : out2 = RemoveAt(out, i)
          BY <4>2
        <5>2. i \in 1..Len(out)
          BY <3>0
        <5> HIDE DEF out2, replies
        <5> QED
          BY <3>0, <5>1, <5>2, RemoveAtProperties
      <4> QED
        BY <4>1, <4>2
    <3> HIDE DEF in2, out2, p
    <3> QED
      BY <1>0, <1>1, <3>1, <3>2, WireSet
  <2>2. CASE p \notin Pairs
    <3> HIDE DEF in2, out2, p
    <3>1. wire' = wire
      BY <1>0, <1>1, <2>2 DEF WireTable
    <3> QED
      BY <1>0, <3>1
  <2> QED
    BY <2>1, <2>2
<1> HIDE DEF in2, out2
<1>3. Tables
  BY <1>0, <1>1, <1>2 DEF Tables
<1>4. Still(turn, turn')
  <2>1. CASE field = "dq"
    <3>1. turn' = [turn EXCEPT ![t].dq = "error"]
      BY <1>1, <2>1
    <3> QED
      BY <1>0, <3>1, IssuedTurns, AlikeStill
  <2>2. CASE field = "rq"
    <3>1. turn' = [turn EXCEPT ![t].rq = "error"] /\ turn[t].rq = "sent"
      BY <1>1, <2>2
    <3>2. turn[t].ph \notin Early
      BY <3>1, BasisParts DEF TurnsKnown, Early
    <3>3. turn' \in TurnTable /\ \A u \in Turns :
            /\ turn'[u].ph = turn[u].ph /\ turn'[u].pair = turn[u].pair
            /\ turn'[u].killed = turn[u].killed /\ (u # t => turn'[u] = turn[u])
      <4> DEFINE a == [turn[t] EXCEPT !.rq = "error"]
      <4>1. /\ a \in TurnState /\ a.ph = turn[t].ph /\ a.pair = turn[t].pair
            /\ a.killed = turn[t].killed
        BY <1>0 DEF TurnState, Requests
      <4>2. turn' = [turn EXCEPT ![t] = a]
        BY <1>0, <3>1 DEF TurnTable
      <4> HIDE DEF a
      <4> QED
        BY <1>0, <4>1, <4>2 DEF TurnTable
    <3> QED
      BY <3>2, <3>3 DEF Still
  <2> QED
    BY <2>1, <2>2
<1> QED
  BY <1>0, <1>1, <1>3, <1>4, SameStill, LikeQueues, StillBasis

LEMMA LossBasis ==
    ASSUME Basis, NEW p \in Pairs, ChildLost(p) \/ Reap(p) PROVE Basis'
<1>0. turn \in TurnTable /\ rt \in RtStates /\ faults \in 0..MaxFaults /\ MaxFaults \in Nat
      /\ conn \in ConnTable
  BY BasisParts, CodexAssumption
<1>1. rt' = rt /\ faults' \in 0..MaxFaults
  <2>1. CASE ChildLost(p)
    BY <1>0, <2>1 DEF ChildLost, Fault
  <2>2. CASE Reap(p)
    BY <1>0, <2>2 DEF Reap
  <2> QED
    BY <2>1, <2>2
<1>2. PICK b \in BOOLEAN : Lose(p, turn, b)
  <2>1. conn[p].reaper \in BOOLEAN
    BY <1>0 DEF ConnTable
  <2> QED
    BY <2>1 DEF ChildLost, Reap
<1> QED
  BY <1>0, <1>1, <1>2, SameStill, LoseKeeps, LikeQueues, StillBasis

LEMMA SlowDownBasis == ASSUME Basis, NEW p \in Pairs, SlowDown(p) PROVE Basis'
<1>0. turn \in TurnTable /\ rt \in RtStates /\ faults \in 0..MaxFaults /\ MaxFaults \in Nat
      /\ conn \in ConnTable /\ stale \in [Pairs -> SUBSET Turns] /\ wire \in WireTable
      /\ child \in KidTable
  BY BasisParts, CodexAssumption
<1>1. /\ UNCHANGED <<turn, ses, stale, wire, child, rt>> /\ faults' \in 0..MaxFaults
      /\ conn' = [conn EXCEPT ![p].slow = TRUE]
  BY <1>0 DEF SlowDown, Fault
<1>2. Tables
  BY <1>0, <1>1 DEF Tables, ConnTable
<1> QED
  BY <1>0, <1>1, <1>2, SameStill, LikeQueues, StillBasis

LEMMA HandshakeTurns ==
    ASSUME Basis, NEW p \in Pairs, Handshake(p)
    PROVE  /\ turn' \in TurnTable
           /\ \A u \in Turns :
                /\ turn'[u].ph = turn[u].ph /\ turn'[u].pair = turn[u].pair
                /\ turn'[u].killed = turn[u].killed
                /\ turn'[u].rq = IF turn[u].pair = p /\ turn[u].rq = "joined" THEN "sent"
                                                                           ELSE turn[u].rq
<1>0. turn \in TurnTable
  BY BasisParts
<1>1. ASSUME NEW u \in Turns
      PROVE  /\ turn'[u] \in TurnState /\ turn'[u].ph = turn[u].ph
             /\ turn'[u].pair = turn[u].pair /\ turn'[u].killed = turn[u].killed
             /\ turn'[u].rq = IF turn[u].pair = p /\ turn[u].rq = "joined" THEN "sent"
                                                                        ELSE turn[u].rq
  <2> DEFINE rq == IF turn[u].rq = "joined" THEN "sent" ELSE turn[u].rq
             dq == IF turn[u].dq = "joined" THEN "sent" ELSE turn[u].dq
             a == [turn[u] EXCEPT !.rq = rq]
             b == [a EXCEPT !.dq = dq]
  <2>1. turn[u] \in TurnState /\ rq \in Requests /\ dq \in Requests \cup Turns
    BY <1>0 DEF TurnTable, TurnState, Requests
  <2>2. turn'[u] = IF turn[u].pair # p THEN turn[u] ELSE b
    BY DEF Handshake
  <2>3. rq = IF turn[u].rq = "joined" THEN "sent" ELSE turn[u].rq
    OBVIOUS
  <2> HIDE DEF rq, dq
  <2>4. /\ a \in TurnState /\ a.ph = turn[u].ph /\ a.pair = turn[u].pair
        /\ a.killed = turn[u].killed /\ a.rq = rq
    BY <2>1 DEF TurnState
  <2> HIDE DEF a
  <2>5. Like(a, b)
    BY <2>1, <2>4, FieldsLike
  <2> HIDE DEF b
  <2> QED
    BY <2>1, <2>2, <2>3, <2>4, <2>5 DEF Like
<1>2. turn' = [u \in Turns |-> turn'[u]]
  BY DEF Handshake
<1> QED
  BY <1>1, <1>2 DEF TurnTable

LEMMA HandshakeBasis == ASSUME Basis, NEW p \in Pairs, Handshake(p) PROVE Basis'
<1>0. turn \in TurnTable /\ rt \in RtStates /\ faults \in 0..MaxFaults
      /\ conn \in ConnTable /\ stale \in [Pairs -> SUBSET Turns] /\ wire \in WireTable
      /\ child \in KidTable
  BY BasisParts
<1>1. /\ UNCHANGED <<ses, stale, child, rt, faults>>
      /\ conn' = [conn EXCEPT ![p].st = "ready"]
      /\ wire' = [wire EXCEPT ![p].in = @ \cup JoinedLines(p)]
  BY DEF Handshake
<1>2. JoinedLines(p) \subseteq Questions
  <2>1. ASSUME NEW u \in Turns
        PROVE  /\ LoadLine(u) \in Questions /\ StartLine(u) \in Questions
               /\ Line(u, "interrupt", IF turn[u].lid # None THEN turn[u].lid ELSE u)
                    \in Questions
    <3>1. turn[u].lid \in Turns \cup {None}
      BY <1>0 DEF TurnTable, TurnState
    <3> QED
      BY <3>1 DEF LoadLine, StartLine, Line, Questions
  <2> QED
    BY <2>1 DEF JoinedLines
<1>3. wire' \in WireTable
  BY <1>0, <1>1, <1>2 DEF WireTable
<1>4. conn' \in ConnTable
  BY <1>0, <1>1 DEF ConnTable
<1>5. Tables
  BY <1>0, <1>1, <1>3, <1>4 DEF Tables
<1>6. Still(turn, turn')
  <2>1. \A u \in Turns : turn[u].ph \in Early => turn[u].rq # "joined"
    BY BasisParts DEF TurnsKnown, Early
  <2> QED
    BY <2>1, HandshakeTurns DEF Still
<1> QED
  BY <1>0, <1>1, <1>5, <1>6, SameStill, LikeQueues, StillBasis

(* What the lines on the wire, the answers that wait and the threads of the  *)
(* sessions say of the turns and of the children.                            *)
Loading == {"load", "reload"}
Late    == {"load", "start", "reload", "restart", "open"}

Wants(f, p, t, what) ==
    /\ f[t].pair = p /\ f[t].rq = "sent"
    /\ what = "load" <=> f[t].ph \in Loading

IsOpen(m)   == m.open /\ m.what # "interrupt"
IsAnswer(l) == l.kind = "reply" /\ l.what # "interrupt"

(* An open request is the one its turn waits for.                            *)
AskedAt(f, in, p) == \A m \in in : IsOpen(m) => Wants(f, p, m.for, m.what) /\ m.on = m.for

(* So is an answer, which is the only one; a thread is loaded when it says so. *)
ToldAt(f, out, in, kid, p) ==
    \A i \in DOMAIN out : IsAnswer(out[i]) =>
      /\ Wants(f, p, out[i].for, out[i].what)
      /\ out[i].what = "load" /\ out[i].answer = "ok" => kid[SessionOf[out[i].for]].loaded
      /\ \A j \in DOMAIN out : IsAnswer(out[j]) /\ out[j].for = out[i].for => i = j
      /\ \A m \in in : IsOpen(m) => m.for # out[i].for

Asked(f, w)   == \A p \in Pairs : AskedAt(f, w[p].in, p)
Told(f, w, k) == \A p \in Pairs : ToldAt(f, w[p].out, w[p].in, k[p], p)

Loads(f, k) ==
    \A t \in Turns : f[t].rq = "ok" /\ f[t].ph \in Loading => k[f[t].pair][SessionOf[t]].loaded

Threads(e, c, k) ==
    \A p \in Pairs, s \in Sessions :
      /\ e[p][s].gen <= c[p].gen
      /\ e[p][s].thread /\ e[p][s].gen = c[p].gen => k[p][s].loaded

Wires == Asked(turn, wire) /\ Told(turn, wire, child) /\ Loads(turn, child)
         /\ Threads(ses, conn, child)

(* One turn moves on: to a phase of beginTurn, or with its request.          *)
Moved(f, g, t, ph, x) ==
    /\ g \in TurnTable /\ g[t].ph = ph /\ g[t].rq = x
    /\ \A u \in Turns : /\ g[u].pair = f[u].pair /\ g[u].killed = f[u].killed
                        /\ u # t => g[u].ph = f[u].ph /\ g[u].rq = f[u].rq

LEMMA MovedTwice ==
    ASSUME NEW f, NEW g, NEW h, NEW t \in Turns, NEW a, NEW b, NEW x, NEW y,
           Moved(f, g, t, a, x), Moved(g, h, t, b, y)
    PROVE  Moved(f, h, t, b, y)
BY DEF Moved

LEMMA MovedAlike ==
    ASSUME NEW f, NEW g, NEW h, NEW t \in Turns, NEW a, NEW x, Moved(f, g, t, a, x), Alike(g, h)
    PROVE  Moved(f, h, t, a, x)
BY DEF Moved, Alike

LEMMA RequestMoved ==
    ASSUME NEW f \in TurnTable, NEW t \in Turns, NEW x \in Requests
    PROVE  Moved(f, [f EXCEPT ![t].rq = x], t, f[t].ph, x)
<1> DEFINE a == [f[t] EXCEPT !.rq = x]
<1>1. f[t] \in TurnState
  BY DEF TurnTable
<1>2. a \in TurnState /\ a.ph = f[t].ph /\ a.pair = f[t].pair /\ a.killed = f[t].killed /\ a.rq = x
  BY <1>1 DEF TurnState
<1>3. [f EXCEPT ![t].rq = x] = [f EXCEPT ![t] = a]
  BY DEF TurnTable
<1> HIDE DEF a
<1> QED
  BY <1>2, <1>3 DEF TurnTable, Moved

LEMMA PhaseMoved ==
    ASSUME NEW f \in TurnTable, NEW t \in Turns, NEW x \in Late
    PROVE  Moved(f, [f EXCEPT ![t].ph = x], t, x, f[t].rq)
<1> DEFINE a == [f[t] EXCEPT !.ph = x]
<1>1. f[t] \in TurnState
  BY DEF TurnTable
<1>2. a \in TurnState /\ a.rq = f[t].rq /\ a.pair = f[t].pair /\ a.killed = f[t].killed /\ a.ph = x
  BY <1>1 DEF TurnState, Late
<1>3. [f EXCEPT ![t].ph = x] = [f EXCEPT ![t] = a]
  BY DEF TurnTable
<1> HIDE DEF a
<1> QED
  BY <1>2, <1>3 DEF TurnTable, Moved

LEMMA MovedStill ==
    ASSUME Basis, NEW t \in Turns, NEW ph, NEW x, Moved(turn, turn', t, ph, x),
           turn[t].ph \notin Early, ph \notin Early
    PROVE  Still(turn, turn')
BY DEF Moved, Still

LineFor(t, ph) == IF ph \in Loading THEN LoadLine(t) ELSE StartLine(t)

LEMMA LineForTyped == ASSUME NEW t \in Turns, NEW ph PROVE LineFor(t, ph) \in Questions
BY DEF LineFor, LoadLine, StartLine, Line, Questions

(* A request of beginTurn is issued.                                         *)
Asks(p, t, ph) ==
    \E x \in {"sent", "joined", "error"} :
      /\ Moved(turn, turn', t, ph, x)
      /\ IF x = "sent" THEN wire' = [wire EXCEPT ![p].in = @ \cup {LineFor(t, ph)}]
                       ELSE wire' = wire

LEMMA IssuedRequest ==
    ASSUME Basis, NEW p, NEW f, NEW t \in Turns, NEW ph, NEW y,
           Moved(turn, f, t, ph, y), Issue(p, f, t, "rq", LineFor(t, ph)), stale' = stale
    PROVE  /\ Asks(p, t, ph) /\ Tables /\ faults' \in 0..MaxFaults
           /\ child' = child /\ \A r \in Pairs : conn'[r].gen = conn[r].gen
<1>1. Issued(p, f, t, "rq", LineFor(t, ph))
  BY LineForTyped, IssueKeeps
<1>2. f \in TurnTable /\ f[t].ph = ph
  BY DEF Moved
<1>3. \A x \in Requests : Moved(turn, [f EXCEPT ![t].rq = x], t, ph, x)
  BY <1>2, RequestMoved, MovedTwice
<1>4. Asks(p, t, ph)
  <2>1. {"sent", "joined", "error"} \subseteq Requests
    BY DEF Requests
  <2>2. CASE turn' = [f EXCEPT ![t].rq = "sent"]
             /\ wire' = [wire EXCEPT ![p].in = @ \cup {LineFor(t, ph)}]
    BY <1>3, <2>1, <2>2 DEF Asks
  <2>3. CASE turn' = [f EXCEPT ![t].rq = "joined"] /\ wire' = wire
    BY <1>3, <2>1, <2>3 DEF Asks
  <2>4. CASE turn' = [f EXCEPT ![t].rq = "error"] /\ wire' = wire
    BY <1>3, <2>1, <2>4 DEF Asks
  <2> QED
    <3>1. \/ /\ turn' = [f EXCEPT ![t].rq = "sent"]
             /\ wire' = [wire EXCEPT ![p].in = @ \cup {LineFor(t, ph)}]
          \/ /\ turn' = [f EXCEPT ![t].rq = "joined"] \/ turn' = [f EXCEPT ![t].rq = "error"]
             /\ wire' = wire
      BY <1>1, Zenon DEF Issued
    <3> QED
      BY <2>2, <2>3, <2>4, <3>1
<1>5. Tables /\ faults' \in 0..MaxFaults
  BY <1>1, IssuedTables
<1>6. child' = child /\ \A r \in Pairs : conn'[r].gen = conn[r].gen
  BY <1>1, Zenon DEF Issued
<1> QED
  BY <1>4, <1>5, <1>6

(* beginTurn goes on: with its next request, or it is over.                  *)
ThreadSet(p, s) ==
    /\ ses' \in SesTable /\ QueuesStay(ses')
    /\ ses'[p][s].thread /\ ses'[p][s].gen = conn[p].gen
    /\ \A o \in Pairs, z \in Sessions :
         /\ ses'[o][z].owned = ses[o][z].owned
         /\ o # p \/ z # s => /\ ses'[o][z].thread = ses[o][z].thread
                              /\ ses'[o][z].gen = ses[o][z].gen

Goes(t) ==
    \/ /\ turn[t].rq = "ok" /\ turn[t].ph \in Loading
       /\ ThreadSet(turn[t].pair, SessionOf[t])
       /\ \E ph \in {"start", "restart"} : Asks(turn[t].pair, t, ph)
    \/ SesLike(ses') /\ Asks(turn[t].pair, t, "reload")
    \/ SesLike(ses') /\ Moved(turn, turn', t, "open", "none") /\ wire' = wire

LEMMA Going ==
    ASSUME Basis, NEW t \in Turns, turn[t].rq # "none"
    PROVE  /\ turn[t].ph \notin Early /\ turn[t].pair \in Pairs
BY BasisParts DEF TurnsKnown, Early

LEMMA ThreadIsSet ==
    ASSUME Basis, NEW p \in Pairs, NEW s \in Sessions,
           ses' = [ses EXCEPT ![p][s].thread = TRUE, ![p][s].gen = conn[p].gen]
    PROVE  ThreadSet(p, s)
<1> DEFINE a == [ses[p][s] EXCEPT !.thread = TRUE]
           b == [a EXCEPT !.gen = conn[p].gen]
<1>0. ses \in SesTable /\ conn[p].gen \in Int /\ ses[p][s] \in SessionState
  BY BasisParts DEF ConnTable, SesTable
<1>1. a \in SessionState
  BY <1>0, SessionFields
<1>2. /\ a.queue = ses[p][s].queue /\ a.owned = ses[p][s].owned
      /\ a.thread = TRUE /\ a.block = ses[p][s].block
  BY <1>0 DEF SessionState
<1>3. ses' = [ses EXCEPT ![p] = [ses[p] EXCEPT ![s] = b]]
  BY <1>0 DEF SesTable
<1> HIDE DEF a
<1>4. b \in SessionState
  BY <1>0, <1>1, SessionFields
<1>5. /\ b.queue = ses[p][s].queue /\ b.owned = ses[p][s].owned
      /\ b.thread = TRUE /\ b.block = ses[p][s].block /\ b.gen = conn[p].gen
  BY <1>1, <1>2 DEF SessionState
<1> HIDE DEF b
<1>6. \A o \in Pairs, z \in Sessions : ses[o][z].block # None => ses[o][z].queue # <<>>
  BY BasisParts DEF BlockKnown
<1>7. /\ ses' \in SesTable /\ ses'[p][s] = b
      /\ \A o \in Pairs, z \in Sessions : o # p \/ z # s => ses'[o][z] = ses[o][z]
  <2>1. ses[p] \in [Sessions -> SessionState]
    BY <1>0 DEF SesTable
  <2> DEFINE c == [ses[p] EXCEPT ![s] = b]
  <2>2. c \in [Sessions -> SessionState] /\ c[s] = b /\ \A z \in Sessions \ {s} : c[z] = ses[p][z]
    BY <2>1, <1>4
  <2> HIDE DEF c
  <2>3. ses' = [ses EXCEPT ![p] = c]
    BY <1>3 DEF c
  <2> QED
    BY <1>0, <2>2, <2>3 DEF SesTable
<1>8. QueuesStay(ses')
  <2>1. ASSUME NEW o \in Pairs, NEW z \in Sessions
        PROVE  ses'[o][z].queue = ses[o][z].queue /\ ses'[o][z].block = ses[o][z].block
    <3>1. CASE o = p /\ z = s
      BY <1>5, <1>7, <3>1
    <3>2. CASE o # p \/ z # s
      BY <1>7, <3>2
    <3> QED
      BY <3>1, <3>2
  <2>2. ASSUME NEW o \in Pairs, NEW z \in Sessions
        PROVE  /\ ses'[o][z].queue = ses[o][z].queue
               /\ ses'[o][z].block # None => ses[o][z].queue # <<>>
    <3>1. ses'[o][z].queue = ses[o][z].queue /\ ses'[o][z].block = ses[o][z].block
      BY <2>1
    <3>2. ses[o][z].block # None => ses[o][z].queue # <<>>
      BY <1>6
    <3> QED
      BY <3>1, <3>2
  <2> QED
    BY <2>2 DEF QueuesStay
<1> QED
  BY <1>5, <1>7, <1>8 DEF ThreadSet

LEMMA BeginGoes ==
    ASSUME Basis, NEW t \in Turns, BeginContinues(t)
    PROVE  /\ Goes(t) /\ Tables /\ faults' \in 0..MaxFaults /\ rt' = rt
           /\ child' = child /\ \A r \in Pairs : conn'[r].gen = conn[r].gen
<1> DEFINE p == turn[t].pair
           s == SessionOf[t]
           r == ses[p][s].running
           a == turn[t].rq
           f == [turn EXCEPT ![t].rq = "none"]
           g == [f EXCEPT ![t].ph = "open"]
<1>0. turn \in TurnTable /\ rt \in RtStates /\ faults \in 0..MaxFaults /\ ses \in SesTable
      /\ stale \in [Pairs -> SUBSET Turns] /\ turn[t] \in TurnState /\ s \in Sessions
  BY BasisParts, CodexAssumption DEF TurnTable
<1>1. p \in Pairs /\ turn[t].ph \notin Early
  BY Going DEF BeginContinues
<1>2. r \in Turns \cup {None}
  BY <1>0, <1>1 DEF SesTable, SessionState
<1>3. Moved(turn, f, t, turn[t].ph, "none")
  BY <1>0, RequestMoved DEF Requests
<1>4. f \in TurnTable /\ f[t].rq = "none"
  BY <1>3 DEF Moved
<1> DEFINE g1 == [f EXCEPT ![t].ph = "start"]
           g2 == [f EXCEPT ![t].ph = "restart"]
           g3 == [f EXCEPT ![t].ph = "reload"]
<1>5. Moved(f, g, t, "open", "none") /\ Moved(f, g1, t, "start", "none")
      /\ Moved(f, g2, t, "restart", "none") /\ Moved(f, g3, t, "reload", "none")
  <2>1. {"open", "start", "restart", "reload"} \subseteq Late
    BY DEF Late
  <2> HIDE DEF f
  <2> QED
    BY <1>4, <2>1, PhaseMoved
<1>6. rt' = rt
  BY DEF BeginContinues
<1>7. CASE /\ a = "ok" /\ turn[t].ph \in Loading
           /\ ses' = [ses EXCEPT ![p][s].thread = TRUE, ![p][s].gen = conn[p].gen]
           /\ \/ Issue(p, g1, t, "rq", StartLine(t))
              \/ Issue(p, g2, t, "rq", StartLine(t))
           /\ stale' = stale
  <2> HIDE DEF f, g1, g2
  <2>1. ThreadSet(p, s)
    BY <1>0, <1>1, <1>7, ThreadIsSet
  <2>2. LineFor(t, "start") = StartLine(t) /\ LineFor(t, "restart") = StartLine(t)
    BY DEF LineFor, Loading
  <2>3. Moved(turn, g1, t, "start", "none") /\ Moved(turn, g2, t, "restart", "none")
    BY <1>3, <1>5, MovedTwice
  <2>4. \E ph \in {"start", "restart"} :
          /\ Asks(p, t, ph) /\ Tables /\ faults' \in 0..MaxFaults
          /\ child' = child /\ \A q \in Pairs : conn'[q].gen = conn[q].gen
    <3>1. CASE Issue(p, g1, t, "rq", StartLine(t))
      BY <1>7, <2>2, <2>3, <3>1, IssuedRequest
    <3>2. CASE Issue(p, g2, t, "rq", StartLine(t))
      BY <1>7, <2>2, <2>3, <3>2, IssuedRequest
    <3> QED
      BY <1>7, <3>1, <3>2
  <2> QED
    BY <1>6, <1>7, <2>1, <2>4 DEF Goes
<1>8. CASE /\ ses' = ses /\ stale' = stale /\ Issue(p, g3, t, "rq", LoadLine(t))
  <2> HIDE DEF f, g3
  <2>1. LineFor(t, "reload") = LoadLine(t)
    BY DEF LineFor, Loading
  <2>2. Moved(turn, g3, t, "reload", "none")
    BY <1>3, <1>5, MovedTwice
  <2>3. /\ Asks(p, t, "reload") /\ Tables /\ faults' \in 0..MaxFaults
        /\ child' = child /\ \A q \in Pairs : conn'[q].gen = conn[q].gen
    BY <1>8, <2>1, <2>2, IssuedRequest
  <2>4. SesLike(ses')
    BY <1>8, SameStill
  <2> QED
    BY <1>6, <2>3, <2>4 DEF Goes
<1>9. CASE /\ Alike(g, turn') /\ SesLike(ses') /\ stale' \in [Pairs -> SUBSET Turns]
           /\ UNCHANGED <<conn, wire, child, faults>>
  <2> HIDE DEF f, g
  <2>1. Moved(turn, turn', t, "open", "none")
    BY <1>3, <1>5, <1>9, MovedTwice, MovedAlike
  <2>2. Tables
    BY <1>9, SameTables
  <2> QED
    BY <1>0, <1>6, <1>9, <2>1, <2>2 DEF Goes
<1>10. CASE /\ a = "ok" /\ turn[t].ph \in {"start", "restart"}
            /\ LET h == [f EXCEPT ![t].ph = "open", ![t].pid = TRUE]
               IN turn' = IF turn[t].abort /\ r # None THEN Interrupted(h, r) ELSE h
            /\ UNCHANGED <<ses, stale, conn, wire, child, faults>>
  <2> DEFINE h == [f EXCEPT ![t].ph = "open", ![t].pid = TRUE]
  <2>0. g \in TurnTable /\ g[t] \in TurnState
    BY <1>5 DEF Moved, TurnTable
  <2>1. h = [g EXCEPT ![t] = [g[t] EXCEPT !.pid = TRUE]]
    BY <1>4 DEF TurnTable
  <2>2. turn' = IF turn[t].abort /\ r # None THEN Interrupted(h, r) ELSE h
    BY <1>10
  <2> HIDE DEF h, f, g
  <2>3. Alike(g, h)
    BY <2>0, <2>1, FieldsLike, LikeAlike
  <2>4. Alike(g, turn')
    <3>1. CASE turn[t].abort /\ r # None
      <4>1. Alike(h, turn')
        BY <1>2, <2>2, <2>3, <3>1, InterruptedKeeps DEF Alike
      <4> QED
        BY <2>3, <4>1, AlikeTwice
    <3>2. CASE ~(turn[t].abort /\ r # None)
      BY <2>2, <2>3, <3>2
    <3> QED
      BY <3>1, <3>2
  <2> QED
    BY <1>0, <1>9, <1>10, <2>4, SameStill
<1>11. CASE /\ turn' = IF r # None THEN Settle(g, r, "failed", t) ELSE g
            /\ FinishRunning(p, t, "failed", t) /\ UNCHANGED <<conn, wire, child, faults>>
  <2>0. g \in TurnTable
    BY <1>5 DEF Moved
  <2> HIDE DEF f, g
  <2>1. Alike(g, turn')
    <3>1. CASE r # None
      <4>1. "failed" \in Outcomes /\ r \in Turns
        BY <1>2, <3>1 DEF Outcomes
      <4> HIDE DEF r
      <4> QED
        BY <1>11, <2>0, <3>1, <4>1, SettleKeeps
    <3>2. CASE r = None
      BY <1>11, <2>0, <3>2 DEF Alike
    <3> QED
      BY <3>1, <3>2
  <2>2. SesLike(ses') /\ stale' \in [Pairs -> SUBSET Turns]
    BY <1>1, <1>11, FinishKeeps
  <2> QED
    BY <1>9, <1>11, <2>1, <2>2
<1> HIDE DEF f, g1, g2, g3, g
<1> QED
  <2> USE DEF f, g1, g2, g3, g
  <2> QED
    BY <1>7, <1>8, <1>10, <1>11 DEF BeginContinues, Loading

LEMMA BeginContinuesBasis ==
    ASSUME Basis, NEW t \in Turns, BeginContinues(t) PROVE Basis'
<1>1. /\ Goes(t) /\ Tables /\ faults' \in 0..MaxFaults /\ rt' \in RtStates
      /\ turn[t].ph \notin Early
  BY BeginGoes, Going, BasisParts DEF BeginContinues
<1>2. ses' \in SesTable /\ QueuesStay(ses')
  BY <1>1, LikeQueues DEF Goes, ThreadSet
<1>3. Still(turn, turn')
  BY <1>1, MovedStill DEF Goes, Asks, Early
<1> QED
  BY <1>1, <1>2, <1>3, StillBasis

(* What a session keeps that only its own state is set.                      *)
SesKeeps(g) ==
    \A p \in Pairs, s \in Sessions :
      /\ g[p][s].owned = ses[p][s].owned
      /\ g[p][s].thread = ses[p][s].thread /\ g[p][s].gen = ses[p][s].gen

(* One session of one manager is replaced.                                   *)
SetTo(g, p, s, b) ==
    /\ g \in SesTable /\ g[p][s] = b
    /\ \A o \in Pairs, z \in Sessions : o # p \/ z # s => g[o][z] = ses[o][z]

LEMMA SessionSet ==
    ASSUME Basis, NEW p \in Pairs, NEW s \in Sessions, NEW b \in SessionState
    PROVE  SetTo([ses EXCEPT ![p][s] = b], p, s, b)
<1>0. ses \in SesTable
  BY BasisParts
<1>1. ses[p] \in [Sessions -> SessionState]
  BY <1>0 DEF SesTable
<1> DEFINE c == [ses[p] EXCEPT ![s] = b]
<1>2. c \in [Sessions -> SessionState] /\ c[s] = b /\ \A z \in Sessions \ {s} : c[z] = ses[p][z]
  BY <1>1
<1>3. [ses EXCEPT ![p][s] = b] = [ses EXCEPT ![p] = c]
  OBVIOUS
<1> HIDE DEF c
<1> QED
  BY <1>0, <1>2, <1>3 DEF SesTable, SetTo

(* A turn that was set up enters the manager, or fails with its pair.        *)
Enters(t) ==
    LET s == SessionOf[t] IN
    \/ SesLike(ses') /\ Moved(turn, turn', t, "open", "none")
       /\ (turn[t].pair \in rt.failed \/ rt.cur = 0)
    \/ /\ rt.cur \in Pairs /\ turn[t].pair \notin rt.failed
       /\ turn' \in TurnTable
       /\ turn'[t].ph = "queued" /\ turn'[t].pair = rt.cur /\ turn'[t].rq = "none"
       /\ turn'[t].killed = turn[t].killed
       /\ \A u \in Turns \ {t} : turn'[u] = turn[u]
       /\ ses' \in SesTable
       /\ ses'[rt.cur][s].queue = Append(ses[rt.cur][s].queue, t)
       /\ ses'[rt.cur][s].block = ses[rt.cur][s].block
       /\ ses'[rt.cur][s].owned
       /\ \/ /\ s \in Resumed /\ ses'[rt.cur][s].thread
             /\ ses'[rt.cur][s].gen = conn[rt.cur].gen - 1
          \/ /\ s \notin Resumed \/ ses[rt.cur][s].owned
             /\ ses'[rt.cur][s].thread = ses[rt.cur][s].thread
             /\ ses'[rt.cur][s].gen = ses[rt.cur][s].gen
       /\ \A o \in Pairs, z \in Sessions : o # rt.cur \/ z # s => ses'[o][z] = ses[o][z]

LEMMA EnterEnters ==
    ASSUME Basis, NEW t \in Turns, EnterManager(t)
    PROVE  /\ Enters(t) /\ turn[t].ph = "setup" /\ turn[t].rq = "none"
           /\ UNCHANGED <<conn, stale, wire, child, faults>>
<1> DEFINE p == rt.cur
           s == SessionOf[t]
<1>0. /\ turn \in TurnTable /\ rt \in RtStates /\ turn[t] \in TurnState /\ s \in Sessions
      /\ turn[t].ph = "setup" /\ turn[t].rq = "none" /\ conn \in ConnTable
  BY BasisParts, CodexAssumption DEF TurnTable, EnterManager, EnterDue, TurnsKnown
<1>1. UNCHANGED <<conn, stale, wire, child, faults>>
  BY DEF EnterManager
<1>2. CASE turn[t].pair \in rt.failed \/ p = 0
  <2> DEFINE a == [turn[t] EXCEPT !.ph = "open"]
             b == [a EXCEPT !.out = "failed"]
             c == [b EXCEPT !.by = t]
             f == [turn EXCEPT ![t].ph = "open"]
  <2>1. turn' = [turn EXCEPT ![t].ph = "open", ![t].out = "failed", ![t].by = t] /\ ses' = ses
    BY <1>2 DEF EnterManager
  <2>2. turn' = [f EXCEPT ![t] = c] /\ f[t] = a
    BY <1>0, <2>1 DEF TurnTable
  <2>3. Moved(turn, f, t, "open", "none")
    BY <1>0, PhaseMoved DEF Late
  <2>4. a \in TurnState /\ f \in TurnTable
    BY <2>2, <2>3 DEF Moved, TurnTable
  <2> HIDE DEF a, f
  <2>5. Like(a, b)
    BY <2>4, FieldsLike DEF Outcomes
  <2>6. b \in TurnState
    BY <2>5 DEF Like
  <2> HIDE DEF b
  <2>7. Like(b, c)
    BY <2>6, FieldsLike
  <2> HIDE DEF c
  <2>8. Like(a, c)
    BY <2>5, <2>7, LikeTwice
  <2>9. Alike(f, turn')
    BY <2>2, <2>4, <2>8, LikeAlike
  <2>10. Moved(turn, turn', t, "open", "none")
    BY <2>3, <2>9, MovedAlike
  <2>11. SesLike(ses')
    BY <2>1, SameStill
  <2> QED
    BY <1>0, <1>1, <1>2, <2>10, <2>11 DEF Enters
<1>3. CASE ~(turn[t].pair \in rt.failed \/ p = 0)
  <2> DEFINE o == ses[p][s]
             a == [o EXCEPT !.owned = TRUE]
             b == [a EXCEPT !.queue = Append(o.queue, t)]
             c == [b EXCEPT !.thread = TRUE]
             d == [c EXCEPT !.gen = conn[p].gen - 1]
             e == IF s \in Resumed /\ ~o.owned THEN d ELSE b
  <2>1. p \in Pairs /\ p \in 0..MaxPairs
    BY <1>0, <1>3, RtFields, CodexAssumption DEF Pairs
  <2>2. /\ turn' = [turn EXCEPT ![t].ph = "queued", ![t].pair = p]
        /\ ses' = [ses EXCEPT ![p][s] =
              IF s \in Resumed /\ ~o.owned
                THEN [o EXCEPT !.owned = TRUE, !.thread = TRUE,
                               !.gen = conn[p].gen - 1, !.queue = Append(o.queue, t)]
                ELSE [o EXCEPT !.owned = TRUE, !.queue = Append(o.queue, t)]]
    BY <1>3 DEF EnterManager
  <2>3. o \in SessionState /\ conn[p].gen - 1 \in Int /\ Append(o.queue, t) \in Seq(Turns \cup {None})
    BY <1>0, <2>1, BasisParts DEF SesTable, ConnTable, SessionState
  <2>4. ses' = [ses EXCEPT ![p][s] = e]
    <3>1. e = IF s \in Resumed /\ ~o.owned
                THEN [o EXCEPT !.owned = TRUE, !.thread = TRUE,
                               !.gen = conn[p].gen - 1, !.queue = Append(o.queue, t)]
                ELSE [o EXCEPT !.owned = TRUE, !.queue = Append(o.queue, t)]
      BY <2>3 DEF SessionState
    <3> HIDE DEF e, o
    <3> QED
      BY <2>2, <3>1
  <2>5. /\ a \in SessionState /\ a.owned /\ a.queue = o.queue /\ a.block = o.block
        /\ a.thread = o.thread /\ a.gen = o.gen
    <3>1. a \in SessionState
      BY <2>3, SessionFields
    <3> QED
      BY <2>3, <3>1 DEF SessionState
  <2> DEFINE q == Append(o.queue, t)
  <2> HIDE DEF o, q
  <2>6. b = [a EXCEPT !.queue = q] /\ q \in Seq(Turns \cup {None})
    BY <2>3 DEF q
  <2> HIDE DEF a
  <2>7. /\ b \in SessionState /\ b.owned /\ b.queue = q /\ b.block = o.block
        /\ b.thread = o.thread /\ b.gen = o.gen
    <3>1. b \in SessionState
      BY <2>5, <2>6, SessionFields
    <3>2. b.queue = q /\ b.owned = a.owned /\ b.block = a.block /\ b.thread = a.thread /\ b.gen = a.gen
      BY <2>5, <2>6 DEF SessionState
    <3> QED
      BY <2>5, <3>1, <3>2
  <2> HIDE DEF b
  <2>8. /\ c \in SessionState /\ c.owned /\ c.queue = q /\ c.block = o.block /\ c.thread
    <3>1. c \in SessionState
      BY <2>7, SessionFields
    <3>2. c.queue = b.queue /\ c.owned = b.owned /\ c.block = b.block /\ c.thread = TRUE
      BY <2>7 DEF SessionState
    <3> QED
      BY <2>7, <3>1, <3>2
  <2> HIDE DEF c
  <2>9. /\ d \in SessionState /\ d.owned /\ d.queue = q /\ d.block = o.block /\ d.thread
        /\ d.gen = conn[p].gen - 1
    <3>1. d \in SessionState
      BY <2>3, <2>8, SessionFields
    <3>2. d.queue = c.queue /\ d.owned = c.owned /\ d.block = c.block /\ d.thread = c.thread
          /\ d.gen = conn[p].gen - 1
      BY <2>8 DEF SessionState
    <3> QED
      BY <2>8, <3>1, <3>2
  <2> HIDE DEF d
  <2>10. /\ e \in SessionState /\ e.owned /\ e.queue = q /\ e.block = o.block
         /\ \/ s \in Resumed /\ e.thread /\ e.gen = conn[p].gen - 1
            \/ (s \notin Resumed \/ o.owned) /\ e.thread = o.thread /\ e.gen = o.gen
    BY <2>7, <2>9
  <2> HIDE DEF e
  <2>11. /\ ses' \in SesTable /\ ses'[p][s] = e
         /\ \A r \in Pairs, z \in Sessions : r # p \/ z # s => ses'[r][z] = ses[r][z]
    <3> HIDE DEF p, s
    <3>1. p \in Pairs /\ s \in Sessions /\ e \in SessionState /\ ses' = [ses EXCEPT ![p][s] = e]
      BY <1>0, <2>1, <2>4, <2>10
    <3> QED
      <4>1. SetTo([ses EXCEPT ![p][s] = e], p, s, e)
        BY <3>1, SessionSet
      <4>2. SetTo(ses', p, s, e)
        BY <3>1, <4>1
      <4> QED
        BY <4>2 DEF SetTo
  <2>12. /\ turn' \in TurnTable /\ turn'[t].ph = "queued" /\ turn'[t].pair = p
         /\ turn'[t].rq = "none" /\ turn'[t].killed = turn[t].killed
         /\ \A u \in Turns \ {t} : turn'[u] = turn[u]
    <3> DEFINE x == [turn[t] EXCEPT !.ph = "queued", !.pair = p]
    <3>1. /\ x \in TurnState /\ x.ph = "queued" /\ x.pair = p
          /\ x.rq = "none" /\ x.killed = turn[t].killed
      BY <1>0, <2>1 DEF TurnState
    <3>2. turn' = [turn EXCEPT ![t] = x]
      BY <1>0, <2>2 DEF TurnTable
    <3> HIDE DEF x
    <3> QED
      BY <1>0, <3>1, <3>2 DEF TurnTable
  <2>13. Enters(t)
    BY <1>3, <2>1, <2>10, <2>11, <2>12 DEF Enters, o, q
  <2> QED
    BY <1>0, <1>1, <2>13
<1> QED
  BY <1>2, <1>3

LEMMA EnterManagerBasis == ASSUME Basis, NEW t \in Turns, EnterManager(t) PROVE Basis'
<1> DEFINE s == SessionOf[t]
           p == rt.cur
<1>0. /\ turn \in TurnTable /\ rt \in RtStates /\ faults \in 0..MaxFaults /\ s \in Sessions
      /\ TurnsKnown /\ QueueKnown /\ BlockKnown /\ stale \in [Pairs -> SUBSET Turns]
      /\ ses \in SesTable
  BY BasisParts, CodexAssumption
<1>1. /\ Enters(t) /\ turn[t].ph = "setup" /\ turn[t].rq = "none"
      /\ UNCHANGED <<conn, stale, wire, child, faults>>
  BY EnterEnters
<1>2. rt' \in RtStates
  <2>1. PICK i \in DOMAIN rt.waits : rt' = [rt EXCEPT !.waits = RemoveAt(@, i)]
    BY DEF EnterManager
  <2>2. rt.waits \in Seq(Turns)
    BY <1>0, RtFields
  <2>3. i \in 1..Len(rt.waits)
    BY <2>1, <2>2
  <2>4. RemoveAt(rt.waits, i) \in Seq(Turns)
    BY <2>2, <2>3, RemoveAtProperties
  <2> QED
    BY <1>0, <2>1, <2>4, RtFields
<1>3. Tables
  BY <1>0, <1>1, SameTables
<1>4. CASE SesLike(ses') /\ Moved(turn, turn', t, "open", "none")
  <2>1. turn' \in TurnTable /\ TurnsKnown'
    BY <1>0, <1>1, <1>4 DEF TurnsKnown, Moved
  <2>2. ses' \in SesTable /\ QueuesStay(ses')
    BY <1>4, LikeQueues
  <2>3. BlockKnown'
    BY <2>2 DEF BlockKnown, QueuesStay
  <2>4. QueueKnown'
    <3>1. \A o \in Pairs, z \in Sessions : \A i \in DOMAIN ses[o][z].queue :
            ses[o][z].queue[i] # None => ses[o][z].queue[i] \in Turns
      BY <1>0 DEF SesTable, SessionState
    <3>2. \A u \in Turns : turn[u].ph = "queued" =>
            turn'[u].ph = turn[u].ph /\ turn'[u].pair = turn[u].pair
      BY <1>1, <1>4 DEF Moved
    <3> QED
      BY <1>0, <2>2, <3>1, <3>2 DEF QueueKnown, QueueOf, QueuesStay
  <2> QED
    BY <1>0, <1>1, <1>2, <1>3, <2>1, <2>2, <2>3, <2>4, BasisFrom
<1>5. CASE /\ p \in Pairs /\ turn' \in TurnTable
           /\ turn'[t].ph = "queued" /\ turn'[t].pair = p /\ turn'[t].rq = "none"
           /\ \A u \in Turns \ {t} : turn'[u] = turn[u]
           /\ ses' \in SesTable
           /\ ses'[p][s].queue = Append(ses[p][s].queue, t)
           /\ \A o \in Pairs, z \in Sessions : o # p \/ z # s => ses'[o][z] = ses[o][z]
  <2>1. TurnsKnown'
    BY <1>0, <1>5 DEF TurnsKnown
  <2>2. QueuedStay(None)
    BY <1>1, <1>5 DEF QueuedStay
  <2>3. t # None
    BY CodexAssumption
  <2>4. QueueKnown'
    BY <1>0, <1>1, <1>5, <2>2, <2>3, QueueAppend
  <2>5. BlockKnown'
    <3>1. Append(ses[p][s].queue, t) # <<>>
      <4>1. ses[p][s].queue \in Seq(Turns \cup {None})
        BY <1>0, <1>5 DEF SesTable, SessionState
      <4>2. t \in Turns \cup {None}
        OBVIOUS
      <4> QED
        BY <4>1, <4>2, AppendNotEmpty
    <3>2. ASSUME NEW o \in Pairs, NEW z \in Sessions, ses'[o][z].block # None
          PROVE  ses'[o][z].queue # <<>>
      <4>1. CASE o = p /\ z = s
        BY <1>5, <3>1, <4>1
      <4>2. CASE o # p \/ z # s
        BY <1>0, <1>5, <3>2, <4>2 DEF BlockKnown
      <4> QED
        BY <4>1, <4>2
    <3> QED
      BY <3>2 DEF BlockKnown
  <2> QED
    BY <1>0, <1>1, <1>2, <1>3, <1>5, <2>1, <2>4, <2>5, BasisFrom
<1> QED
  BY <1>1, <1>4, <1>5 DEF Enters

(* The abort of a kill goes into the queue of its session.                   *)
Aborts(t) ==
    LET s == SessionOf[t] IN
    /\ turn' \in TurnTable /\ turn'[t].killed = -1
    /\ turn'[t].ph = turn[t].ph /\ turn'[t].pair = turn[t].pair /\ turn'[t].rq = turn[t].rq
    /\ \A u \in Turns \ {t} : turn'[u] = turn[u]
    /\ \/ ses' = ses /\ (rt.cur = 0 \/ turn[t].killed \in rt.failed)
       \/ /\ rt.cur \in Pairs
          /\ ses' \in SesTable
          /\ ses'[rt.cur][s].queue = Append(ses[rt.cur][s].queue, None)
          /\ ses'[rt.cur][s].owned
          /\ ses'[rt.cur][s].thread = ses[rt.cur][s].thread
          /\ ses'[rt.cur][s].gen = ses[rt.cur][s].gen
          /\ \A o \in Pairs, z \in Sessions : o # rt.cur \/ z # s => ses'[o][z] = ses[o][z]

LEMMA AbortAborts ==
    ASSUME Basis, NEW t \in Turns, AbortAfterSetup(t)
    PROVE  Aborts(t) /\ UNCHANGED <<conn, stale, wire, child, faults, rt>>
<1> DEFINE s == SessionOf[t]
           p == rt.cur
           o == ses[p][s]
           a == [o EXCEPT !.owned = TRUE]
           b == [a EXCEPT !.queue = Append(o.queue, None)]
<1>0. /\ turn \in TurnTable /\ rt \in RtStates /\ s \in Sessions /\ ses \in SesTable
      /\ turn[t] \in TurnState
  BY BasisParts, CodexAssumption DEF TurnTable
<1>1. UNCHANGED <<conn, stale, wire, child, faults, rt>>
  BY DEF AbortAfterSetup
<1>2. /\ turn' \in TurnTable /\ turn'[t].killed = -1
      /\ turn'[t].ph = turn[t].ph /\ turn'[t].pair = turn[t].pair /\ turn'[t].rq = turn[t].rq
      /\ \A u \in Turns \ {t} : turn'[u] = turn[u]
  <2> DEFINE x == [turn[t] EXCEPT !.killed = -1]
  <2>0. -1 \in -1..MaxPairs
    BY CodexAssumption
  <2>1. /\ x \in TurnState /\ x.ph = turn[t].ph /\ x.pair = turn[t].pair
        /\ x.rq = turn[t].rq /\ x.killed = -1
    BY <1>0, <2>0 DEF TurnState
  <2>2. turn' = [turn EXCEPT ![t] = x]
    BY <1>0 DEF TurnTable, AbortAfterSetup
  <2> HIDE DEF x
  <2> QED
    BY <1>0, <2>1, <2>2 DEF TurnTable
<1>3. CASE p = 0 \/ turn[t].killed \in rt.failed
  <2>1. ses' = ses
    BY <1>3 DEF AbortAfterSetup
  <2> QED
    BY <1>1, <1>2, <1>3, <2>1 DEF Aborts
<1>4. CASE ~(p = 0 \/ turn[t].killed \in rt.failed)
  <2>1. p \in Pairs
    BY <1>0, <1>4, RtFields, CodexAssumption DEF Pairs
  <2>2. ses' = [ses EXCEPT ![p][s].owned = TRUE, ![p][s].queue = Append(@, None)]
    BY <1>4 DEF AbortAfterSetup
  <2>3. o \in SessionState /\ Append(o.queue, None) \in Seq(Turns \cup {None})
    BY <1>0, <2>1 DEF SesTable, SessionState
  <2>4. ses' = [ses EXCEPT ![p][s] = b]
    BY <1>0, <2>1, <2>2, <2>3 DEF SesTable, SessionState
  <2>5. /\ a \in SessionState /\ a.owned /\ a.thread = o.thread /\ a.gen = o.gen
    <3>1. a \in SessionState
      BY <2>3, SessionFields
    <3> QED
      BY <2>3, <3>1 DEF SessionState
  <2> DEFINE q == Append(o.queue, None)
  <2>6. b = [a EXCEPT !.queue = q] /\ q \in Seq(Turns \cup {None})
    BY <2>3
  <2> HIDE DEF o, q, a
  <2>7. /\ b \in SessionState /\ b.owned /\ b.queue = q
        /\ b.thread = o.thread /\ b.gen = o.gen
    <3>1. b \in SessionState
      BY <2>5, <2>6, SessionFields
    <3>2. b.queue = q /\ b.owned = a.owned /\ b.thread = a.thread /\ b.gen = a.gen
      BY <2>5, <2>6 DEF SessionState
    <3> QED
      BY <2>5, <3>1, <3>2
  <2> HIDE DEF b, p, s
  <2>8. SetTo([ses EXCEPT ![p][s] = b], p, s, b)
    BY <1>0, <2>1, <2>7, SessionSet
  <2>9. SetTo(ses', p, s, b)
    BY <2>4, <2>8
  <2>10. \/ ses' = ses /\ (rt.cur = 0 \/ turn[t].killed \in rt.failed)
         \/ /\ p \in Pairs
            /\ ses' \in SesTable
            /\ ses'[p][s].queue = q
            /\ ses'[p][s].owned
            /\ ses'[p][s].thread = o.thread
            /\ ses'[p][s].gen = o.gen
            /\ \A r \in Pairs, z \in Sessions : r # p \/ z # s => ses'[r][z] = ses[r][z]
    BY <2>1, <2>7, <2>9 DEF SetTo
  <2>11. Aborts(t)
    BY <1>2, <2>10 DEF Aborts, p, s, q, o
  <2> QED
    BY <1>1, <2>11
<1> QED
  BY <1>3, <1>4

LEMMA AbortBasis == ASSUME Basis, NEW t \in Turns, AbortAfterSetup(t) PROVE Basis'
<1> DEFINE s == SessionOf[t]
           p == rt.cur
<1>0. /\ turn \in TurnTable /\ rt \in RtStates /\ faults \in 0..MaxFaults /\ s \in Sessions
      /\ TurnsKnown /\ QueueKnown /\ BlockKnown /\ stale \in [Pairs -> SUBSET Turns]
      /\ ses \in SesTable
  BY BasisParts, CodexAssumption
<1>1. Aborts(t) /\ UNCHANGED <<conn, stale, wire, child, faults, rt>>
  BY AbortAborts
<1>2. Tables
  BY <1>0, <1>1, SameTables
<1>3. turn[t].ph # "new"
  BY <1>0, CodexAssumption DEF TurnsKnown, AbortAfterSetup, KillDue, RtStates, Pairs
<1>4. turn' \in TurnTable /\ TurnsKnown'
  BY <1>0, <1>1, <1>3 DEF TurnsKnown, Aborts
<1>5. \A u \in Turns : turn'[u].ph = turn[u].ph /\ turn'[u].pair = turn[u].pair
  BY <1>1 DEF Aborts
<1>6. ses' \in SesTable
  BY <1>0, <1>1 DEF Aborts
<1>7. QueueKnown' /\ BlockKnown'
  <2>1. CASE ses' = ses
    <3>1. \A o \in Pairs, z \in Sessions : \A i \in DOMAIN ses[o][z].queue :
            ses[o][z].queue[i] # None => ses[o][z].queue[i] \in Turns
      BY <1>0 DEF SesTable, SessionState
    <3>2. QueueKnown'
      BY <1>0, <1>5, <2>1, <3>1 DEF QueueKnown, QueueOf
    <3> QED
      BY <1>0, <2>1, <3>2 DEF BlockKnown
  <2>2. CASE ~(ses' = ses)
    <3>1. /\ p \in Pairs /\ ses'[p][s].queue = Append(ses[p][s].queue, None)
          /\ \A o \in Pairs, z \in Sessions : o # p \/ z # s => ses'[o][z] = ses[o][z]
      BY <1>1, <2>2 DEF Aborts
    <3>2. QueuedStay(None)
      BY <1>5 DEF QueuedStay
    <3> HIDE DEF p, s
    <3>6. \A o \in Pairs, z \in Sessions : o # p \/ z # s => ses'[o][z].queue = ses[o][z].queue
      BY <3>1
    <3>3. QueueKnown'
      BY <1>0, <3>1, <3>2, <3>6, QueueAppend
    <3>4. Append(ses[p][s].queue, None) # <<>>
      <4>1. PICK q \in Seq(Turns \cup {None}) : q = ses[p][s].queue
        BY <1>0, <3>1 DEF SesTable, SessionState
      <4>2. Append(q, None) # <<>>
        BY <4>1, AppendNotEmpty
      <4> QED
        BY <4>1, <4>2
    <3>5. BlockKnown'
      <4> SUFFICES ASSUME NEW o \in Pairs, NEW z \in Sessions, ses'[o][z].block # None
                   PROVE  ses'[o][z].queue # <<>>
        BY DEF BlockKnown
      <4>1. CASE o = p /\ z = s
        BY <3>1, <3>4, <4>1
      <4>2. CASE o # p \/ z # s
        BY <1>0, <3>1, <4>2 DEF BlockKnown
      <4> QED
        BY <4>1, <4>2
    <3> QED
      BY <3>3, <3>5
  <2> QED
    BY <2>1, <2>2
<1> QED
  BY <1>0, <1>1, <1>2, <1>4, <1>6, <1>7, BasisFrom

(* The queue of a session: its head interrupts, is an abort that is over, or *)
(* begins its turn.                                                          *)
HeadGoes(p, s) ==
    /\ ses' \in SesTable /\ SesKeeps(ses') /\ rt' = rt /\ child' = child
    /\ \A r \in Pairs : conn'[r].gen = conn[r].gen
    /\ \/ Alike(turn, turn') /\ wire' = wire
       \/ \E h \in Turns, ph \in {"load", "start"} :
            /\ turn[h].ph = "queued" /\ turn[h].pair = p /\ SessionOf[h] = s
            /\ Asks(p, h, ph)

Advances(p, s, next) ==
    LET q == ses[p][s].queue IN
    /\ \/ /\ Head(q) = None /\ ses' = [ses EXCEPT ![p][s] = next]
          /\ UNCHANGED <<turn, conn, wire, child, faults>>
       \/ Head(q) # None /\ BeginTurn(p, Head(q), next)
    /\ UNCHANGED <<stale, rt>>

LEMMA AdvanceGoes ==
    ASSUME Basis, NEW p \in Pairs, NEW s \in Sessions, NEW next \in SessionState,
           next.queue = Tail(ses[p][s].queue), next.block = None,
           next.owned = ses[p][s].owned, next.thread = ses[p][s].thread,
           next.gen = ses[p][s].gen, ses[p][s].queue # <<>>, Advances(p, s, next)
    PROVE  HeadGoes(p, s) /\ Basis'
<1> DEFINE q == ses[p][s].queue
           h == Head(q)
<1>0. /\ turn \in TurnTable /\ rt \in RtStates /\ faults \in 0..MaxFaults
      /\ TurnsKnown /\ QueueKnown /\ BlockKnown /\ stale \in [Pairs -> SUBSET Turns]
      /\ ses \in SesTable
  BY BasisParts
<1>1. q \in Seq(Turns \cup {None}) /\ h = q[1] /\ 1 \in DOMAIN q
  <2>1. q \in Seq(Turns \cup {None})
    BY <1>0 DEF SesTable, SessionState
  <2>2. Len(q) \in Nat \ {0}
    BY <2>1, EmptySeq, LenProperties
  <2> QED
    BY <2>1, <2>2
<1>2. h # None => /\ h \in Turns /\ turn[h].ph = "queued" /\ turn[h].pair = p
                  /\ SessionOf[h] = s /\ turn[h].rq = "none"
  <2>1. h # None => h \in Turns
    BY <1>1
  <2>2. h # None => turn[h].ph = "queued" /\ turn[h].pair = p /\ SessionOf[h] = s
    BY <1>0, <1>1 DEF QueueKnown, QueueOf
  <2> QED
    BY <1>0, <2>1, <2>2 DEF TurnsKnown
(* What is left of the session, with x running in it.                        *)
<1> DEFINE b(x) == [next EXCEPT !.running = x]
<1>3. ASSUME NEW v \in SessionState, ses' = [ses EXCEPT ![p][s] = v], v.queue = Tail(q),
             v.block = None, v.owned = ses[p][s].owned, v.thread = ses[p][s].thread,
             v.gen = ses[p][s].gen, QueuedStay(h)
      PROVE  ses' \in SesTable /\ SesKeeps(ses') /\ QueueKnown' /\ BlockKnown'
  <2>1. SetTo([ses EXCEPT ![p][s] = v], p, s, v)
    BY <1>3, SessionSet
  <2>2. SetTo(ses', p, s, v)
    BY <1>3, <2>1
  <2>3. /\ ses' \in SesTable /\ ses'[p][s] = v
        /\ \A o \in Pairs, z \in Sessions : o # p \/ z # s => ses'[o][z] = ses[o][z]
    BY <2>2 DEF SetTo
  <2>4. SesKeeps(ses')
    BY <1>3, <2>3 DEF SesKeeps
  <2>5. QueueKnown'
    <3>1. ses'[p][s].queue = Tail(ses[p][s].queue)
      BY <1>3, <2>3
    <3>2. \A o \in Pairs, z \in Sessions : o # p \/ z # s => ses'[o][z].queue = ses[o][z].queue
      BY <2>3
    <3>3. QueuedStay(Head(ses[p][s].queue))
      BY <1>3
    <3> QED
      BY <3>1, <3>2, <3>3, QueueTail
  <2>6. BlockKnown'
    BY <1>0, <1>3, <2>3 DEF BlockKnown
  <2> QED
    BY <2>3, <2>4, <2>5, <2>6
<1>4. CASE /\ h = None /\ ses' = [ses EXCEPT ![p][s] = next]
           /\ UNCHANGED <<turn, conn, wire, child, faults, stale, rt>>
  <2>1. Alike(turn, turn') /\ QueuedStay(h)
    BY <1>0, <1>4 DEF Alike, QueuedStay
  <2> HIDE DEF h
  <2>2. ses' \in SesTable /\ SesKeeps(ses') /\ QueueKnown' /\ BlockKnown'
    BY <1>3, <1>4, <2>1
  <2>3. Tables
    BY <1>0, <1>4, SameTables
  <2>4. TurnsKnown'
    BY <1>0, <1>4 DEF TurnsKnown
  <2>5. Basis'
    BY <1>0, <1>4, <2>2, <2>3, <2>4, BasisFrom
  <2> QED
    BY <1>4, <2>1, <2>2, <2>5 DEF HeadGoes
<1>5. CASE h # None /\ BeginTurn(p, h, next) /\ stale' = stale /\ rt' = rt
  <2> DEFINE load == ~next.thread \/ next.gen # conn[p].gen
             ph == IF load THEN "load" ELSE "start"
             f == [turn EXCEPT ![h].ph = ph]
  <2>0. h \in Turns /\ SessionOf[h] = s /\ ph \in {"load", "start"}
    BY <1>2, <1>5
  <2>1. ses' = [ses EXCEPT ![p][s] = [next EXCEPT !.running = h]]
    BY <1>5, <2>0 DEF BeginTurn
  <2>2. Issue(p, f, h, "rq", LineFor(h, ph))
    <3>1. Issue(p, f, h, "rq", IF load THEN LoadLine(h) ELSE StartLine(h))
      BY <1>5, <2>0 DEF BeginTurn
    <3>2. LineFor(h, ph) = IF load THEN LoadLine(h) ELSE StartLine(h)
      BY DEF LineFor, Loading
    <3> QED
      BY <3>1, <3>2
  <2>3. Moved(turn, f, h, ph, "none")
    <3> HIDE DEF ph, h
    <3> QED
      BY <1>0, <1>2, <1>5, <2>0, PhaseMoved DEF Late
  <2> HIDE DEF f, ph, h
  <2>4. /\ Asks(p, h, ph) /\ Tables /\ faults' \in 0..MaxFaults
        /\ child' = child /\ \A r \in Pairs : conn'[r].gen = conn[r].gen
    BY <1>5, <2>0, <2>2, <2>3, IssuedRequest
  <2>5. PICK x \in {"sent", "joined", "error"} : Moved(turn, turn', h, ph, x)
    BY <2>4 DEF Asks
  <2>6. QueuedStay(h)
    BY <2>5 DEF Moved, QueuedStay
  <2>7. ses' \in SesTable /\ SesKeeps(ses') /\ QueueKnown' /\ BlockKnown'
    <3> DEFINE c == [next EXCEPT !.running = h]
    <3>1. c \in SessionState
      BY <2>0, SessionFields
    <3>2. /\ c.queue = next.queue /\ c.block = next.block /\ c.owned = next.owned
          /\ c.thread = next.thread /\ c.gen = next.gen
      BY DEF SessionState
    <3> HIDE DEF c
    <3>3. ses' = [ses EXCEPT ![p][s] = c]
      BY <2>1 DEF c
    <3> QED
      BY <1>3, <2>6, <3>1, <3>2, <3>3
  <2>8. turn' \in TurnTable /\ TurnsKnown'
    <3>1. \A u \in Turns : u # h => /\ turn'[u].ph = turn[u].ph /\ turn'[u].pair = turn[u].pair
                                    /\ turn'[u].killed = turn[u].killed /\ turn'[u].rq = turn[u].rq
      BY <2>5 DEF Moved
    <3>2. turn'[h].ph \in {"load", "start"} /\ turn'[h].pair = p /\ turn' \in TurnTable
      BY <1>2, <1>5, <2>0, <2>5 DEF Moved
    <3> QED
      BY <1>0, <3>1, <3>2 DEF TurnsKnown
  <2>9. Basis'
    BY <1>0, <1>5, <2>4, <2>7, <2>8, BasisFrom
  <2>10. HeadGoes(p, s)
    BY <1>2, <1>5, <2>0, <2>4, <2>7 DEF HeadGoes
  <2> QED
    BY <2>9, <2>10
<1> QED
  BY <1>4, <1>5 DEF Advances

LEMMA HeadStartsGoes ==
    ASSUME Basis, NEW p \in Pairs, NEW s \in Sessions, HeadStarts(p, s)
    PROVE  HeadGoes(p, s) /\ Basis'
<1> DEFINE q == ses[p][s]
           r == q.running
           next == [q EXCEPT !.queue = Tail(@)]
           a == [q EXCEPT !.block = r]
           drv == turn[r].drv = "none"
           b == [a EXCEPT !.drives = drv]
<1>0. /\ turn \in TurnTable /\ rt \in RtStates /\ faults \in 0..MaxFaults
      /\ stale \in [Pairs -> SUBSET Turns] /\ ses \in SesTable
      /\ q \in SessionState /\ r \in Turns \cup {None} /\ q.queue \in Seq(Turns \cup {None})
  BY BasisParts DEF SesTable, SessionState
<1>1. q.queue # <<>> /\ q.block = None
  BY DEF HeadStarts, HeadDue
<1>2. CASE /\ r # None
           /\ ses' = [ses EXCEPT ![p][s].block = r, ![p][s].drives = (turn[r].drv = "none")]
           /\ turn' = Interrupted(turn, r)
           /\ UNCHANGED <<conn, wire, child, faults, stale, rt>>
  <2>1. Alike(turn, turn')
    BY <1>0, <1>2, InterruptedKeeps
  <2>2. ses' = [ses EXCEPT ![p][s] = b] /\ drv \in BOOLEAN
    BY <1>0, <1>2 DEF SesTable, SessionState
  <2> HIDE DEF drv
  <2>3. /\ a \in SessionState /\ a.queue = q.queue /\ a.owned = q.owned
        /\ a.thread = q.thread /\ a.gen = q.gen
    <3>1. a \in SessionState
      BY <1>0, SessionFields
    <3> QED
      BY <1>0, <3>1 DEF SessionState
  <2> HIDE DEF a
  <2>4. /\ b \in SessionState /\ b.queue = q.queue /\ b.owned = q.owned
        /\ b.thread = q.thread /\ b.gen = q.gen
    <3>1. b \in SessionState
      BY <2>2, <2>3, SessionFields
    <3>2. b.queue = a.queue /\ b.owned = a.owned /\ b.thread = a.thread /\ b.gen = a.gen
      BY <2>3 DEF SessionState
    <3> QED
      BY <2>3, <3>1, <3>2
  <2> HIDE DEF b
  <2>5. SetTo([ses EXCEPT ![p][s] = b], p, s, b)
    BY <2>4, SessionSet
  <2>6. SetTo(ses', p, s, b)
    BY <2>2, <2>5
  <2>7. ses' \in SesTable /\ SesKeeps(ses')
    BY <2>4, <2>6 DEF SetTo, SesKeeps
  <2>8. QueuesStay(ses')
    <3>1. \A o \in Pairs, z \in Sessions : ses[o][z].block # None => ses[o][z].queue # <<>>
      BY BasisParts DEF BlockKnown
    <3> QED
      BY <1>1, <2>4, <2>6, <3>1 DEF SetTo, QueuesStay
  <2>9. Basis'
    BY <1>0, <1>2, <2>1, <2>7, <2>8, AlikeStill, SameTables, StillBasis
  <2> QED
    BY <1>2, <2>1, <2>7, <2>9 DEF HeadGoes
<1>3. CASE Advances(p, s, next)
  <2>1. Tail(q.queue) \in Seq(Turns \cup {None}) /\ next = [q EXCEPT !.queue = Tail(q.queue)]
    BY <1>0, <1>1 DEF SessionState
  <2> DEFINE w == Tail(q.queue)
  <2>2. w \in Seq(Turns \cup {None}) /\ next = [q EXCEPT !.queue = w] /\ w = Tail(ses[p][s].queue)
    BY <2>1
  <2> HIDE DEF w
  <2>3. next \in SessionState
    BY <1>0, <2>2, SessionFields
  <2>4. /\ next.queue = w /\ next.block = q.block /\ next.owned = q.owned
        /\ next.thread = q.thread /\ next.gen = q.gen
    BY <1>0, <2>2 DEF SessionState
  <2> HIDE DEF next
  <2> QED
    BY <1>1, <1>3, <2>2, <2>3, <2>4, AdvanceGoes
<1>4. Advances(p, s, next) \/ (/\ r # None
           /\ ses' = [ses EXCEPT ![p][s].block = r, ![p][s].drives = (turn[r].drv = "none")]
           /\ turn' = Interrupted(turn, r)
           /\ UNCHANGED <<conn, wire, child, faults, stale, rt>>)
  BY DEF HeadStarts, Advances
<1> QED
  BY <1>2, <1>3, <1>4

LEMMA HeadResumesGoes ==
    ASSUME Basis, NEW p \in Pairs, NEW s \in Sessions, HeadResumes(p, s)
    PROVE  HeadGoes(p, s) /\ Basis'
<1> DEFINE q == ses[p][s]
           w == Tail(q.queue)
           next == [q EXCEPT !.queue = Tail(@), !.block = None, !.drives = FALSE]
           a == [q EXCEPT !.queue = w]
           b == [a EXCEPT !.block = None]
           c == [b EXCEPT !.drives = FALSE]
<1>0. /\ ses \in SesTable /\ q \in SessionState /\ q.queue \in Seq(Turns \cup {None})
  BY BasisParts DEF SesTable, SessionState
<1>1. q.queue # <<>>
  BY BasisParts DEF HeadResumes, BlockKnown
<1>2. Advances(p, s, next)
  BY DEF HeadResumes, Advances
<1>3. w \in Seq(Turns \cup {None}) /\ w = Tail(ses[p][s].queue)
  BY <1>0, <1>1
<1>4. next = c
  BY <1>0 DEF SessionState
<1> HIDE DEF w, next
<1>5. /\ a \in SessionState /\ a.queue = w /\ a.owned = q.owned
      /\ a.thread = q.thread /\ a.gen = q.gen
  <2>1. a \in SessionState
    BY <1>0, <1>3, SessionFields
  <2> QED
    BY <1>0, <2>1 DEF SessionState
<1> HIDE DEF a
<1>6. /\ b \in SessionState /\ b.queue = w /\ b.owned = q.owned
      /\ b.thread = q.thread /\ b.gen = q.gen /\ b.block = None
  <2>1. b \in SessionState
    BY <1>5, SessionFields
  <2>2. b.queue = a.queue /\ b.owned = a.owned /\ b.thread = a.thread /\ b.gen = a.gen
        /\ b.block = None
    BY <1>5 DEF SessionState
  <2> QED
    BY <1>5, <2>1, <2>2
<1> HIDE DEF b
<1>7. /\ c \in SessionState /\ c.queue = w /\ c.owned = q.owned
      /\ c.thread = q.thread /\ c.gen = q.gen /\ c.block = None
  <2>1. c \in SessionState
    BY <1>6, SessionFields
  <2>2. c.queue = b.queue /\ c.owned = b.owned /\ c.thread = b.thread /\ c.gen = b.gen
        /\ c.block = b.block
    BY <1>6 DEF SessionState
  <2> QED
    BY <1>6, <2>1, <2>2
<1> HIDE DEF c
<1> QED
  BY <1>1, <1>2, <1>3, <1>4, <1>7, AdvanceGoes

(* The app-server writes: it answers at most the one request it takes.       *)
Served(p, lines) ==
    /\ lines \in Seq(Answers) /\ wire' \in WireTable
    /\ wire'[p].in \subseteq wire[p].in /\ wire'[p].out = wire[p].out \o lines
    /\ \A o \in Pairs \ {p} : wire'[o] = wire[o]
    /\ child' \in KidTable
    /\ \A o \in Pairs, s \in Sessions : child[o][s].loaded => child'[o][s].loaded
    /\ \A j \in DOMAIN lines : IsAnswer(lines[j]) =>
         /\ j = 1
         /\ \E m \in wire[p].in \ wire'[p].in :
              /\ IsOpen(m) /\ lines[j].for = m.for /\ lines[j].what = m.what
              /\ m.what = "load" /\ lines[j].answer = "ok"
                   => child'[p][SessionOf[m.for]].loaded

AnswersOf(m) == IF m.what = "interrupt" THEN {"ok", "idle", "error"} \cup Turns
                                        ELSE {"ok", "missing", "error"}

Answering(lines, m, a) ==
    \A j \in DOMAIN lines : IsAnswer(lines[j]) =>
      /\ j = 1 /\ m.open /\ lines[j].for = m.for /\ lines[j].what = m.what
      /\ lines[j].answer = a

LEMMA ReplyLines ==
    ASSUME NEW m \in Questions, NEW a \in AnswersOf(m)
    PROVE  /\ Reply(m, a) \in Seq(Answers) /\ Len(Reply(m, a)) \in {0, 1}
           /\ DOMAIN Reply(m, a) \subseteq {1}
           /\ \A j \in DOMAIN Reply(m, a) :
                /\ m.open /\ Reply(m, a)[j].for = m.for /\ Reply(m, a)[j].what = m.what
                /\ Reply(m, a)[j].answer = a
<1> DEFINE l == [kind |-> "reply", for |-> m.for, what |-> m.what, answer |-> a]
<1>1. l \in Answers
  <2>1. CASE m.what = "interrupt"
    BY <2>1 DEF Answers, Questions, AnswersOf
  <2>2. CASE m.what # "interrupt"
    BY <2>2 DEF Answers, Questions, AnswersOf
  <2> QED
    BY <2>1, <2>2
<1>2. l.for = m.for /\ l.what = m.what /\ l.answer = a
  OBVIOUS
<1>3. Reply(m, a) = IF m.open THEN <<l>> ELSE <<>>
  BY DEF Reply
<1> HIDE DEF l
<1>4. <<l>> \in Seq(Answers) /\ Len(<<l>>) = 1 /\ DOMAIN <<l>> = {1} /\ <<l>>[1] = l
  BY <1>1
<1>5. <<>> \in Seq(Answers) /\ Len(<<>>) = 0 /\ DOMAIN <<>> = {}
  BY EmptySeq
<1> QED
  BY <1>2, <1>3, <1>4, <1>5

LEMMA EventLine ==
    ASSUME NEW kind \in {"started", "completed", "interrupted", "broken"}, NEW x \in Turns
    PROVE  /\ Event(kind, x) \in Seq(Answers) /\ Len(Event(kind, x)) = 1
           /\ DOMAIN Event(kind, x) = {1} /\ ~IsAnswer(Event(kind, x)[1])
<1> DEFINE l == [kind |-> kind, for |-> x, what |-> "event", answer |-> "none"]
<1>1. l \in Answers /\ ~IsAnswer(l)
  BY DEF Answers, IsAnswer
<1>2. Event(kind, x) = <<l>>
  BY DEF Event
<1> HIDE DEF l
<1> QED
  BY <1>1, <1>2

LEMMA ReplyAndEvent ==
    ASSUME NEW m \in Questions, NEW a \in AnswersOf(m),
           NEW kind \in {"started", "completed", "interrupted", "broken"}, NEW x \in Turns
    PROVE  /\ Reply(m, a) \o Event(kind, x) \in Seq(Answers)
           /\ Answering(Reply(m, a) \o Event(kind, x), m, a)
<1>1. PICK r \in Seq(Answers) : r = Reply(m, a)
  BY ReplyLines
<1>2. /\ Len(r) \in {0, 1} /\ DOMAIN r \subseteq {1}
      /\ \A j \in DOMAIN r : m.open /\ r[j].for = m.for /\ r[j].what = m.what /\ r[j].answer = a
  BY <1>1, ReplyLines
<1>3. PICK e \in Seq(Answers) : e = Event(kind, x)
  BY EventLine
<1>4. Len(e) = 1 /\ ~IsAnswer(e[1])
  BY <1>3, EventLine
<1> DEFINE w == r \o e
<1>5. w \in Seq(Answers) /\ DOMAIN w = 1..(Len(r) + 1)
  <2>1. w \in Seq(Answers) /\ Len(w) = Len(r) + Len(e)
    BY ConcatProperties
  <2>2. DOMAIN w = 1..Len(w)
    BY <2>1, LenProperties
  <2> QED
    BY <1>4, <2>1, <2>2
<1>6. \A j \in 1..(Len(r) + 1) : w[j] = IF j <= Len(r) THEN r[j] ELSE e[j - Len(r)]
  BY <1>2, <1>4
<1>7. \A j \in DOMAIN w : IsAnswer(w[j]) =>
        j = 1 /\ m.open /\ w[j].for = m.for /\ w[j].what = m.what /\ w[j].answer = a
  <2> HIDE DEF w
  <2>1. ASSUME NEW j \in DOMAIN w, IsAnswer(w[j]) PROVE j \in DOMAIN r /\ w[j] = r[j]
    <3>1. CASE j <= Len(r)
      BY <1>2, <1>5, <1>6, <2>1, <3>1
    <3>2. CASE ~(j <= Len(r))
      <4>1. j = Len(r) + 1 /\ w[j] = e[1]
        BY <1>2, <1>5, <1>6, <2>1, <3>2
      <4> QED
        BY <1>4, <2>1, <4>1
    <3> QED
      BY <3>1, <3>2
  <2> QED
    BY <1>2, <2>1
<1> QED
  BY <1>1, <1>3, <1>5, <1>7 DEF Answering

LEMMA ServeServes ==
    ASSUME Basis, NEW p \in Pairs, NEW m \in wire[p].in, Serve(p, m)
    PROVE  /\ \E lines \in Seq(Answers) : Served(p, lines)
           /\ UNCHANGED <<turn, ses, conn, stale, rt>> /\ faults' \in 0..MaxFaults
<1> DEFINE s == SessionOf[m.for]
           c == child[p][s]
           After(state, lines) ==
             /\ child' = [child EXCEPT ![p][s] = state]
             /\ wire' = [wire EXCEPT ![p].in = @ \ {m}, ![p].out = @ \o lines]
<1>0. /\ faults \in 0..MaxFaults /\ MaxFaults \in Nat /\ wire \in WireTable /\ child \in KidTable
      /\ m \in Questions /\ s \in Sessions
      /\ c \in [loaded : BOOLEAN, active : Turns \cup {None}]
  <2>1. m \in Questions
    BY WireParts
  <2>2. m.for \in Turns
    BY <2>1 DEF Questions
  <2> QED
    BY <2>1, <2>2, BasisParts, CodexAssumption DEF KidTable
<1>1. UNCHANGED <<turn, ses, conn, stale, rt>> /\ faults' \in 0..MaxFaults
  <2>1. faults' = faults \/ Fault
    BY Zenon DEF Serve
  <2>2. UNCHANGED <<turn, ses, conn, stale, rt>>
    BY Zenon DEF Serve
  <2> QED
    BY <1>0, <2>1, <2>2 DEF Fault
<1>2. ASSUME NEW state \in [loaded : BOOLEAN, active : Turns \cup {None}],
             c.loaded => state.loaded, NEW lines \in Seq(Answers), After(state, lines),
             \A j \in DOMAIN lines : IsAnswer(lines[j]) =>
               /\ j = 1 /\ m.open /\ lines[j].for = m.for /\ lines[j].what = m.what
               /\ m.what = "load" /\ lines[j].answer = "ok" => state.loaded
      PROVE  Served(p, lines)
  <2>0. wire[p].in \subseteq Questions /\ wire[p].out \in Seq(Answers)
    BY WireParts
  <2> DEFINE in2 == wire[p].in \ {m}
             out2 == wire[p].out \o lines
  <2>1. wire' = [wire EXCEPT ![p].in = in2, ![p].out = out2]
    BY <1>2
  <2>2. in2 \in SUBSET Questions /\ out2 \in Seq(Answers)
    BY <2>0
  <2>3. in2 \subseteq wire[p].in /\ m \in wire[p].in \ in2
    OBVIOUS
  <2> HIDE DEF in2, out2
  <2>4. wire' \in WireTable
    BY <1>0, <2>1, <2>2, WireSet
  <2>5. wire'[p].in = in2 /\ wire'[p].out = out2 /\ \A o \in Pairs \ {p} : wire'[o] = wire[o]
    BY <1>0, <2>1 DEF WireTable
  <2>6. /\ child' \in KidTable /\ child'[p][s] = state
        /\ \A o \in Pairs, z \in Sessions : child[o][z].loaded => child'[o][z].loaded
    <3>1. child' = [child EXCEPT ![p][s] = state]
      BY <1>2
    <3> HIDE DEF s
    <3>2. c = child[p][s]
      BY DEF c
    <3> QED
      BY <1>0, <1>2, <3>1 DEF KidTable
  <2>7. \A j \in DOMAIN lines : IsAnswer(lines[j]) =>
         /\ j = 1
         /\ \E n \in wire[p].in \ wire'[p].in :
              /\ IsOpen(n) /\ lines[j].for = n.for /\ lines[j].what = n.what
              /\ n.what = "load" /\ lines[j].answer = "ok"
                   => child'[p][SessionOf[n.for]].loaded
    <3> SUFFICES ASSUME NEW j \in DOMAIN lines, IsAnswer(lines[j])
                 PROVE  /\ j = 1
                        /\ \E n \in wire[p].in \ wire'[p].in :
                             /\ IsOpen(n) /\ lines[j].for = n.for /\ lines[j].what = n.what
                             /\ n.what = "load" /\ lines[j].answer = "ok"
                                  => child'[p][SessionOf[n.for]].loaded
      OBVIOUS
    <3>1. j = 1 /\ IsOpen(m) /\ lines[j].for = m.for /\ lines[j].what = m.what
      BY <1>2 DEF IsAnswer, IsOpen
    <3>2. m.what = "load" /\ lines[j].answer = "ok" => child'[p][SessionOf[m.for]].loaded
      BY <1>2, <2>6
    <3>3. m \in wire[p].in \ wire'[p].in
      BY <2>3, <2>5
    <3> QED
      BY <3>1, <3>2, <3>3
  <2> QED
    BY <2>3, <2>4, <2>5, <2>6, <2>7 DEF Served, out2
<1>3. /\ [c EXCEPT !.loaded = TRUE] \in [loaded : BOOLEAN, active : Turns \cup {None}]
      /\ [c EXCEPT !.loaded = TRUE].loaded
      /\ [c EXCEPT !.active = m.for] \in [loaded : BOOLEAN, active : Turns \cup {None}]
      /\ [c EXCEPT !.active = m.for].loaded = c.loaded
      /\ [c EXCEPT !.active = None] \in [loaded : BOOLEAN, active : Turns \cup {None}]
      /\ [c EXCEPT !.active = None].loaded = c.loaded
  BY <1>0 DEF Questions
<1>4. ASSUME NEW state \in [loaded : BOOLEAN, active : Turns \cup {None}],
             c.loaded => state.loaded, NEW a \in AnswersOf(m), After(state, Reply(m, a)),
             m.what = "load" /\ a = "ok" => state.loaded
      PROVE  \E lines \in Seq(Answers) : Served(p, lines)
  <2>1. PICK lines \in Seq(Answers) : lines = Reply(m, a)
    BY <1>0, ReplyLines
  <2>2. \A j \in DOMAIN lines : IsAnswer(lines[j]) =>
               /\ j = 1 /\ m.open /\ lines[j].for = m.for /\ lines[j].what = m.what
               /\ m.what = "load" /\ lines[j].answer = "ok" => state.loaded
    BY <1>0, <1>4, <2>1, ReplyLines
  <2>3. After(state, lines)
    BY <1>4, <2>1
  <2> HIDE DEF After, c, s
  <2> QED
    BY <1>2, <1>4, <2>2, <2>3
<1>5. ASSUME NEW state \in [loaded : BOOLEAN, active : Turns \cup {None}],
             c.loaded => state.loaded, NEW a \in AnswersOf(m), NEW x \in Turns,
             NEW kind \in {"started", "interrupted"},
             After(state, Reply(m, a) \o Event(kind, x)), m.what # "load"
      PROVE  \E lines \in Seq(Answers) : Served(p, lines)
  <2>1. PICK lines \in Seq(Answers) : lines = Reply(m, a) \o Event(kind, x)
    BY <1>0, ReplyAndEvent
  <2>2. \A j \in DOMAIN lines : IsAnswer(lines[j]) =>
               /\ j = 1 /\ m.open /\ lines[j].for = m.for /\ lines[j].what = m.what
               /\ m.what = "load" /\ lines[j].answer = "ok" => state.loaded
    <3>1. Answering(lines, m, a)
      BY <1>0, <2>1, ReplyAndEvent
    <3> QED
      BY <1>5, <3>1 DEF Answering
  <2>3. After(state, lines)
    BY <1>5, <2>1
  <2> HIDE DEF After, c, s
  <2> QED
    BY <1>2, <1>5, <2>2, <2>3
<1>6. \E lines \in Seq(Answers) : Served(p, lines)
  <2>1. CASE After(c, Reply(m, "error"))
    <3> HIDE DEF After
    <3> QED
      BY <1>0, <1>4, <2>1 DEF AnswersOf
  <2>2. CASE m.what = "load" /\ After([c EXCEPT !.loaded = TRUE], Reply(m, "ok"))
    <3> HIDE DEF After
    <3> QED
      BY <1>3, <1>4, <2>2 DEF AnswersOf
  <2>3. CASE m.what = "turn" /\ After(c, Reply(m, "missing"))
    <3> HIDE DEF After
    <3> QED
      BY <1>0, <1>4, <2>3 DEF AnswersOf
  <2>4. CASE m.what = "turn"
             /\ After([c EXCEPT !.active = m.for], Reply(m, "ok") \o Event("started", m.for))
    <3> HIDE DEF After
    <3>1. m.for \in Turns
      BY <1>0 DEF Questions
    <3> QED
      BY <1>3, <1>5, <2>4, <3>1 DEF AnswersOf
  <2>5. CASE m.what = "interrupt"
             /\ After([c EXCEPT !.active = None], Reply(m, "ok") \o Event("interrupted", m.on))
    <3> HIDE DEF After
    <3>1. m.on \in Turns
      BY <1>0 DEF Questions
    <3> QED
      BY <1>3, <1>5, <2>5, <3>1 DEF AnswersOf
  <2>6. CASE m.what = "interrupt" /\ After(c, Reply(m, "idle"))
    <3> HIDE DEF After
    <3> QED
      BY <1>0, <1>4, <2>6 DEF AnswersOf
  <2>7. CASE m.what = "interrupt" /\ c.active \notin {None, m.on} /\ After(c, Reply(m, c.active))
    <3>1. c.active \in AnswersOf(m)
      BY <1>0, <2>7 DEF AnswersOf
    <3> HIDE DEF After
    <3> QED
      BY <1>0, <1>4, <2>7, <3>1
  <2> QED
    BY <2>1, <2>2, <2>3, <2>4, <2>5, <2>6, <2>7 DEF Serve
<1> QED
  BY <1>1, <1>6

LEMMA ServeEndServes ==
    ASSUME Basis, NEW p \in Pairs, NEW s \in Sessions, NEW k \in Ends, ServeEnd(p, s, k)
    PROVE  /\ \E lines \in Seq(Answers) : Served(p, lines)
           /\ UNCHANGED <<turn, ses, conn, stale, rt, faults>>
<1> DEFINE x == child[p][s].active
<1>0. /\ wire \in WireTable /\ child \in KidTable /\ x \in Turns
      /\ wire[p].in \subseteq Questions /\ wire[p].out \in Seq(Answers)
      /\ k \in {"started", "completed", "interrupted", "broken"}
  BY BasisParts, WireParts DEF KidTable, ServeEnd, Ends
<1>1. PICK lines \in Seq(Answers) : lines = Event(k, x)
  BY <1>0, EventLine
<1>2. \A j \in DOMAIN lines : ~IsAnswer(lines[j])
  BY <1>0, <1>1, EventLine
<1>3. /\ child' = [child EXCEPT ![p][s].active = None]
      /\ wire' = [wire EXCEPT ![p].out = @ \o lines]
      /\ UNCHANGED <<turn, ses, conn, stale, rt, faults>>
  BY <1>1 DEF ServeEnd
<1>4. child' \in KidTable /\ \A o \in Pairs, z \in Sessions : child[o][z].loaded => child'[o][z].loaded
  <2> DEFINE a == [child[p][s] EXCEPT !.active = None]
             row == [child[p] EXCEPT ![s] = a]
  <2>1. child[p] \in [Sessions -> [loaded : BOOLEAN, active : Turns \cup {None}]]
    BY <1>0 DEF KidTable
  <2>2. a \in [loaded : BOOLEAN, active : Turns \cup {None}] /\ a.loaded = child[p][s].loaded
    BY <2>1
  <2>3. child' = [child EXCEPT ![p] = row]
    BY <1>3
  <2> HIDE DEF a
  <2>4. /\ row \in [Sessions -> [loaded : BOOLEAN, active : Turns \cup {None}]]
        /\ \A z \in Sessions : row[z].loaded = child[p][z].loaded
    BY <2>1, <2>2
  <2> HIDE DEF row
  <2>5. child' \in KidTable /\ child'[p] = row /\ \A o \in Pairs \ {p} : child'[o] = child[o]
    BY <1>0, <2>3, <2>4 DEF KidTable
  <2> QED
    BY <2>4, <2>5
<1> DEFINE out2 == wire[p].out \o lines
<1>5. wire' = [wire EXCEPT ![p].out = out2] /\ out2 \in Seq(Answers)
  BY <1>0, <1>3
<1> HIDE DEF out2
<1>6. wire' \in WireTable
  BY <1>0, <1>5, WireSet
<1>7. wire'[p].in = wire[p].in /\ wire'[p].out = out2 /\ \A o \in Pairs \ {p} : wire'[o] = wire[o]
  BY <1>0, <1>5 DEF WireTable
<1> QED
  BY <1>2, <1>3, <1>4, <1>6, <1>7 DEF Served, out2

LEMMA ServedBasis ==
    ASSUME Basis, NEW p \in Pairs, NEW lines \in Seq(Answers), Served(p, lines),
           UNCHANGED <<turn, ses, conn, stale, rt>>, faults' \in 0..MaxFaults
    PROVE  Basis'
<1>1. Tables
  BY BasisParts DEF Tables, Served
<1> QED
  BY <1>1, BasisParts, SameStill, LikeQueues, StillBasis

(* A line of the child is read: an answer is noted, a notification is taken  *)
(* up by the turn that runs in its session.                                  *)
Delivers(p) ==
    LET l == Head(wire[p].out) IN
    /\ wire' \in WireTable /\ wire'[p].in = wire[p].in /\ wire'[p].out = Tail(wire[p].out)
    /\ \A o \in Pairs \ {p} : wire'[o] = wire[o]
    /\ UNCHANGED <<conn, child, faults>> /\ stale' \in [Pairs -> SUBSET Turns]
    /\ SesLike(ses')
    /\ \E more \in 0..MaxPairs : rt' = [rt EXCEPT !.chunk = more]
    /\ \/ IsAnswer(l) /\ Moved(turn, turn', l.for, turn[l.for].ph, l.answer)
       \/ ~IsAnswer(l) /\ Alike(turn, turn')

LEMMA HeadLine ==
    ASSUME Basis, NEW p \in Pairs, wire[p].out # <<>>
    PROVE  /\ Head(wire[p].out) = wire[p].out[1] /\ 1 \in DOMAIN wire[p].out
           /\ Head(wire[p].out) \in Answers
           /\ Tail(wire[p].out) \in Seq(Answers)
           /\ DOMAIN Tail(wire[p].out) = 1..(Len(wire[p].out) - 1)
           /\ \A i \in DOMAIN Tail(wire[p].out) :
                Tail(wire[p].out)[i] = wire[p].out[i + 1] /\ i + 1 \in DOMAIN wire[p].out
                /\ i + 1 # 1
<1>1. PICK q \in Seq(Answers) : q = wire[p].out
  BY WireParts
<1>2. q # <<>>
  BY <1>1
<1>3. Len(q) \in Nat \ {0} /\ DOMAIN q = 1..Len(q)
  BY <1>2, EmptySeq, LenProperties
<1>4. Head(q) = q[1] /\ 1 \in DOMAIN q /\ q[1] \in Answers
  BY <1>3
<1>5. Tail(q) \in Seq(Answers) /\ DOMAIN Tail(q) = 1..(Len(q) - 1)
  BY <1>2, <1>3
<1>6. \A i \in 1..(Len(q) - 1) : Tail(q)[i] = q[i + 1] /\ i + 1 \in DOMAIN q /\ i + 1 # 1
  BY <1>2, <1>3
<1> QED
  BY <1>1, <1>4, <1>5, <1>6

LEMMA DeliverDelivers ==
    ASSUME Basis, NEW p \in Pairs, Deliver(p) PROVE Delivers(p)
<1> DEFINE l == Head(wire[p].out)
           x == l.for
           s == SessionOf[x]
           r == ses[p][s].running
           ignored == x \in stale[p] \/ r = None
           out == IF l.kind = "broken" THEN "failed" ELSE l.kind
           rest == Tail(wire[p].out)
<1>0. /\ turn \in TurnTable /\ wire \in WireTable /\ ses \in SesTable
      /\ stale \in [Pairs -> SUBSET Turns] /\ wire[p].out # <<>>
  BY BasisParts DEF Deliver
<1>1. l \in Answers /\ rest \in Seq(Answers)
  BY <1>0, HeadLine
<1>2. x \in Turns /\ s \in Sessions
  <2>1. x \in Turns
    BY <1>1 DEF Answers
  <2> QED
    BY <2>1, CodexAssumption
<1>3. r \in Turns \cup {None}
  BY <1>0, <1>2 DEF SesTable, SessionState
<1>4. UNCHANGED <<conn, child, faults>> /\ wire' = [wire EXCEPT ![p].out = rest]
  BY DEF Deliver
<1>5. /\ wire' \in WireTable /\ wire'[p].in = wire[p].in /\ wire'[p].out = rest
      /\ \A o \in Pairs \ {p} : wire'[o] = wire[o]
  <2> HIDE DEF rest
  <2>1. wire' \in WireTable
    BY <1>0, <1>1, <1>4, WireSet
  <2> QED
    BY <1>0, <1>4, <2>1 DEF WireTable
<1>6. \E more \in 0..MaxPairs : rt' = [rt EXCEPT !.chunk = more]
  <2>1. \A more \in {0} \cup (IF Len(wire[p].out) > 1 THEN {p} ELSE {}) : more \in 0..MaxPairs
    BY CodexAssumption DEF Pairs
  <2> QED
    BY <2>1 DEF Deliver
<1>7. /\ SesLike(ses') /\ stale' \in [Pairs -> SUBSET Turns]
      /\ \/ IsAnswer(l) /\ Moved(turn, turn', x, turn[x].ph, l.answer)
         \/ ~IsAnswer(l) /\ Alike(turn, turn')
  <2>1. CASE /\ l.kind = "reply"
             /\ turn' = [turn EXCEPT ![x][IF l.what = "interrupt" THEN "dq" ELSE "rq"] = l.answer]
             /\ UNCHANGED <<ses, stale>>
    <3>1. CASE l.what = "interrupt"
      <4>1. turn' = [turn EXCEPT ![x] = [turn[x] EXCEPT !.dq = l.answer]]
        BY <1>0, <2>1, <3>1 DEF TurnTable
      <4>2. l.answer \in Requests \cup Turns
        BY <1>1, <2>1, <3>1 DEF Answers, Requests
      <4>3. turn[x] \in TurnState
        BY <1>0, <1>2 DEF TurnTable
      <4> HIDE DEF x, l
      <4>4. Like(turn[x], [turn[x] EXCEPT !.dq = l.answer])
        BY <4>2, <4>3, FieldsLike
      <4>5. Alike(turn, turn')
        BY <1>0, <1>2, <4>1, <4>4, LikeAlike
      <4> QED
        BY <1>0, <2>1, <3>1, <4>5, SameStill DEF IsAnswer
    <3>2. CASE l.what # "interrupt"
      <4>1. turn' = [turn EXCEPT ![x].rq = l.answer]
        BY <2>1, <3>2
      <4>2. l.answer \in Requests
        BY <1>1, <2>1, <3>2 DEF Answers, Requests
      <4> HIDE DEF x, l
      <4>3. Moved(turn, turn', x, turn[x].ph, l.answer)
        BY <1>0, <1>2, <4>1, <4>2, RequestMoved
      <4> QED
        BY <1>0, <2>1, <3>2, <4>3, SameStill DEF IsAnswer
    <3> QED
      BY <3>1, <3>2
  <2>2. CASE l.kind # "reply" /\ UNCHANGED <<turn, ses, stale>>
    BY <1>0, <2>2, SameStill DEF IsAnswer, Alike
  <2>3. CASE /\ l.kind = "started" /\ ~ignored
             /\ LET f == [turn EXCEPT ![r].lid = x]
                IN turn' = IF turn[r].abort THEN Interrupted(f, r) ELSE f
             /\ UNCHANGED <<ses, stale>>
    <3> DEFINE f == [turn EXCEPT ![r].lid = x]
    <3>1. r \in Turns /\ turn[r] \in TurnState
      BY <1>0, <1>3, <2>3 DEF TurnTable
    <3>2. turn' = IF turn[r].abort THEN Interrupted(f, r) ELSE f
      BY <2>3
    <3>3. f = [turn EXCEPT ![r] = [turn[r] EXCEPT !.lid = x]]
      BY <1>0 DEF TurnTable
    <3> HIDE DEF f, r, x, l
    <3>4. Like(turn[r], [turn[r] EXCEPT !.lid = x])
      BY <1>2, <3>1, FieldsLike
    <3>8. Alike(turn, f)
      <4> DEFINE a == [turn[r] EXCEPT !.lid = x]
      <4>1. f = [turn EXCEPT ![r] = a] /\ Like(turn[r], a)
        BY <3>3, <3>4
      <4> HIDE DEF a
      <4> QED
        BY <1>0, <3>1, <4>1, LikeAlike
    <3>5. Alike(turn, f) /\ f \in TurnTable
      BY <3>8 DEF Alike
    <3>6. Alike(f, Interrupted(f, r))
      BY <3>1, <3>5, InterruptedKeeps
    <3>7. Alike(turn, turn')
      BY <3>2, <3>5, <3>6, AlikeTwice
    <3> QED
      BY <1>0, <2>3, <3>7, SameStill DEF IsAnswer
  <2>4. CASE /\ l.kind \notin {"reply", "started"} /\ ~ignored
             /\ turn' = Settle(turn, r, out, x) /\ FinishRunning(p, r, out, x)
    <3>1. r \in Turns /\ out \in Outcomes /\ ~IsAnswer(l)
      BY <1>1, <1>3, <2>4 DEF Answers, Outcomes, IsAnswer
    <3> HIDE DEF out, r, x, l
    <3>2. Alike(turn, turn')
      BY <1>0, <1>2, <2>4, <3>1, SettleKeeps
    <3>3. SesLike(ses') /\ stale' \in [Pairs -> SUBSET Turns]
      BY <2>4, <3>1, FinishKeeps
    <3> QED
      BY <3>1, <3>2, <3>3
  <2> QED
    BY <2>1, <2>2, <2>3, <2>4 DEF Deliver
<1> QED
  BY <1>4, <1>5, <1>6, <1>7 DEF Delivers

LEMMA DeliverBasis ==
    ASSUME Basis, Wires, NEW p \in Pairs, Deliver(p) PROVE Basis'
<1> DEFINE l == Head(wire[p].out)
<1>0. rt \in RtStates /\ faults \in 0..MaxFaults /\ child \in KidTable /\ conn \in ConnTable
      /\ TurnsKnown /\ wire[p].out # <<>>
  BY BasisParts DEF Deliver
<1>1. Delivers(p)
  BY DeliverDelivers
<1>2. Tables /\ SesLike(ses')
  BY <1>0, <1>1 DEF Delivers, Tables
<1>3. rt' \in RtStates /\ faults' \in 0..MaxFaults
  BY <1>0, <1>1, RtFields DEF Delivers
<1>4. Still(turn, turn')
  <2>1. CASE IsAnswer(l) /\ Moved(turn, turn', l.for, turn[l.for].ph, l.answer)
    <3>1. l = wire[p].out[1] /\ 1 \in DOMAIN wire[p].out /\ l \in Answers
      BY <1>0, HeadLine
    <3>2. turn[l.for].rq = "sent" /\ l.for \in Turns
      <4>1. l.for \in Turns
        BY <3>1 DEF Answers
      <4>2. IsAnswer(wire[p].out[1])
        BY <2>1, <3>1
      <4>3. Wants(turn, p, wire[p].out[1].for, wire[p].out[1].what)
        BY <3>1, <4>2 DEF Wires, Told, ToldAt
      <4> QED
        BY <3>1, <4>1, <4>3 DEF Wants
    <3>3. turn[l.for].ph \notin Early
      BY <1>0, <3>2 DEF TurnsKnown, Early
    <3> HIDE DEF l
    <3> QED
      BY <2>1, <3>2, <3>3, MovedStill
  <2>2. CASE Alike(turn, turn')
    BY <2>2, AlikeStill
  <2> QED
    BY <1>1, <2>1, <2>2 DEF Delivers
<1> QED
  BY <1>2, <1>3, <1>4, LikeQueues, StillBasis

LEMMA BasisInit == ASSUME CodexInit PROVE Basis
<1>0. 0 \in 0..MaxPairs /\ 0 \in 0..MaxTries /\ 0 \in 0..MaxFaults /\ 0 \in -1..MaxPairs
  BY CodexAssumption
<1>1. \A t \in Turns : turn[t] \in TurnState /\ turn[t].ph = "new" /\ turn[t].killed = 0
                       /\ turn[t].rq = "none"
  BY <1>0 DEF CodexInit, TurnState, Requests
<1>2. NewSession \in SessionState /\ NewSession.queue = <<>> /\ NewSession.block = None
  BY EmptySeq DEF NewSession, SessionState
<1>3. turn \in [Turns -> TurnState] /\ ses \in [Pairs -> [Sessions -> SessionState]]
      /\ \A p \in Pairs, s \in Sessions : ses[p][s] = NewSession
  <2>1. turn \in [Turns -> TurnState]
    BY <1>1 DEF CodexInit
  <2> QED
    BY <1>2, <2>1 DEF CodexInit
<1>4. conn \in [Pairs -> [st : {"none", "starting", "ready"}, gen : Nat,
                       reaper : BOOLEAN, slow : BOOLEAN]]
  BY DEF CodexInit
<1>5. stale \in [Pairs -> SUBSET Turns] /\ faults \in 0..MaxFaults
  BY <1>0 DEF CodexInit
<1>6. child \in [Pairs -> [Sessions -> [loaded : BOOLEAN, active : Turns \cup {None}]]]
  BY DEF CodexInit, NewChild
<1>7. rt \in RtStates
  <2> DEFINE R == [Sessions -> Turns \cup {None}]
             w == [s \in Sessions |-> None]
  <2>1. w \in R /\ <<>> \in Seq(Turns)
    BY EmptySeq
  <2>2. rt = [cur |-> 0, setup |-> 0, made |-> {}, failed |-> {}, last |-> 0,
              changed |-> FALSE, runs |-> w, waits |-> <<>>, chunk |-> 0]
    BY DEF CodexInit
  <2> HIDE DEF R, w
  <2>3. rt \in [cur : 0..MaxPairs, setup : 0..MaxPairs, made : SUBSET Pairs,
                failed : SUBSET Pairs, last : 0..MaxPairs, changed : BOOLEAN,
                runs : R, waits : Seq(Turns), chunk : 0..MaxPairs]
    BY <1>0, <2>1, <2>2
  <2> QED
    BY <2>3 DEF RtStates, R
<1>8. wire \in WireTable
  <2>1. NoLines \in [in : SUBSET Questions, out : Seq(Answers)]
    BY EmptySeq DEF NoLines
  <2> QED
    BY <2>1 DEF CodexInit, WireTable
<1>9. TurnsKnown
  BY <1>1 DEF TurnsKnown
<1>10. QueueKnown /\ BlockKnown
  BY <1>2, <1>3, EmptySeq DEF QueueKnown, QueueOf, BlockKnown
<1> QED
  BY <1>3, <1>4, <1>5, <1>6, <1>7, <1>8, <1>9, <1>10 DEF Basis, CodexTypeOK, RtStates

LEMMA BasisSame == ASSUME Basis, UNCHANGED vars PROVE Basis'
<1>1. UNCHANGED <<turn, ses, conn, stale, wire, child, faults, rt>>
  BY DEF vars
<1> QED
  BY <1>1, BasisParts, SameStill, SameTables, LikeQueues, StillBasis

LEMMA BasisNext == ASSUME Basis, Wires, [CodexNext]_vars PROVE Basis'
<1>1. CASE Reactions
  BY <1>1, EnterManagerBasis, CompleteRunBasis, AbortBasis, BeginContinuesBasis,
     DriverContinuesDrives, HeadStartsGoes, DrivesBasis DEF Reactions
<1>2. CASE Timers
  BY <1>2, DriverAsksDrives, GiveUpBasis, TimeOutBasis, HeadResumesGoes, DrivesBasis,
     LossBasis DEF Timers
<1>3. CASE AppServer
  <2>1. ASSUME NEW p \in Pairs, NEW m \in wire[p].in, Serve(p, m) PROVE Basis'
    BY <2>1, ServeServes, ServedBasis
  <2>2. ASSUME NEW p \in Pairs, NEW s \in Sessions, NEW k \in Ends, ServeEnd(p, s, k) PROVE Basis'
    BY <2>2, ServeEndServes, ServedBasis, BasisParts
  <2> QED
    BY <1>3, <2>1, <2>2, HandshakeBasis, LossBasis, SlowDownBasis, DeliverBasis DEF AppServer
<1>4. CASE Runtime
  BY <1>4, StartRunBasis, KillBasis, CreatePairBasis, RetiresBasis DEF Runtime
<1>5. CASE UNCHANGED vars
  BY <1>5, BasisSame
<1> QED
  BY <1>1, <1>2, <1>3, <1>4, <1>5 DEF CodexNext

(* Answers that stay on the wire, wherever they move to.                     *)
LEMMA ToldKeeps ==
    ASSUME NEW f, NEW g, NEW out, NEW out2, NEW in, NEW in2, NEW kid, NEW kid2, NEW p, NEW k,
           ToldAt(f, out, in, kid, p),
           \A j \in DOMAIN out2 : k[j] \in DOMAIN out /\ out2[j] = out[k[j]]
                                  /\ out2[j].for \in Turns,
           \A i, j \in DOMAIN out2 : k[i] = k[j] => i = j,
           \A j \in DOMAIN out2 : IsAnswer(out2[j]) =>
             (Wants(f, p, out2[j].for, out2[j].what) => Wants(g, p, out2[j].for, out2[j].what)),
           \A s \in Sessions : kid[s].loaded => kid2[s].loaded,
           \A m \in in2 : IsOpen(m) => m \in in \/ f[m.for].rq # "sent"
    PROVE  ToldAt(g, out2, in2, kid2, p)
<1> SUFFICES ASSUME NEW i \in DOMAIN out2, IsAnswer(out2[i])
             PROVE  /\ Wants(g, p, out2[i].for, out2[i].what)
                    /\ out2[i].what = "load" /\ out2[i].answer = "ok"
                         => kid2[SessionOf[out2[i].for]].loaded
                    /\ \A j \in DOMAIN out2 :
                         IsAnswer(out2[j]) /\ out2[j].for = out2[i].for => i = j
                    /\ \A m \in in2 : IsOpen(m) => m.for # out2[i].for
  BY DEF ToldAt
<1> DEFINE l == out2[i]
<1>1. k[i] \in DOMAIN out /\ out[k[i]] = l /\ l.for \in Turns
  OBVIOUS
<1>2. /\ Wants(f, p, l.for, l.what)
      /\ l.what = "load" /\ l.answer = "ok" => kid[SessionOf[l.for]].loaded
      /\ \A j \in DOMAIN out : IsAnswer(out[j]) /\ out[j].for = l.for => k[i] = j
      /\ \A m \in in : IsOpen(m) => m.for # l.for
  <2> HIDE DEF l
  <2>1. IsAnswer(out[k[i]])
    BY <1>1 DEF l
  <2> QED
    BY <1>1, <2>1 DEF ToldAt
<1>3. SessionOf[l.for] \in Sessions
  BY <1>1, CodexAssumption
<1>4. \A j \in DOMAIN out2 : IsAnswer(out2[j]) /\ out2[j].for = l.for => i = j
  BY <1>2
<1>5. \A m \in in2 : IsOpen(m) => m.for # l.for
  BY <1>2 DEF Wants
<1> QED
  BY <1>2, <1>3, <1>4, <1>5

(* Steps that issue requests of turns that wait for none, and end others.    *)
NewLine(p, m) == /\ turn[m.for].rq # "sent" /\ m.on = m.for
                 /\ Wants(turn', p, m.for, m.what)

WiresStay ==
    /\ \A u \in Turns : turn[u].rq = "sent" =>
         turn'[u].rq = "sent" /\ turn'[u].pair = turn[u].pair /\ turn'[u].ph = turn[u].ph
    /\ \A u \in Turns : turn'[u].rq = "ok" /\ turn'[u].ph \in Loading =>
         turn[u].rq = "ok" /\ turn'[u].pair = turn[u].pair /\ turn'[u].ph = turn[u].ph
    /\ \A p \in Pairs :
         /\ wire'[p].out = wire[p].out
         /\ \A m \in wire'[p].in : IsOpen(m) => m \in wire[p].in \/ NewLine(p, m)
    /\ child' = child

LEMMA WiresKept ==
    ASSUME Basis, Wires, WiresStay, Threads(ses, conn, child)'
    PROVE  Wires'
<1>1. ASSUME NEW p \in Pairs PROVE AskedAt(turn', wire'[p].in, p)
  <2> SUFFICES ASSUME NEW m \in wire'[p].in, IsOpen(m)
               PROVE  Wants(turn', p, m.for, m.what) /\ m.on = m.for
    BY DEF AskedAt
  <2>1. CASE m \in wire[p].in
    <3>1. Wants(turn, p, m.for, m.what) /\ m.on = m.for
      BY <2>1 DEF Wires, Asked, AskedAt
    <3>2. m.for \in Turns
      BY <2>1, WireParts DEF Questions
    <3> QED
      BY <3>1, <3>2 DEF Wants, WiresStay
  <2>2. CASE NewLine(p, m)
    BY <2>2 DEF NewLine
  <2> QED
    BY <2>1, <2>2 DEF WiresStay
<1>2. ASSUME NEW p \in Pairs
      PROVE  ToldAt(turn', wire'[p].out, wire'[p].in, child'[p], p)
  <2> DEFINE k == [i \in DOMAIN wire[p].out |-> i]
  <2>1. wire'[p].out = wire[p].out /\ child'[p] = child[p]
    BY DEF WiresStay
  <2>2. \A j \in DOMAIN wire[p].out : wire[p].out[j].for \in Turns
    BY WireParts DEF Answers
  <2>3. \A j \in DOMAIN wire[p].out : IsAnswer(wire[p].out[j]) =>
          (Wants(turn, p, wire[p].out[j].for, wire[p].out[j].what)
             => Wants(turn', p, wire[p].out[j].for, wire[p].out[j].what))
    BY <2>2 DEF Wants, WiresStay
  <2>4. \A m \in wire'[p].in : IsOpen(m) => m \in wire[p].in \/ turn[m.for].rq # "sent"
    BY DEF WiresStay, NewLine
  <2>5. ToldAt(turn, wire[p].out, wire[p].in, child[p], p)
    BY DEF Wires, Told
  <2>6. /\ \A j \in DOMAIN wire[p].out : k[j] \in DOMAIN wire[p].out
                                         /\ wire[p].out[j] = wire[p].out[k[j]]
        /\ \A i, j \in DOMAIN wire[p].out : k[i] = k[j] => i = j
    OBVIOUS
  <2> HIDE DEF k
  <2> DEFINE out == wire[p].out
             in  == wire[p].in
             in2 == wire'[p].in
             kid == child[p]
  <2>8. /\ ToldAt(turn, out, in, kid, p)
        /\ \A j \in DOMAIN out : k[j] \in DOMAIN out /\ out[j] = out[k[j]] /\ out[j].for \in Turns
        /\ \A i, j \in DOMAIN out : k[i] = k[j] => i = j
        /\ \A j \in DOMAIN out : IsAnswer(out[j]) =>
             (Wants(turn, p, out[j].for, out[j].what) => Wants(turn', p, out[j].for, out[j].what))
        /\ \A s \in Sessions : kid[s].loaded => kid[s].loaded
        /\ \A m \in in2 : IsOpen(m) => m \in in \/ turn[m.for].rq # "sent"
    BY <2>2, <2>3, <2>4, <2>5, <2>6
  <2> HIDE DEF out, in, in2, kid
  <2>7. ToldAt(turn', out, in2, kid, p)
    BY <2>8, ToldKeeps
  <2> USE DEF out, in, in2, kid
  <2> QED
    BY <2>1, <2>7
<1>3. Loads(turn, child)'
  BY DEF Wires, Loads, WiresStay
<1> QED
  BY <1>1, <1>2, <1>3 DEF Wires, Asked, Told

LEMMA ThreadsKept ==
    ASSUME Wires, SesKeeps(ses'), \A p \in Pairs : conn'[p].gen = conn[p].gen,
           \A p \in Pairs, s \in Sessions : child[p][s].loaded => child'[p][s].loaded
    PROVE  Threads(ses, conn, child)'
BY DEF Wires, Threads, SesKeeps

LEMMA LikeKeeps == ASSUME SesLike(ses') PROVE SesKeeps(ses')
BY DEF SesLike, SesKeeps

(* Steps that neither issue a request of a turn nor end one.                 *)
Calm ==
    /\ \A u \in Turns : /\ turn'[u].rq = turn[u].rq
                        /\ turn[u].rq # "none" =>
                             turn'[u].pair = turn[u].pair /\ turn'[u].ph = turn[u].ph
    /\ \A p \in Pairs : /\ conn'[p].gen = conn[p].gen /\ wire'[p].out = wire[p].out
                        /\ \A m \in wire'[p].in : IsOpen(m) => m \in wire[p].in
    /\ child' = child

LEMMA CalmWires == ASSUME Basis, Wires, Calm, SesKeeps(ses') PROVE Wires'
<1>1. WiresStay
  BY DEF Calm, WiresStay
<1>2. Threads(ses, conn, child)'
  BY ThreadsKept DEF Calm
<1> QED
  BY <1>1, <1>2, WiresKept

LEMMA QuietSteps ==
    ASSUME Basis, Wires, NEW t \in Turns,
           StartRun(t) \/ Kill(t) \/ AbortAfterSetup(t) \/ GiveUp(t)
    PROVE  Wires'
<1>0. turn \in TurnTable /\ TurnsKnown
  BY BasisParts
<1>1. CASE StartRun(t)
  <2>1. UNCHANGED <<ses, conn, wire, child>>
    BY <1>1 DEF StartRun, KeepPair
  <2>2. /\ turn[t].ph = "new" /\ turn[t].rq = "none"
        /\ \E p : turn' = [turn EXCEPT ![t].ph = "setup", ![t].pair = p]
    BY <1>0, <1>1 DEF StartRun, TurnsKnown
  <2>3. \A u \in Turns : turn'[u].rq = turn[u].rq /\ (u # t => turn'[u] = turn[u])
    BY <1>0, <2>2 DEF TurnTable, TurnState
  <2>4. Calm
    BY <2>1, <2>2, <2>3 DEF Calm
  <2> QED
    BY <2>1, <2>4, CalmWires DEF SesKeeps
<1>2. CASE Kill(t)
  <2>1. UNCHANGED <<ses, conn, wire, child>>
    BY <1>2 DEF Kill, KeepPair
  <2>2. \E x : turn' = [turn EXCEPT ![t].killed = x]
    BY <1>2 DEF Kill
  <2>3. \A u \in Turns : /\ turn'[u].rq = turn[u].rq /\ turn'[u].ph = turn[u].ph
                         /\ turn'[u].pair = turn[u].pair
    BY <1>0, <2>2 DEF TurnTable, TurnState
  <2>4. Calm
    BY <2>1, <2>3 DEF Calm
  <2> QED
    BY <2>1, <2>4, CalmWires DEF SesKeeps
<1>3. CASE AbortAfterSetup(t)
  <2>1. Aborts(t) /\ UNCHANGED <<conn, wire, child>>
    BY <1>3, AbortAborts
  <2>2. Calm
    BY <2>1 DEF Calm, Aborts
  <2>3. ASSUME NEW p \in Pairs, NEW s \in Sessions
        PROVE  ses'[p][s].thread = ses[p][s].thread /\ ses'[p][s].gen = ses[p][s].gen
    BY <2>1 DEF Aborts
  <2>4. WiresStay
    BY <2>2 DEF Calm, WiresStay
  <2>5. Threads(ses, conn, child)'
    BY <2>1, <2>3 DEF Wires, Threads
  <2> QED
    BY <2>4, <2>5, WiresKept
<1>4. CASE GiveUp(t)
  <2>1. /\ turn' = Settle(turn, t, "interrupted", t) /\ UNCHANGED <<conn, wire, child>>
        /\ ses' = [ses EXCEPT ![turn[t].pair][SessionOf[t]].running = None]
    BY <1>4 DEF GiveUp
  <2>2. Alike(turn, turn')
    BY <1>0, <2>1, SettleKeeps DEF Outcomes
  <2>3. SesKeeps(ses')
    BY <2>1, RunningKeeps, LikeKeeps
  <2>4. Calm
    BY <2>1, <2>2 DEF Calm, Alike
  <2> QED
    BY <2>3, <2>4, CalmWires
<1> QED
  BY <1>1, <1>2, <1>3, <1>4

LEMMA PairSteps ==
    ASSUME Basis, Wires, NEW p \in Pairs, CreatePair(p) \/ SlowDown(p)
    PROVE  Wires'
<1>0. conn \in ConnTable
  BY BasisParts
<1>1. UNCHANGED <<ses, wire, child, turn>>
  BY DEF CreatePair, SlowDown, KeepPair
<1>2. \A o \in Pairs : conn'[o].gen = conn[o].gen
  BY <1>0 DEF CreatePair, SlowDown, KeepPair, ConnTable
<1> QED
  BY <1>1, <1>2, CalmWires DEF Calm, SesKeeps

(* A driver's request, which is an interrupt, or none.                       *)
LEMMA InterruptCalm ==
    ASSUME Basis, NEW p, NEW f, NEW t \in Turns, NEW on, Alike(turn, turn'),
           Issued(p, f, t, "dq", Line(t, "interrupt", on))
    PROVE  Calm
<1>0. wire \in WireTable
  BY BasisParts
<1> DEFINE m == Line(t, "interrupt", on)
<1>1. ~IsOpen(m)
  BY DEF Line, IsOpen
<1>2. \/ wire' = [wire EXCEPT ![p].in = @ \cup {m}]
      \/ wire' = wire
  BY DEF Issued
<1>3. child' = child /\ \A r \in Pairs : conn'[r].gen = conn[r].gen
  BY Zenon DEF Issued
<1> HIDE DEF m
<1>4. \A o \in Pairs : /\ wire'[o].out = wire[o].out
                       /\ \A n \in wire'[o].in : IsOpen(n) => n \in wire[o].in
  BY <1>0, <1>1, <1>2 DEF WireTable
<1> QED
  BY <1>3, <1>4 DEF Calm, Alike

LEMMA DrivesWires == ASSUME Basis, Wires, NEW t \in Turns, Drives(t) PROVE Wires'
<1>1. SesKeeps(ses') /\ Alike(turn, turn')
  BY DEF Drives, SesKeeps
<1>2. CASE UNCHANGED <<conn, wire, child>>
  <2>1. Calm
    BY <1>1, <1>2 DEF Calm, Alike
  <2> QED
    BY <1>1, <2>1, CalmWires
<1>3. CASE \E f, on : Issued(turn[t].pair, f, t, "dq", Line(t, "interrupt", on))
  BY <1>1, <1>3, InterruptCalm, CalmWires
<1> QED
  BY <1>2, <1>3 DEF Drives

(* A request that beginTurn issues, for a turn that waits for none.          *)
LEMMA AsksStay ==
    ASSUME Basis, NEW p \in Pairs, NEW t \in Turns, NEW ph, turn[t].rq # "sent",
           turn[t].pair = p, Asks(p, t, ph), child' = child
    PROVE  WiresStay
<1>0. wire \in WireTable
  BY BasisParts
<1>1. PICK x \in {"sent", "joined", "error"} :
        /\ Moved(turn, turn', t, ph, x)
        /\ IF x = "sent" THEN wire' = [wire EXCEPT ![p].in = @ \cup {LineFor(t, ph)}]
                         ELSE wire' = wire
  BY DEF Asks
<1>2. \A u \in Turns : u # t => turn'[u].rq = turn[u].rq /\ turn'[u].ph = turn[u].ph
  BY <1>1 DEF Moved
<1>3. turn'[t].rq = x /\ turn'[t].ph = ph /\ \A u \in Turns : turn'[u].pair = turn[u].pair
  BY <1>1 DEF Moved
<1> DEFINE m == LineFor(t, ph)
<1>4. /\ m.for = t /\ m.on = t /\ (m.what = "load" <=> ph \in Loading)
  BY DEF LineFor, LoadLine, StartLine, Line
<1> HIDE DEF m
<1>5. ASSUME NEW o \in Pairs
      PROVE  /\ wire'[o].out = wire[o].out
             /\ \A n \in wire'[o].in : IsOpen(n) => n \in wire[o].in \/ NewLine(o, n)
  <2>1. CASE x = "sent"
    <3>1. wire' = [wire EXCEPT ![p].in = @ \cup {m}]
      BY <1>1, <2>1 DEF m
    <3>2. wire'[o].out = wire[o].out /\ wire'[o].in \subseteq wire[o].in \cup {m}
          /\ (o # p => wire'[o].in = wire[o].in)
      BY <1>0, <3>1 DEF WireTable
    <3>3. NewLine(p, m)
      BY <1>3, <1>4, <2>1 DEF NewLine, Wants
    <3> QED
      BY <3>2, <3>3
  <2>2. CASE x # "sent"
    BY <1>1, <2>2
  <2> QED
    BY <2>1, <2>2
<1> QED
  BY <1>2, <1>3, <1>5 DEF WiresStay

LEMMA HeadWires ==
    ASSUME Basis, Wires, NEW p \in Pairs, NEW s \in Sessions, HeadGoes(p, s) PROVE Wires'
<1>1. SesKeeps(ses') /\ child' = child /\ \A r \in Pairs : conn'[r].gen = conn[r].gen
  BY DEF HeadGoes
<1>2. CASE Alike(turn, turn') /\ wire' = wire
  <2>1. Calm
    BY <1>1, <1>2 DEF Calm, Alike
  <2> QED
    BY <1>1, <2>1, CalmWires
<1>3. ASSUME NEW h \in Turns, NEW ph \in {"load", "start"}, turn[h].ph = "queued",
             turn[h].pair = p, Asks(p, h, ph)
      PROVE  Wires'
  <2>1. turn[h].rq = "none"
    BY <1>3, BasisParts DEF TurnsKnown
  <2>2. WiresStay
    BY <1>1, <1>3, <2>1, AsksStay
  <2> QED
    BY <1>1, <2>2, ThreadsKept, WiresKept
<1> QED
  BY <1>2, <1>3 DEF HeadGoes

LEMMA BeginWires == ASSUME Basis, Wires, NEW t \in Turns, BeginContinues(t) PROVE Wires'
<1> DEFINE p == turn[t].pair
           s == SessionOf[t]
<1>1. Goes(t) /\ child' = child /\ \A r \in Pairs : conn'[r].gen = conn[r].gen
  BY BeginGoes
<1>2. turn[t].rq \in {"ok", "missing", "error"} /\ turn[t].pair \in Pairs
  BY Going DEF BeginContinues
<1> HIDE DEF p
<1>3. CASE /\ turn[t].rq = "ok" /\ turn[t].ph \in Loading /\ ThreadSet(p, s)
           /\ \E ph \in {"start", "restart"} : Asks(p, t, ph)
  <2>1. WiresStay
    BY <1>1, <1>2, <1>3, AsksStay DEF p
  <2>2. child[p][s].loaded
    BY <1>3 DEF Wires, Loads, p
  <2>3. Threads(ses, conn, child)'
    <3>1. conn[p].gen \in Nat /\ s \in Sessions
      BY <1>2, BasisParts, CodexAssumption DEF ConnTable, p
    <3>2. ASSUME NEW o \in Pairs, NEW z \in Sessions
          PROVE  /\ ses'[o][z].gen <= conn'[o].gen
                 /\ ses'[o][z].thread /\ ses'[o][z].gen = conn'[o].gen => child'[o][z].loaded
      <4>1. CASE o = p /\ z = s
        BY <1>1, <1>3, <2>2, <3>1, <4>1 DEF ThreadSet
      <4>2. CASE o # p \/ z # s
        BY <1>1, <1>3, <4>2 DEF Wires, Threads, ThreadSet
      <4> QED
        BY <4>1, <4>2
    <3> QED
      BY <3>2 DEF Threads
  <2> QED
    BY <2>1, <2>3, WiresKept
<1>4. CASE SesLike(ses') /\ Asks(p, t, "reload")
  BY <1>1, <1>2, <1>4, AsksStay, LikeKeeps, ThreadsKept, WiresKept DEF p
<1>5. CASE SesLike(ses') /\ Moved(turn, turn', t, "open", "none") /\ wire' = wire
  <2>1. WiresStay
    BY <1>1, <1>2, <1>5 DEF WiresStay, Moved
  <2> QED
    BY <1>1, <1>5, <2>1, LikeKeeps, ThreadsKept, WiresKept
<1> QED
  BY <1>1, <1>3, <1>4, <1>5 DEF Goes, p

(* A turn enters the manager, and may adopt the thread of its session.       *)
LEMMA EnterWires == ASSUME Basis, Wires, NEW t \in Turns, EnterManager(t) PROVE Wires'
<1>1. /\ Enters(t) /\ turn[t].ph = "setup" /\ turn[t].rq = "none"
      /\ UNCHANGED <<conn, stale, wire, child, faults>>
  BY EnterEnters
<1>2. \A u \in Turns : turn'[u].rq = turn[u].rq
                       /\ (u # t => turn'[u].ph = turn[u].ph /\ turn'[u].pair = turn[u].pair)
  BY <1>1 DEF Enters, Moved
<1>3. Calm
  BY <1>1, <1>2 DEF Calm
<1>4. WiresStay
  BY <1>3 DEF Calm, WiresStay
<1>5. Threads(ses, conn, child)'
  <2>1. CASE SesLike(ses')
    BY <1>1, <2>1, LikeKeeps, ThreadsKept
  <2>2. CASE /\ rt.cur \in Pairs
             /\ \A o \in Pairs, z \in Sessions :
                  \/ ses'[o][z].thread = ses[o][z].thread /\ ses'[o][z].gen = ses[o][z].gen
                  \/ ses'[o][z].gen = conn[o].gen - 1
    <3>1. \A o \in Pairs : conn[o].gen \in Nat
      BY BasisParts DEF ConnTable
    <3>2. \A o \in Pairs : conn[o].gen - 1 <= conn[o].gen /\ conn[o].gen - 1 # conn[o].gen
      BY <3>1
    <3> QED
      BY <1>1, <2>2, <3>2 DEF Wires, Threads
  <2> QED
    BY <1>1, <2>1, <2>2 DEF Enters
<1> QED
  BY <1>4, <1>5, WiresKept

(* What waited for the handshake is written.                                 *)
LEMMA HandshakeWires == ASSUME Basis, Wires, NEW p \in Pairs, Handshake(p) PROVE Wires'
<1>0. wire \in WireTable /\ conn \in ConnTable
  BY BasisParts
<1>1. /\ UNCHANGED <<ses, child>> /\ conn' = [conn EXCEPT ![p].st = "ready"]
      /\ wire' = [wire EXCEPT ![p].in = @ \cup JoinedLines(p)]
  BY DEF Handshake
<1>2. \A u \in Turns :
        /\ turn'[u].ph = turn[u].ph /\ turn'[u].pair = turn[u].pair
        /\ turn[u].pair = p /\ turn[u].rq = "joined" => turn'[u].rq = "sent"
        /\ ~(turn[u].pair = p /\ turn[u].rq = "joined") => turn'[u].rq = turn[u].rq
  BY HandshakeTurns
<1>3. ASSUME NEW m \in JoinedLines(p), IsOpen(m) PROVE NewLine(p, m)
  <2>1. PICK u \in Turns : /\ turn[u].pair = p /\ turn[u].rq = "joined"
                           /\ m = IF turn[u].ph \in Loading THEN LoadLine(u) ELSE StartLine(u)
    BY <1>3 DEF JoinedLines, IsOpen, Line, Loading
  <2>2. m.for = u /\ m.on = u /\ (m.what = "load" <=> turn[u].ph \in Loading)
    BY <2>1 DEF LoadLine, StartLine, Line
  <2> QED
    BY <1>2, <2>1, <2>2 DEF NewLine, Wants
<1>4. \A o \in Pairs : wire'[o].out = wire[o].out /\ conn'[o].gen = conn[o].gen
                       /\ wire'[o].in \subseteq wire[o].in \cup JoinedLines(p)
                       /\ (o # p => wire'[o].in = wire[o].in)
  BY <1>0, <1>1 DEF WireTable, ConnTable
<1>5. WiresStay
  <2>1. \A o \in Pairs : \A m \in wire'[o].in : IsOpen(m) => m \in wire[o].in \/ NewLine(o, m)
    BY <1>3, <1>4
  <2>2. /\ \A u \in Turns : turn[u].rq = "sent" => turn'[u].rq = "sent"
        /\ \A u \in Turns : turn'[u].rq = "ok" => turn[u].rq = "ok"
    BY <1>2
  <2> QED
    BY <1>1, <1>2, <1>4, <2>1, <2>2 DEF WiresStay
<1> QED
  BY <1>1, <1>4, <1>5, ThreadsKept, WiresKept DEF SesKeeps

(* The child of p is lost, while no answer waits to be looked at.            *)
LEMMA LoseWires ==
    ASSUME Basis, Wires, NEW p \in Pairs, NEW f, Alike(turn, f), NEW reaps \in BOOLEAN,
           Lose(p, f, reaps), \A u \in Turns : ~BeginDue(u)
    PROVE  Wires'
<1>0. wire \in WireTable /\ child \in KidTable /\ conn \in ConnTable
  BY BasisParts
<1>1. f \in TurnTable /\ Still(turn, f)
  BY AlikeStill DEF Alike
<1>2. /\ SesLike(ses') /\ conn'[p].gen = conn[p].gen + 1
      /\ \A o \in Pairs \ {p} : conn'[o].gen = conn[o].gen
  BY <1>1, LoseKeeps
<1>3. /\ wire'[p].in = {} /\ wire'[p].out = <<>>
      /\ \A o \in Pairs \ {p} : wire'[o] = wire[o] /\ child'[o] = child[o]
  BY <1>0 DEF Lose, WireTable, KidTable, NoLines
<1>4. \A u \in Turns : /\ turn'[u].ph = turn[u].ph /\ turn'[u].pair = turn[u].pair
                       /\ turn'[u].rq = turn[u].rq \/ (turn[u].pair = p /\ turn'[u].rq = "error")
  BY <1>1, OrphanedKeeps DEF Lose, Alike
<1>5. ASSUME NEW o \in Pairs PROVE AskedAt(turn', wire'[o].in, o)
  <2>1. CASE o = p
    BY <1>3, <2>1 DEF AskedAt
  <2>2. CASE o # p
    <3>1. wire'[o].in = wire[o].in /\ \A m \in wire[o].in : m.for \in Turns
      BY <1>3, <2>2, WireParts DEF Questions
    <3> QED
      BY <1>4, <2>2, <3>1 DEF Wires, Asked, AskedAt, Wants
  <2> QED
    BY <2>1, <2>2
<1>6. ASSUME NEW o \in Pairs PROVE ToldAt(turn', wire'[o].out, wire'[o].in, child'[o], o)
  <2>1. CASE o = p
    BY <1>3, <2>1 DEF ToldAt
  <2>2. CASE o # p
    <3>1. wire'[o] = wire[o] /\ child'[o] = child[o]
          /\ \A i \in DOMAIN wire[o].out : wire[o].out[i].for \in Turns
      BY <1>3, <2>2, WireParts DEF Answers
    <3>2. ToldAt(turn, wire[o].out, wire[o].in, child[o], o)
      BY DEF Wires, Told
    <3>3. ToldAt(turn', wire[o].out, wire[o].in, child[o], o)
      <4>1. ASSUME NEW u \in Turns, NEW what, Wants(turn, o, u, what)
            PROVE  Wants(turn', o, u, what)
        BY <1>4, <2>2, <4>1 DEF Wants
      <4>2. \A i \in DOMAIN wire[o].out : IsAnswer(wire[o].out[i]) =>
              Wants(turn', o, wire[o].out[i].for, wire[o].out[i].what)
        BY <3>1, <3>2, <4>1 DEF ToldAt
      <4> QED
        BY <3>2, <4>2 DEF ToldAt
    <3> QED
      BY <3>1, <3>3
  <2> QED
    BY <2>1, <2>2
<1>7. Loads(turn, child)'
  <2>1. \A u \in Turns : turn'[u].rq # "ok"
    BY <1>4 DEF BeginDue, Answered
  <2> QED
    BY <2>1 DEF Loads
<1>8. Threads(ses, conn, child)'
  <2>1. \A o \in Pairs, s \in Sessions : ses[o][s].gen \in Int /\ conn[o].gen \in Nat
    BY <1>0, BasisParts DEF SesTable, SessionState, ConnTable
  <2>2. ASSUME NEW o \in Pairs, NEW s \in Sessions
        PROVE  /\ ses'[o][s].gen <= conn'[o].gen
               /\ ses'[o][s].thread /\ ses'[o][s].gen = conn'[o].gen => child'[o][s].loaded
    <3>1. ses'[o][s].gen = ses[o][s].gen /\ ses'[o][s].thread = ses[o][s].thread
          /\ ses[o][s].gen <= conn[o].gen
      BY <1>2 DEF SesLike, Wires, Threads
    <3>2. CASE o = p
      BY <1>2, <2>1, <3>1, <3>2
    <3>3. CASE o # p
      BY <1>2, <1>3, <3>1, <3>3 DEF Wires, Threads
    <3> QED
      BY <3>2, <3>3
  <2> QED
    BY <2>2 DEF Threads
<1> QED
  BY <1>5, <1>6, <1>7, <1>8 DEF Wires, Asked, Told

LEMMA CalmPair ==
    ASSUME Basis, Wires, NEW f, Alike(turn, f), turn' = f, UNCHANGED <<ses, wire, child>>,
           \A p \in Pairs : conn'[p].gen = conn[p].gen
    PROVE  Wires'
BY CalmWires DEF Calm, Alike, SesKeeps

LEMMA RetireWires ==
    ASSUME Basis, Wires, NEW f, Alike(turn, f), NEW r \in RtStates, RetirePair(f, r),
           \A u \in Turns : ~BeginDue(u)
    PROVE  Wires'
<1>1. f \in TurnTable /\ Still(turn, f)
  BY AlikeStill DEF Alike
<1> QED
  BY <1>1, RetireKeeps, CalmPair, LoseWires

LEMMA CompleteRunWires == ASSUME Basis, Wires, NEW t \in Turns, CompleteRun(t) PROVE Wires'
<1> DEFINE f == [turn EXCEPT ![t].gone = TRUE, ![t].by = None]
           r == IF rt.runs[SessionOf[t]] = t
                  THEN [rt EXCEPT !.runs[SessionOf[t]] = None] ELSE rt
<1>1. Alike(turn, f) /\ r \in RtStates
  BY GoneKeeps, RunsKeep
<1>2. \A u \in Turns : ~BeginDue(u)
  BY DEF CompleteRun
<1>3. RetirePair(f, r) \/ (turn' = f /\ KeepPair)
  BY DEF CompleteRun
<1> HIDE DEF f, r
<1> QED
  BY <1>1, <1>2, <1>3, RetireWires, CalmPair DEF KeepPair

LEMMA LossWires ==
    ASSUME Basis, Wires,
           \/ RuntimeChanged \/ AccountChanged
           \/ \E p \in Pairs : ChildLost(p) \/ Reap(p)
    PROVE  Wires'
<1>0. rt \in RtStates /\ conn \in ConnTable /\ Alike(turn, turn)
      /\ \A x \in 0..MaxPairs : x # 0 => x \in Pairs
  BY BasisParts, CodexAssumption DEF Alike, Pairs
<1>1. \A u \in Turns : ~BeginDue(u)
  BY DEF RuntimeChanged, AccountChanged, ChildLost, Reap, Quiet
<1>2. CASE RetirePair(turn, rt)
  BY <1>0, <1>1, <1>2, RetireWires
<1>3. CASE \E p \in Pairs, reaps \in BOOLEAN : Lose(p, turn, reaps)
  BY <1>0, <1>1, <1>3, LoseWires
<1>4. CASE UNCHANGED turn /\ KeepPair
  BY <1>0, <1>4, CalmPair DEF KeepPair
<1>5. CASE \E p \in Pairs : ChildLost(p) \/ Reap(p)
  BY <1>0, <1>3, <1>5 DEF ChildLost, Reap, ConnTable
<1>6. CASE RuntimeChanged \/ AccountChanged
  <2>1. CASE rt.cur # 0 /\ Lose(rt.cur, turn, conn[rt.cur].reaper)
    <3>1. rt.cur \in Pairs
      BY <1>0, <2>1, RtFields
    <3>2. conn[rt.cur].reaper \in BOOLEAN
      BY <1>0, <3>1 DEF ConnTable
    <3> QED
      BY <1>3, <2>1, <3>1, <3>2
  <2> QED
    BY <1>2, <1>4, <1>6, <2>1 DEF RuntimeChanged, AccountChanged
<1> QED
  BY <1>5, <1>6

(* Turns and sessions of a step of the wire stay, or one request is over.    *)
LEMMA SameMap ==
    ASSUME NEW f, NEW g, NEW out, NEW in, NEW in2, NEW kid, NEW kid2, NEW p,
           ToldAt(f, out, in, kid, p), out \in Seq(Answers),
           \A j \in DOMAIN out : IsAnswer(out[j]) =>
             (Wants(f, p, out[j].for, out[j].what) => Wants(g, p, out[j].for, out[j].what)),
           \A s \in Sessions : kid[s].loaded => kid2[s].loaded,
           \A m \in in2 : IsOpen(m) => m \in in \/ f[m.for].rq # "sent"
    PROVE  ToldAt(g, out, in2, kid2, p)
<1> DEFINE k == [i \in DOMAIN out |-> i]
<1>1. \A j \in DOMAIN out : k[j] \in DOMAIN out /\ out[j] = out[k[j]] /\ out[j].for \in Turns
  <2>1. \A j \in DOMAIN out : out[j] \in Answers
    OBVIOUS
  <2> QED
    BY <2>1 DEF Answers
<1>2. \A i, j \in DOMAIN out : k[i] = k[j] => i = j
  OBVIOUS
<1> HIDE DEF k
<1> QED
  BY <1>1, <1>2, ToldKeeps

(* The app-server answers the one request of a turn that is open.            *)
LEMMA ServedWires ==
    ASSUME Basis, Wires, NEW p \in Pairs, NEW lines \in Seq(Answers), Served(p, lines),
           UNCHANGED <<turn, ses, conn>>
    PROVE  Wires'
<1>1. ASSUME NEW o \in Pairs PROVE AskedAt(turn', wire'[o].in, o)
  <2>1. wire'[o].in \subseteq wire[o].in
    BY DEF Served
  <2> QED
    BY <2>1 DEF Wires, Asked, AskedAt
<1> DEFINE out == wire[p].out
           in  == wire[p].in
           in2 == wire'[p].in
<1>2. /\ out \in Seq(Answers) /\ Len(out) \in Nat /\ in2 \subseteq in
      /\ ToldAt(turn, out, in, child[p], p) /\ AskedAt(turn, in, p)
      /\ in \subseteq Questions
  BY WireParts DEF Served, Wires, Told, Asked
<1>3. wire'[p].out = out \o lines
  BY DEF Served
<1>4. /\ \A j \in DOMAIN lines : IsAnswer(lines[j]) =>
           /\ j = 1
           /\ \E m \in in \ in2 :
                /\ IsOpen(m) /\ lines[j].for = m.for /\ lines[j].what = m.what
                /\ m.what = "load" /\ lines[j].answer = "ok"
                     => child'[p][SessionOf[m.for]].loaded
      /\ \A o \in Pairs, s \in Sessions : child[o][s].loaded => child'[o][s].loaded
  BY Zenon DEF Served
<1>5. \A m, n \in in : IsOpen(m) /\ IsOpen(n) /\ m.for = n.for => m = n
  BY <1>2 DEF AskedAt, Wants, IsOpen, Questions
<1> HIDE DEF out, in, in2
<1>6. ToldAt(turn', out \o lines, in2, child'[p], p)
  <2> DEFINE all == out \o lines
  <2>1. /\ DOMAIN out = 1..Len(out) /\ DOMAIN lines = 1..Len(lines) /\ Len(lines) \in Nat
        /\ DOMAIN all = 1..(Len(out) + Len(lines))
        /\ \A i \in 1..Len(out) : all[i] = out[i]
        /\ \A i \in 1..Len(lines) : all[Len(out) + i] = lines[i]
    BY <1>2
  <2> HIDE DEF all
  <2>2. \A i \in DOMAIN all : i \in DOMAIN out \/ (\E j \in DOMAIN lines : i = Len(out) + j)
    <3> TAKE i \in DOMAIN all
    <3>1. i \in 1..Len(out) \/ (i - Len(out) \in 1..Len(lines) /\ i = Len(out) + (i - Len(out)))
      BY <1>2, <2>1
    <3> QED
      BY <2>1, <3>1
  <2>3. ASSUME NEW i \in DOMAIN out, IsAnswer(out[i])
        PROVE  /\ Wants(turn, p, out[i].for, out[i].what)
               /\ out[i].what = "load" /\ out[i].answer = "ok"
                    => child'[p][SessionOf[out[i].for]].loaded
               /\ \A j \in DOMAIN out : IsAnswer(out[j]) /\ out[j].for = out[i].for => i = j
               /\ \A m \in in : IsOpen(m) => m.for # out[i].for
    <3>1. out[i].for \in Turns
      BY <1>2 DEF Answers
    <3>2. SessionOf[out[i].for] \in Sessions
      BY <3>1, CodexAssumption
    <3> QED
      BY <1>2, <1>4, <2>3, <3>2 DEF ToldAt
  <2>4. ASSUME NEW j \in DOMAIN lines, IsAnswer(lines[j])
        PROVE  /\ j = 1
               /\ Wants(turn, p, lines[j].for, lines[j].what)
               /\ lines[j].what = "load" /\ lines[j].answer = "ok"
                    => child'[p][SessionOf[lines[j].for]].loaded
               /\ \A i \in DOMAIN out : IsAnswer(out[i]) => out[i].for # lines[j].for
               /\ \A m \in in2 : IsOpen(m) => m.for # lines[j].for
    <3>1. PICK m \in in \ in2 :
             /\ IsOpen(m) /\ lines[j].for = m.for /\ lines[j].what = m.what
             /\ m.what = "load" /\ lines[j].answer = "ok"
                  => child'[p][SessionOf[m.for]].loaded
      BY <1>4, <2>4
    <3>2. j = 1
      BY <1>4, <2>4
    <3>3. Wants(turn, p, m.for, m.what)
      BY <1>2, <3>1 DEF AskedAt
    <3>4. \A n \in in2 : IsOpen(n) => n.for # m.for
      BY <1>2, <1>5, <3>1
    <3>5. \A i \in DOMAIN out : IsAnswer(out[i]) => out[i].for # m.for
      BY <2>3, <3>1
    <3> QED
      BY <3>1, <3>2, <3>3, <3>4, <3>5
  <2>5. SUFFICES ASSUME NEW i \in DOMAIN all, IsAnswer(all[i])
                 PROVE  /\ Wants(turn, p, all[i].for, all[i].what)
                        /\ all[i].what = "load" /\ all[i].answer = "ok"
                             => child'[p][SessionOf[all[i].for]].loaded
                        /\ \A j \in DOMAIN all :
                             IsAnswer(all[j]) /\ all[j].for = all[i].for => i = j
                        /\ \A m \in in2 : IsOpen(m) => m.for # all[i].for
    BY DEF ToldAt, all
  <2>6. CASE i \in DOMAIN out
    <3>1. all[i] = out[i]
      BY <2>1, <2>6
    <3>2. \A j \in DOMAIN all : IsAnswer(all[j]) /\ all[j].for = out[i].for => i = j
      BY <2>1, <2>2, <2>3, <2>4, <2>5, <2>6, <3>1
    <3> QED
      BY <1>2, <2>3, <2>5, <2>6, <3>1, <3>2
  <2>7. CASE \E j \in DOMAIN lines : i = Len(out) + j
    <3>1. PICK j \in DOMAIN lines : i = Len(out) + j
      BY <2>7
    <3>2. all[i] = lines[j]
      BY <2>1, <3>1
    <3>3. \A h \in DOMAIN all : IsAnswer(all[h]) /\ all[h].for = lines[j].for => h = i
      BY <2>1, <2>2, <2>3, <2>4, <2>5, <3>1, <3>2
    <3> QED
      BY <2>4, <2>5, <3>2, <3>3
  <2> QED
    BY <2>2, <2>6, <2>7
<1>7. ASSUME NEW o \in Pairs PROVE ToldAt(turn', wire'[o].out, wire'[o].in, child'[o], o)
  <2>1. CASE o = p
    BY <1>3, <1>6, <2>1 DEF in2
  <2>2. CASE o # p
    <3>1. wire'[o] = wire[o]
      BY <2>2 DEF Served
    <3> DEFINE w == wire[o].out
               n == wire[o].in
    <3>2. w \in Seq(Answers) /\ ToldAt(turn, w, n, child[o], o)
      BY WireParts DEF Wires, Told
    <3>3. \A s \in Sessions : child[o][s].loaded => child'[o][s].loaded
      BY <1>4
    <3> HIDE DEF w, n
    <3>4. ToldAt(turn, w, n, child'[o], o)
      BY <3>2, <3>3, SameMap
    <3> QED
      BY <3>1, <3>4 DEF w, n
  <2> QED
    BY <2>1, <2>2
<1>8. Loads(turn, child)'
  <2>1. \A u \in Turns : turn[u].rq = "ok" /\ turn[u].ph \in Loading =>
          turn[u].pair \in Pairs /\ SessionOf[u] \in Sessions
    BY BasisParts, CodexAssumption DEF TurnsKnown, Loading
  <2> QED
    BY <1>4, <2>1 DEF Wires, Loads
<1>9. Threads(ses, conn, child)'
  BY <1>4, ThreadsKept DEF SesKeeps
<1> QED
  BY <1>1, <1>7, <1>8, <1>9 DEF Wires, Asked, Told

(* An answer is noted by the turn that waits for it, a notification is none. *)
LEMMA DeliverWires == ASSUME Basis, Wires, NEW p \in Pairs, Deliver(p) PROVE Wires'
<1> DEFINE out == wire[p].out
           l == Head(out)
<1>0. wire[p].out # <<>>
  BY DEF Deliver
<1>1. Delivers(p)
  BY DeliverDelivers
<1>2. /\ out \in Seq(Answers) /\ l = out[1] /\ 1 \in DOMAIN out /\ l \in Answers
      /\ Tail(out) \in Seq(Answers) /\ DOMAIN Tail(out) = 1..(Len(out) - 1)
      /\ \A i \in DOMAIN Tail(out) : Tail(out)[i] = out[i + 1] /\ i + 1 \in DOMAIN out
                                     /\ i + 1 # 1
  BY <1>0, HeadLine, WireParts
<1>3. /\ wire'[p].in = wire[p].in /\ wire'[p].out = Tail(out)
      /\ \A o \in Pairs \ {p} : wire'[o] = wire[o]
      /\ conn' = conn /\ child' = child /\ SesKeeps(ses')
      /\ \/ IsAnswer(l) /\ Moved(turn, turn', l.for, turn[l.for].ph, l.answer)
         \/ ~IsAnswer(l) /\ Alike(turn, turn')
  BY <1>1, LikeKeeps DEF Delivers
<1>4. ToldAt(turn, out, wire[p].in, child[p], p)
  BY DEF Wires, Told
<1> DEFINE x == l.for
<1> HIDE DEF out
<1>5. IsAnswer(l) =>
        /\ turn[x].pair = p /\ turn[x].rq = "sent" /\ (l.what = "load" <=> turn[x].ph \in Loading)
        /\ l.what = "load" /\ l.answer = "ok" => child[p][SessionOf[x]].loaded
        /\ \A i \in DOMAIN out : IsAnswer(out[i]) /\ out[i].for = x => i = 1
        /\ \A m \in wire[p].in : IsOpen(m) => m.for # x
  BY <1>2, <1>4 DEF ToldAt, Wants
<1>a. x \in Turns
  BY <1>2 DEF Answers
<1> HIDE DEF l, x
(* Requests of the other turns are what they were.                           *)
<1> DEFINE Other(u) == ~IsAnswer(l) \/ u # x
<1>6. \A u \in Turns : /\ turn'[u].pair = turn[u].pair
                       /\ turn'[u].ph = turn[u].ph
                       /\ Other(u) => turn'[u].rq = turn[u].rq
  BY <1>3 DEF Moved, Alike, x
<1>7. \A o \in Pairs, u \in Turns : \A what : Wants(turn, o, u, what) /\ (o = p => Other(u)) =>
        Wants(turn', o, u, what)
  BY <1>5, <1>6 DEF Wants
<1>8. ASSUME NEW o \in Pairs PROVE AskedAt(turn', wire'[o].in, o)
  <2>1. wire'[o].in = wire[o].in /\ \A m \in wire[o].in : m.for \in Turns
    BY <1>3, WireParts DEF Questions
  <2>2. \A m \in wire[o].in : IsOpen(m) => Wants(turn, o, m.for, m.what) /\ m.on = m.for
    BY DEF Wires, Asked, AskedAt
  <2>3. \A m \in wire[o].in : IsOpen(m) /\ o = p => Other(m.for)
    BY <1>5
  <2> HIDE DEF Other
  <2> QED
    BY <1>7, <2>1, <2>2, <2>3 DEF AskedAt
<1>9. ASSUME NEW o \in Pairs PROVE ToldAt(turn', wire'[o].out, wire'[o].in, child'[o], o)
  <2>1. CASE o = p
    <3> DEFINE w == Tail(out)
               k == [i \in DOMAIN w |-> i + 1]
               n == wire[p].in
               kid == child[p]
    <3>1. \A j \in DOMAIN w : k[j] \in DOMAIN out /\ w[j] = out[k[j]] /\ w[j].for \in Turns
                              /\ k[j] # 1
      <4>1. \A j \in DOMAIN w : w[j] \in Answers
        BY <1>2
      <4> QED
        BY <1>2, <4>1 DEF Answers
    <3>2. \A i, j \in DOMAIN w : k[i] = k[j] => i = j
      BY <1>2
    <3> HIDE DEF k, w
    <3>3. \A j \in DOMAIN w : IsAnswer(w[j]) => Other(w[j].for)
      BY <1>5, <3>1
    <3> HIDE DEF Other
    <3>4. \A j \in DOMAIN w : IsAnswer(w[j]) =>
            (Wants(turn, p, w[j].for, w[j].what) => Wants(turn', p, w[j].for, w[j].what))
      BY <1>7, <3>1, <3>3
    <3>5. ToldAt(turn, out, n, kid, p) /\ (\A s \in Sessions : kid[s].loaded => kid[s].loaded)
          /\ \A m \in n : IsOpen(m) => m \in n \/ turn[m.for].rq # "sent"
      BY <1>4
    <3> HIDE DEF n, kid
    <3>6. ToldAt(turn', w, n, kid, p)
      BY <3>1, <3>2, <3>4, <3>5, ToldKeeps
    <3> QED
      BY <1>3, <2>1, <3>6 DEF w, n, kid
  <2>2. CASE o # p
    <3> DEFINE w == wire[o].out
               n == wire[o].in
    <3>1. w \in Seq(Answers) /\ ToldAt(turn, w, n, child[o], o) /\ wire'[o] = wire[o]
          /\ \A j \in DOMAIN w : w[j].for \in Turns
      BY <1>3, <2>2, WireParts DEF Wires, Told, Answers
    <3> HIDE DEF w, n, Other
    <3>2. \A j \in DOMAIN w : IsAnswer(w[j]) =>
            (Wants(turn, o, w[j].for, w[j].what) => Wants(turn', o, w[j].for, w[j].what))
      BY <1>7, <2>2, <3>1
    <3>3. ToldAt(turn', w, n, child[o], o)
      BY <3>1, <3>2, SameMap
    <3> QED
      BY <1>3, <3>1, <3>3 DEF w, n
  <2> QED
    BY <2>1, <2>2
<1>10. Loads(turn, child)'
  <2> SUFFICES ASSUME NEW u \in Turns, turn'[u].rq = "ok", turn'[u].ph \in Loading
               PROVE  child'[turn'[u].pair][SessionOf[u]].loaded
    BY DEF Loads
  <2>1. CASE Other(u)
    BY <1>3, <1>6, <2>1 DEF Wires, Loads
  <2>2. CASE ~Other(u)
    <3>1. l.answer = "ok" /\ u = x /\ IsAnswer(l)
      BY <1>3, <2>2 DEF Moved, x
    <3> QED
      BY <1>3, <1>5, <1>6, <3>1
  <2> QED
    BY <2>1, <2>2
<1>11. Threads(ses, conn, child)'
  BY <1>3, ThreadsKept
<1> QED
  BY <1>8, <1>9, <1>10, <1>11 DEF Wires, Asked, Told

LEMMA WiresInit == ASSUME CodexInit PROVE Wires
<1>1. \A p \in Pairs : wire[p].in = {} /\ wire[p].out = <<>>
  BY DEF CodexInit, NoLines
<1>2. \A t \in Turns : turn[t].rq = "none"
  BY DEF CodexInit
<1>3. \A p \in Pairs, s \in Sessions : ~ses[p][s].thread /\ ses[p][s].gen = 0 /\ conn[p].gen = 0
  BY DEF CodexInit, NewSession
<1>4. Threads(ses, conn, child)
  BY <1>3 DEF Threads
<1>5. Loads(turn, child)
  BY <1>2 DEF Loads
<1>6. Asked(turn, wire)
  BY <1>1 DEF Asked, AskedAt
<1>7. Told(turn, wire, child)
  BY <1>1 DEF Told, ToldAt
<1> QED
  BY <1>4, <1>5, <1>6, <1>7 DEF Wires

LEMMA WiresSame == ASSUME Basis, Wires, UNCHANGED vars PROVE Wires'
BY CalmWires DEF vars, Calm, SesKeeps

(* The timer of a request: its line is closed, or its answer is dropped.     *)
Mine(m, t, field) == m.for = t /\ ((m.what = "interrupt") <=> (field = "dq"))

TimesOut(p, t, field) ==
    /\ wire' \in WireTable /\ \A o \in Pairs \ {p} : wire'[o] = wire[o]
    /\ \A m \in wire'[p].in : IsOpen(m) => m \in wire[p].in /\ ~Mine(m, t, field)
    /\ \E k \in [DOMAIN wire'[p].out -> DOMAIN wire[p].out] :
         /\ \A j \in DOMAIN wire'[p].out : wire'[p].out[j] = wire[p].out[k[j]]
         /\ \A i, j \in DOMAIN wire'[p].out : k[i] = k[j] => i = j
         /\ (\E i \in DOMAIN wire[p].out : wire[p].out[i].kind = "reply" /\ Mine(wire[p].out[i], t, field))
              => \E i \in DOMAIN wire[p].out :
                   /\ wire[p].out[i].kind = "reply" /\ Mine(wire[p].out[i], t, field)
                   /\ \A j \in DOMAIN wire'[p].out : k[j] # i

LEMMA TimeOutLines ==
    ASSUME Basis, NEW t \in Turns, NEW field \in {"rq", "dq"}, TimeOut(t, field),
           turn[t].pair \in Pairs
    PROVE  TimesOut(turn[t].pair, t, field)
<1> DEFINE p == turn[t].pair
           out == wire[p].out
           mine(m) == m.for = t /\ ((m.what = "interrupt") <=> (field = "dq"))
           replies == {i \in DOMAIN out : out[i].kind = "reply" /\ mine(out[i])}
           in2 == {IF mine(m) THEN [m EXCEPT !.open = FALSE] ELSE m : m \in wire[p].in}
           out2 == IF replies = {} THEN out ELSE RemoveAt(out, CHOOSE i \in replies : TRUE)
<1>0. wire \in WireTable /\ wire' \in WireTable /\ wire[p].in \subseteq Questions
      /\ out \in Seq(Answers) /\ Len(out) \in Nat
  BY TimeOutBasis, BasisParts, WireParts DEF Basis
<1>1. wire' = [wire EXCEPT ![p].in = in2, ![p].out = out2]
  BY DEF TimeOut
<1>2. \A m \in in2 : IsOpen(m) => m \in wire[p].in /\ ~mine(m)
  <2>1. ASSUME NEW m \in wire[p].in
        PROVE  ~IsOpen([m EXCEPT !.open = FALSE])
    BY <1>0 DEF Questions, IsOpen
  <2> HIDE DEF mine
  <2> QED
    BY <2>1
<1>3. \E k \in [DOMAIN out2 -> DOMAIN out] :
         /\ \A j \in DOMAIN out2 : out2[j] = out[k[j]]
         /\ \A i, j \in DOMAIN out2 : k[i] = k[j] => i = j
         /\ replies # {} => \E i \in replies : \A j \in DOMAIN out2 : k[j] # i
  <2>1. CASE replies = {}
    <3> DEFINE k == [i \in DOMAIN out |-> i]
    <3>1. k \in [DOMAIN out -> DOMAIN out] /\ out2 = out
      BY <2>1
    <3>2. \A j \in DOMAIN out : out[j] = out[k[j]]
      OBVIOUS
    <3>3. \A i, j \in DOMAIN out : k[i] = k[j] => i = j
      OBVIOUS
    <3> HIDE DEF k, out2, replies
    <3> QED
      BY <2>1, <3>1, <3>2, <3>3
  <2>2. CASE replies # {}
    <3>1. PICK i \in replies : out2 = RemoveAt(out, i)
      BY <2>2
    <3>2. i \in 1..Len(out) /\ i \in replies
      BY <1>0
    <3> HIDE DEF replies, out2
    <3> PICK q \in Seq(Answers) : q = out
      BY <1>0
    <3> HIDE DEF out
    <3>3. /\ out2 \in Seq(Answers) /\ Len(out2) = Len(q) - 1
          /\ \A j \in 1..(Len(q) - 1) : out2[j] = IF j < i THEN q[j] ELSE q[j + 1]
      BY <3>1, <3>2, RemoveAtProperties
    <3> DEFINE k == [j \in 1..(Len(q) - 1) |-> IF j < i THEN j ELSE j + 1]
    <3>4. DOMAIN out2 = 1..(Len(q) - 1) /\ DOMAIN q = 1..Len(q) /\ Len(q) \in Nat /\ i \in Nat
      BY <3>2, <3>3
    <3>5. k \in [DOMAIN out2 -> DOMAIN q]
      BY <3>4
    <3>6. \A j \in DOMAIN out2 : out2[j] = q[k[j]] /\ k[j] # i
      BY <3>3, <3>4
    <3>7. \A h, j \in DOMAIN out2 : k[h] = k[j] => h = j
      BY <3>4
    <3> HIDE DEF k
    <3> QED
      BY <3>2, <3>5, <3>6, <3>7
  <2> QED
    BY <2>1, <2>2
<1> HIDE DEF in2, out2, p
<1>4. wire'[p].in = in2 /\ wire'[p].out = out2 /\ \A o \in Pairs \ {p} : wire'[o] = wire[o]
  BY <1>0, <1>1 DEF WireTable, p
<1>5. \A m : mine(m) <=> Mine(m, t, field)
  BY DEF Mine
<1> HIDE DEF mine
<1>6. TimesOut(p, t, field)
  BY <1>0, <1>2, <1>3, <1>4, <1>5 DEF TimesOut
<1> QED
  BY <1>6 DEF p

LEMMA TimeOutWires ==
    ASSUME Basis, Wires, NEW t \in Turns, NEW field \in {"rq", "dq"}, TimeOut(t, field)
    PROVE  Wires'
<1> DEFINE p == turn[t].pair
<1>0. turn \in TurnTable /\ turn[t] \in TurnState /\ wire \in WireTable
  BY BasisParts DEF TurnTable
<1>1. /\ UNCHANGED <<ses, conn, child>> /\ turn[t][field] = "sent"
      /\ turn' = [turn EXCEPT ![t][field] = "error"]
  BY DEF TimeOut
<1>2. \A u \in Turns : /\ turn'[u].pair = turn[u].pair /\ turn'[u].ph = turn[u].ph
                       /\ ~(u = t /\ field = "rq") => turn'[u].rq = turn[u].rq
                       /\ u = t /\ field = "rq" => turn'[u].rq = "error"
  BY <1>0, <1>1 DEF TurnTable, TurnState
<1>3. Threads(ses, conn, child)'
  BY <1>1, ThreadsKept DEF SesKeeps
<1>4. CASE p \notin Pairs
  <2>1. wire' = wire
    BY <1>0, <1>4 DEF TimeOut, WireTable
  <2>2. field # "rq"
    BY <1>1, <1>4, BasisParts DEF TurnsKnown
  <2>3. Calm
    BY <1>1, <1>2, <2>1, <2>2 DEF Calm
  <2> QED
    BY <1>1, <2>3, CalmWires DEF SesKeeps
<1>5. CASE p \in Pairs
  <2>0. TimesOut(p, t, field)
    BY <1>5, TimeOutLines
  <2>a. \A m : Mine(m, t, field) <=> m.for = t /\ ((m.what = "interrupt") <=> (field = "dq"))
    BY DEF Mine
  <2> HIDE DEF p
(* A request of t is over only if it is not one that its driver made.        *)
  <2>1. \A o \in Pairs, u \in Turns : \A what : Wants(turn, o, u, what) /\ ~(u = t /\ field = "rq") =>
          Wants(turn', o, u, what)
    BY <1>2 DEF Wants
  <2>2. ASSUME NEW o \in Pairs PROVE AskedAt(turn', wire'[o].in, o)
    <3> SUFFICES ASSUME NEW m \in wire'[o].in, IsOpen(m)
                 PROVE  Wants(turn', o, m.for, m.what) /\ m.on = m.for
      BY DEF AskedAt
    <3>1. m \in wire[o].in /\ (o = p => ~Mine(m, t, field))
      BY <2>0 DEF TimesOut
    <3>2. Wants(turn, o, m.for, m.what) /\ m.on = m.for /\ m.for \in Turns
      BY <3>1, WireParts DEF Wires, Asked, AskedAt, Questions
    <3>3. ~(m.for = t /\ field = "rq")
      BY <2>a, <3>1, <3>2 DEF IsOpen, Wants, p
    <3> QED
      BY <2>1, <3>2, <3>3
  <2>3. ASSUME NEW o \in Pairs PROVE ToldAt(turn', wire'[o].out, wire'[o].in, child'[o], o)
    <3> DEFINE out  == wire[o].out
               out2 == wire'[o].out
               in   == wire[o].in
               in2  == wire'[o].in
               kid  == child[o]
    <3>1. out \in Seq(Answers) /\ (\A i \in DOMAIN out : out[i].for \in Turns)
          /\ ToldAt(turn, out, in, kid, o) /\ child' = child
          /\ \A m \in in2 : IsOpen(m) => m \in in
      BY <1>1, <2>0, WireParts DEF Wires, Told, Answers, TimesOut
    <3>2. \E k \in [DOMAIN out2 -> DOMAIN out] :
            /\ \A j \in DOMAIN out2 : out2[j] = out[k[j]]
            /\ \A i, j \in DOMAIN out2 : k[i] = k[j] => i = j
            /\ \A j \in DOMAIN out2 : IsAnswer(out2[j]) => ~(out2[j].for = t /\ field = "rq")
      <4>1. CASE o = p
        <5>1. PICK k \in [DOMAIN out2 -> DOMAIN out] :
                 /\ \A j \in DOMAIN out2 : out2[j] = out[k[j]]
                 /\ \A i, j \in DOMAIN out2 : k[i] = k[j] => i = j
                 /\ (\E i \in DOMAIN out : out[i].kind = "reply" /\ Mine(out[i], t, field))
                      => \E i \in DOMAIN out :
                           /\ out[i].kind = "reply" /\ Mine(out[i], t, field)
                           /\ \A j \in DOMAIN out2 : k[j] # i
          <6>1. TimesOut(o, t, field)
            BY <2>0, <4>1
          <6> QED
            BY <6>1, Zenon DEF TimesOut
        <5> HIDE DEF out, out2, in, in2, kid
        <5>2. ASSUME NEW j \in DOMAIN out2, IsAnswer(out2[j]), out2[j].for = t, field = "rq"
              PROVE  FALSE
          <6>1. k[j] \in DOMAIN out /\ out[k[j]] = out2[j]
            BY <5>1
          <6>2. IsAnswer(out[k[j]]) /\ out[k[j]].for = t
            BY <5>2, <6>1
          <6>3. \A i \in DOMAIN out : IsAnswer(out[i]) /\ out[i].for = t => i = k[j]
            BY <3>1, <6>1, <6>2 DEF ToldAt
          <6>4. \A i \in DOMAIN out : out[i].kind = "reply" /\ Mine(out[i], t, field)
                                       <=> IsAnswer(out[i]) /\ out[i].for = t
            BY <2>a, <5>2 DEF IsAnswer
          <6> QED
            BY <5>1, <6>1, <6>2, <6>3, <6>4
        <5> QED
          BY <5>1, <5>2
      <4>2. CASE o # p
        <5> DEFINE k == [i \in DOMAIN out |-> i]
        <5>1. out2 = out
          BY <2>0, <4>2 DEF TimesOut
        <5>2. \A j \in DOMAIN out : IsAnswer(out[j]) => out[j].for # t
          BY <3>1, <4>2 DEF ToldAt, Wants, p
        <5>3. k \in [DOMAIN out -> DOMAIN out] /\ (\A j \in DOMAIN out : out[j] = out[k[j]])
              /\ \A i, j \in DOMAIN out : k[i] = k[j] => i = j
          OBVIOUS
        <5> HIDE DEF k, out, out2
        <5> QED
          BY <5>1, <5>2, <5>3
      <4> QED
        BY <4>1, <4>2
    <3> HIDE DEF out, out2, in, in2, kid
    <3>3. PICK k \in [DOMAIN out2 -> DOMAIN out] :
            /\ \A j \in DOMAIN out2 : out2[j] = out[k[j]]
            /\ \A i, j \in DOMAIN out2 : k[i] = k[j] => i = j
            /\ \A j \in DOMAIN out2 : IsAnswer(out2[j]) => ~(out2[j].for = t /\ field = "rq")
      BY <3>2
    <3>4. \A j \in DOMAIN out2 : k[j] \in DOMAIN out /\ out2[j] = out[k[j]] /\ out2[j].for \in Turns
      BY <3>1, <3>3
    <3>5. \A j \in DOMAIN out2 : IsAnswer(out2[j]) =>
            (Wants(turn, o, out2[j].for, out2[j].what) => Wants(turn', o, out2[j].for, out2[j].what))
      BY <2>1, <3>3, <3>4
    <3>6. /\ \A s \in Sessions : kid[s].loaded => kid[s].loaded
          /\ \A m \in in2 : IsOpen(m) => m \in in \/ turn[m.for].rq # "sent"
      BY <3>1
    <3>8. \A i, j \in DOMAIN out2 : k[i] = k[j] => i = j
      BY <3>3
    <3>7. ToldAt(turn', out2, in2, kid, o)
      <4>1. ToldAt(turn, out, in, kid, o)
        BY <3>1
      <4> QED
        BY <3>4, <3>5, <3>6, <3>8, <4>1, ToldKeeps
    <3> QED
      BY <3>1, <3>7 DEF out2, in2, kid
  <2>4. Loads(turn, child)'
    BY <1>1, <1>2 DEF Wires, Loads
  <2> QED
    BY <1>3, <2>2, <2>3, <2>4 DEF Wires, Asked, Told
<1> QED
  BY <1>4, <1>5

LEMMA WiresNext == ASSUME Basis, Wires, [CodexNext]_vars PROVE Wires'
<1>1. CASE Reactions
  BY <1>1, EnterWires, CompleteRunWires, QuietSteps, BeginWires, DriverContinuesDrives,
     DrivesWires, HeadStartsGoes, HeadWires DEF Reactions
<1>2. CASE Timers
  BY <1>2, DriverAsksDrives, DrivesWires, QuietSteps, TimeOutWires, HeadResumesGoes,
     HeadWires, LossWires DEF Timers
<1>3. CASE AppServer
  <2>1. ASSUME NEW p \in Pairs, NEW m \in wire[p].in, Serve(p, m) PROVE Wires'
    BY <2>1, ServeServes, ServedWires
  <2>2. ASSUME NEW p \in Pairs, NEW s \in Sessions, NEW k \in Ends, ServeEnd(p, s, k) PROVE Wires'
    BY <2>2, ServeEndServes, ServedWires
  <2> QED
    BY <1>3, <2>1, <2>2, HandshakeWires, LossWires, PairSteps, DeliverWires DEF AppServer
<1>4. CASE Runtime
  BY <1>4, QuietSteps, PairSteps, LossWires DEF Runtime
<1>5. CASE UNCHANGED vars
  BY <1>5, WiresSame
<1> QED
  BY <1>1, <1>2, <1>3, <1>4, <1>5 DEF CodexNext

(* A thread that counts as loaded is loaded in the child of its connection,  *)
(* for any turns, sessions, account changes and losses (generation,          *)
(* noteConnectionLost, recoverThread of the codex session manager).          *)
THEOREM ThreadLoadedHolds == CodexSpec => []ThreadLoaded
<1>1. CodexInit => Basis /\ Wires
  BY BasisInit, WiresInit
<1>2. Basis /\ Wires /\ [CodexNext]_vars => (Basis /\ Wires)'
  BY BasisNext, WiresNext
<1>3. Basis /\ Wires => ThreadLoaded
  BY DEF Basis, Wires, Threads, ThreadLoaded
<1> QED
  BY <1>1, <1>2, <1>3, PTL DEF CodexSpec

(* What the runtime knows of its pairs, of the turns that wait for one to be *)
(* set up and of the sessions that the managers own.                         *)
Resolved(r) == r.made \cup r.failed

WaitsKnown ==
    /\ \A t \in Turns : turn[t].ph = "setup" => \E i \in DOMAIN rt.waits : rt.waits[i] = t
    /\ \A i \in DOMAIN rt.waits : turn[rt.waits[i]].ph = "setup"
    /\ \A i, j \in DOMAIN rt.waits : rt.waits[i] = rt.waits[j] => i = j

PairsKnown ==
    /\ rt.made \cap rt.failed = {} /\ rt.cur \in rt.made \cup {0}
    /\ \A p \in Pairs, s \in Sessions : ses[p][s].owned => p \in rt.made

(* A turn whose kill waits for another pair than its own is not set up yet,  *)
(* or not killed yet.                                                        *)
KillsKnown ==
    \A t \in Turns : turn[t].ph = "setup" /\ turn[t].killed # turn[t].pair =>
      ~({turn[t].pair, turn[t].killed} \subseteq Resolved(rt))

(* A turn is on a pair that was set up; the current manager owns its session. *)
PlaceKnown ==
    \A t \in Turns : turn[t].ph \notin {"new", "setup"} =>
      /\ turn[t].pair \in Resolved(rt)
      /\ turn[t].pair = rt.cur => ses[rt.cur][SessionOf[t]].owned

(* A killed turn that is not, and will not be, a turn of pair p.             *)
Strayed(t, p, s) ==
    /\ SessionOf[t] = s /\ turn[t].killed = -1 /\ turn[t].pair # p
    /\ turn[t].ph = "setup" /\ turn[t].pair \in Resolved(rt) =>
         rt.cur \in {0, turn[t].pair} \/ turn[t].pair \in rt.failed

Adopted ==
    \A p \in Pairs, s \in Resumed :
      ses[p][s].owned => ses[p][s].thread \/ \E t \in Turns : Strayed(t, p, s)

Runs == WaitsKnown /\ PairsKnown /\ KillsKnown /\ PlaceKnown /\ Adopted

(* A set of numbers has a least.                                            *)
LEMMA LeastNumber ==
    ASSUME NEW T, T \subseteq Nat, T # {}
    PROVE  \E k \in T : \A y \in T : k <= y
  <1>1. PICK k \in T : \A y \in T : ~(<<y, k>> \in OpToRel(<, Nat))
    <2>1. IsWellFoundedOn(OpToRel(<, Nat), Nat)
      BY NatLessThanWellFounded
    <2> QED BY <2>1, WFMin
  <1>2. ASSUME NEW y \in T, ~(k <= y) PROVE FALSE
    <2>1. <<y, k>> \in Nat \X Nat /\ <<y, k>>[1] < <<y, k>>[2]
      BY <1>2
    <2>2. <<y, k>> \in OpToRel(<, Nat)
      BY <2>1 DEF OpToRel
    <2> QED BY <2>2, <1>1
  <1> QED BY <1>2

(* When all is quiet nobody waits for a pair that was set up or that failed. *)
LEMMA NoneWaits ==
    ASSUME Basis, WaitsKnown, Quiet
    PROVE  /\ \A t \in Turns : turn[t].ph = "setup" => turn[t].pair \notin Resolved(rt)
           /\ \A t \in Turns : turn[t].killed \in Resolved(rt) =>
                turn[t].ph = "setup" /\ turn[t].pair = turn[t].killed
<1>1. \A t \in Turns : turn[t].killed \in Resolved(rt) =>
        turn[t].ph = "setup" /\ turn[t].pair = turn[t].killed
  BY DEF Quiet, KillDue, Resolved
<1>2. ASSUME NEW t \in Turns, turn[t].ph = "setup", turn[t].pair \in Resolved(rt)
      PROVE  FALSE
  <2> DEFINE T == {i \in DOMAIN rt.waits : turn[rt.waits[i]].pair = turn[t].pair}
  <2>1. rt.waits \in Seq(Turns) /\ DOMAIN rt.waits \subseteq Nat \ {0}
        /\ \A i \in DOMAIN rt.waits : rt.waits[i] \in Turns /\ \A j \in 1..(i - 1) : j \in DOMAIN rt.waits
    <3>1. rt.waits \in Seq(Turns)
      BY BasisParts, RtFields
    <3> PICK q \in Seq(Turns) : q = rt.waits
      BY <3>1
    <3>2. DOMAIN q = 1..Len(q) /\ Len(q) \in Nat /\ \A i \in DOMAIN q : q[i] \in Turns
      OBVIOUS
    <3> QED
      BY <3>2
  <2>2. T # {} /\ T \subseteq Nat
    BY <1>2, <2>1 DEF WaitsKnown
  <2>3. PICK i \in T : \A j \in T : i <= j
    <3> HIDE DEF T
    <3> QED
      BY <2>2, LeastNumber
  <2> DEFINE u == rt.waits[i]
  <2>4. u \in Turns /\ turn[u].ph = "setup" /\ turn[u].pair \in rt.made \cup rt.failed
    BY <1>2, <2>1, <2>3 DEF WaitsKnown, Resolved
  <2>5. \A j \in 1..(i - 1) : turn[rt.waits[j]].pair # turn[u].pair
    <3> TAKE j \in 1..(i - 1)
    <3>1. j \in DOMAIN rt.waits /\ ~(i <= j)
      BY <2>1, <2>3
    <3> QED
      BY <2>3, <3>1
  <2>6. EnterDue(u)
    BY <2>3, <2>4, <2>5 DEF EnterDue
  <2> QED
    BY <2>4, <2>6 DEF Quiet
<1> QED
  BY <1>1, <1>2

(* Steps of turns that have been set up.                                     *)
Follows(f, g) ==
    \A u \in Turns :
      /\ g[u].pair = f[u].pair /\ g[u].killed = f[u].killed
      /\ g[u].ph = f[u].ph \/ (g[u].ph \notin {"new", "setup"} /\ f[u].ph \notin {"new", "setup"})

SessionsFollow ==
    \A p \in Pairs, s \in Sessions :
      /\ ses'[p][s].owned = ses[p][s].owned
      /\ ses[p][s].thread => ses'[p][s].thread

RuntimeFollows ==
    /\ rt'.made = rt.made /\ rt'.failed = rt.failed /\ rt'.waits = rt.waits
    /\ rt'.cur \in {0, rt.cur}

LEMMA FollowRuns ==
    ASSUME Basis, Runs, Follows(turn, turn'), SessionsFollow, RuntimeFollows
    PROVE  Runs'
<1>0. /\ TurnsKnown /\ rt.made \subseteq Pairs /\ rt.failed \subseteq Pairs /\ 0 \notin Pairs
      /\ rt.waits \in Seq(Turns) /\ Resumed \subseteq Sessions /\ SessionOf \in [Turns -> Sessions]
  BY BasisParts, RtFields, CodexAssumption DEF Pairs
<1>1. Resolved(rt)' = Resolved(rt)
  BY DEF Resolved, RuntimeFollows
<1>2. WaitsKnown'
  <2>1. \A i \in DOMAIN rt.waits : rt.waits[i] \in Turns
    <3> PICK q \in Seq(Turns) : q = rt.waits
      BY <1>0
    <3>1. \A i \in DOMAIN q : q[i] \in Turns
      OBVIOUS
    <3> QED
      BY <3>1
  <2> QED
    BY <2>1 DEF Runs, WaitsKnown, RuntimeFollows, Follows
<1>3. PairsKnown'
  BY DEF Runs, PairsKnown, RuntimeFollows, SessionsFollow
<1>4. KillsKnown'
  BY <1>1 DEF Runs, KillsKnown, Follows
<1>5. PlaceKnown'
  <2> SUFFICES ASSUME NEW t \in Turns, turn'[t].ph \notin {"new", "setup"}
               PROVE  /\ turn'[t].pair \in Resolved(rt)
                      /\ turn'[t].pair = rt'.cur => ses'[rt'.cur][SessionOf[t]].owned
    BY <1>1 DEF PlaceKnown
  <2>1. turn[t].pair \in Resolved(rt) /\ turn'[t].pair = turn[t].pair
        /\ (turn[t].pair = rt.cur => ses[rt.cur][SessionOf[t]].owned)
    BY DEF Runs, PlaceKnown, Follows
  <2>2. turn[t].pair \in Pairs /\ SessionOf[t] \in Sessions
    BY <1>0, <2>1 DEF Resolved
  <2>3. turn[t].pair = rt'.cur => rt'.cur = rt.cur
    BY <1>0, <2>2 DEF RuntimeFollows
  <2> QED
    BY <2>1, <2>2, <2>3 DEF SessionsFollow
<1>6. \A t \in Turns, p \in Pairs, s \in Sessions : Strayed(t, p, s) => Strayed(t, p, s)'
  BY <1>1 DEF Strayed, Follows, RuntimeFollows
<1>7. Adopted'
  BY <1>0, <1>6 DEF Runs, Adopted, SessionsFollow
<1> QED
  BY <1>2, <1>3, <1>4, <1>5, <1>7 DEF Runs

LEMMA FollowSteps ==
    ASSUME Basis, NEW f, Alike(turn, f) \/ Still(turn, f)
    PROVE  Follows(turn, f)
BY DEF Alike, Still, Follows, Early

LEMMA LikeFollows == ASSUME SesKeeps(ses') \/ SesLike(ses') PROVE SessionsFollow
BY DEF SesKeeps, SesLike, SessionsFollow

LEMMA SameFollows ==
    /\ ses' = ses => SessionsFollow
    /\ rt' = rt => RuntimeFollows
    /\ turn' = turn => Follows(turn, turn')
BY DEF SessionsFollow, RuntimeFollows, Follows

LEMMA MovedFollows ==
    ASSUME NEW t \in Turns, NEW ph, NEW x, Moved(turn, turn', t, ph, x),
           ph = turn[t].ph \/ {ph, turn[t].ph} \cap {"new", "setup"} = {}
    PROVE  Follows(turn, turn')
BY DEF Moved, Follows

LEMMA TurnFollows ==
    ASSUME Basis, NEW t \in Turns,
           \/ BeginContinues(t) \/ DriverContinues(t) \/ DriverAsks(t) \/ GiveUp(t)
           \/ \E field \in {"rq", "dq"} : TimeOut(t, field)
    PROVE  Follows(turn, turn') /\ SessionsFollow /\ RuntimeFollows
<1>0. turn \in TurnTable
  BY BasisParts
<1>1. CASE BeginContinues(t)
  <2>1. Goes(t) /\ rt' = rt
    BY <1>1, BeginGoes
  <2>2. turn[t].ph \notin Early /\ turn[t].pair \in Pairs
    BY <1>1, Going DEF BeginContinues
  <2>3. SessionsFollow
    BY <2>1, <2>2, LikeFollows, CodexAssumption DEF Goes, ThreadSet, SessionsFollow
  <2>4. Follows(turn, turn')
    <3>1. \E ph \in {"start", "restart", "reload", "open"} : \E x : Moved(turn, turn', t, ph, x)
      BY <2>1 DEF Goes, Asks
    <3> QED
      BY <2>2, <3>1, MovedFollows DEF Early
  <2> QED
    BY <2>1, <2>3, <2>4, SameFollows
<1>2. CASE DriverContinues(t) \/ DriverAsks(t)
  <2>1. Drives(t)
    BY <1>2, DriverContinuesDrives, DriverAsksDrives
  <2> QED
    BY <2>1, FollowSteps, SameFollows DEF Drives
<1>3. CASE GiveUp(t)
  <2>1. /\ turn' = Settle(turn, t, "interrupted", t) /\ rt' = rt
        /\ ses' = [ses EXCEPT ![turn[t].pair][SessionOf[t]].running = None]
    BY <1>3 DEF GiveUp
  <2>2. Alike(turn, turn')
    BY <1>0, <2>1, SettleKeeps DEF Outcomes
  <2>3. SesLike(ses')
    BY <2>1, RunningKeeps
  <2> QED
    BY <2>1, <2>2, <2>3, FollowSteps, LikeFollows, SameFollows
<1>4. ASSUME NEW field \in {"rq", "dq"}, TimeOut(t, field)
      PROVE  Follows(turn, turn') /\ SessionsFollow /\ RuntimeFollows
  <2>1. ses' = ses /\ rt' = rt /\ turn' = [turn EXCEPT ![t][field] = "error"]
    BY <1>4 DEF TimeOut
  <2>2. \A u \in Turns : turn'[u].pair = turn[u].pair /\ turn'[u].ph = turn[u].ph
                         /\ turn'[u].killed = turn[u].killed
    BY <1>0, <2>1 DEF TurnTable, TurnState
  <2> QED
    BY <2>1, <2>2, SameFollows DEF Follows
<1> QED
  BY <1>1, <1>2, <1>3, <1>4

LEMMA HeadFollows ==
    ASSUME Basis, NEW p \in Pairs, NEW s \in Sessions, HeadGoes(p, s)
    PROVE  Follows(turn, turn') /\ SessionsFollow /\ RuntimeFollows
<1>1. SessionsFollow /\ RuntimeFollows
  BY LikeFollows, SameFollows DEF HeadGoes
<1>2. CASE Alike(turn, turn')
  BY <1>1, <1>2, FollowSteps
<1>3. ASSUME NEW h \in Turns, NEW ph \in {"load", "start"}, turn[h].ph = "queued", Asks(p, h, ph)
      PROVE  Follows(turn, turn')
  BY <1>3, MovedFollows DEF Asks
<1> QED
  BY <1>1, <1>2, <1>3 DEF HeadGoes

LEMMA WireFollows ==
    ASSUME Basis, NEW p \in Pairs,
           \/ Handshake(p) \/ SlowDown(p) \/ ChildLost(p) \/ Reap(p) \/ Deliver(p)
           \/ \E m \in wire[p].in : Serve(p, m)
           \/ \E s \in Sessions, k \in Ends : ServeEnd(p, s, k)
    PROVE  Follows(turn, turn') /\ SessionsFollow /\ RuntimeFollows
<1>0. turn \in TurnTable /\ conn \in ConnTable
  BY BasisParts
<1>1. CASE Handshake(p)
  <2>1. ses' = ses /\ rt' = rt
    BY <1>1 DEF Handshake
  <2>2. Follows(turn, turn')
    BY <1>1, HandshakeTurns DEF Follows
  <2> QED
    BY <2>1, <2>2, SameFollows
<1>2. CASE \/ SlowDown(p) \/ \E m \in wire[p].in : Serve(p, m)
           \/ \E s \in Sessions, k \in Ends : ServeEnd(p, s, k)
  <2>1. ses' = ses /\ rt' = rt /\ turn' = turn
    BY <1>2 DEF SlowDown, Serve, ServeEnd
  <2> QED
    BY <2>1, SameFollows
<1>3. CASE ChildLost(p) \/ Reap(p)
  <2>1. rt' = rt /\ \E reaps \in BOOLEAN : Lose(p, turn, reaps)
    BY <1>0, <1>3 DEF ChildLost, Reap, ConnTable
  <2>2. Still(turn, turn') /\ SesLike(ses')
    BY <1>0, <2>1, SameStill, LoseKeeps
  <2> QED
    BY <2>1, <2>2, FollowSteps, LikeFollows, SameFollows
<1>4. CASE Deliver(p)
  <2>1. Delivers(p)
    BY <1>4, DeliverDelivers
  <2> DEFINE l == Head(wire[p].out)
  <2>2. l.for \in Turns
    BY <1>4, HeadLine DEF Deliver, Answers
  <2>3. /\ SesLike(ses') /\ \E more \in 0..MaxPairs : rt' = [rt EXCEPT !.chunk = more]
        /\ \/ Moved(turn, turn', l.for, turn[l.for].ph, l.answer)
           \/ Alike(turn, turn')
    BY <2>1 DEF Delivers
  <2>4. RuntimeFollows
    <3>1. rt \in RtStates
      BY BasisParts
    <3> QED
      BY <2>3, <3>1 DEF RtStates, RuntimeFollows
  <2> HIDE DEF l
  <2>5. Follows(turn, turn')
    BY <2>2, <2>3, MovedFollows, FollowSteps
  <2> QED
    BY <2>3, <2>4, <2>5, LikeFollows
<1> QED
  BY <1>1, <1>2, <1>3, <1>4

LEMMA RetireFollows ==
    ASSUME Basis, NEW f, Alike(turn, f), NEW r \in RtStates, RetirePair(f, r),
           r.made = rt.made, r.failed = rt.failed, r.waits = rt.waits
    PROVE  Follows(turn, turn') /\ SessionsFollow /\ RuntimeFollows
<1>1. f \in TurnTable /\ Still(turn, f)
  BY AlikeStill DEF Alike
<1>2. /\ Still(turn, turn') /\ SesLike(ses')
      /\ rt' = [r EXCEPT !.cur = 0, !.setup = 0, !.changed = FALSE]
  BY <1>1, RetireKeeps
<1>3. RuntimeFollows
  BY <1>2 DEF RtStates, RuntimeFollows
<1> QED
  BY <1>2, <1>3, FollowSteps, LikeFollows

LEMMA CallFollows ==
    ASSUME Basis,
           (\E t \in Turns : CompleteRun(t)) \/ RuntimeChanged \/ AccountChanged
    PROVE  Follows(turn, turn') /\ SessionsFollow /\ RuntimeFollows
<1>0. turn \in TurnTable /\ rt \in RtStates /\ Alike(turn, turn) /\ conn \in ConnTable
  BY BasisParts DEF Alike
<1>1. ASSUME NEW t \in Turns, CompleteRun(t)
      PROVE  Follows(turn, turn') /\ SessionsFollow /\ RuntimeFollows
  <2> DEFINE f == [turn EXCEPT ![t].gone = TRUE, ![t].by = None]
             r == IF rt.runs[SessionOf[t]] = t
                    THEN [rt EXCEPT !.runs[SessionOf[t]] = None] ELSE rt
  <2>1. Alike(turn, f) /\ r \in RtStates
    BY GoneKeeps, RunsKeep
  <2>2. r.made = rt.made /\ r.failed = rt.failed /\ r.waits = rt.waits /\ r.cur = rt.cur
    BY <1>0 DEF RtStates
  <2>3. RetirePair(f, r) \/ (turn' = f /\ rt' = r /\ KeepPair)
    BY <1>1 DEF CompleteRun
  <2> HIDE DEF f, r
  <2>4. CASE RetirePair(f, r)
    BY <2>1, <2>2, <2>4, RetireFollows
  <2>5. CASE turn' = f /\ rt' = r /\ KeepPair
    BY <2>1, <2>2, <2>5, FollowSteps, SameFollows DEF KeepPair, RuntimeFollows
  <2> QED
    BY <2>3, <2>4, <2>5
<1>2. CASE RetirePair(turn, rt)
  BY <1>0, <1>2, RetireFollows
<1>3. CASE RuntimeChanged /\ ~RetirePair(turn, rt)
  <2>1. rt' = [rt EXCEPT !.changed = TRUE]
    BY <1>3 DEF RuntimeChanged
  <2>2. RuntimeFollows
    BY <1>0, <2>1 DEF RtStates, RuntimeFollows
  <2>3. CASE rt.cur # 0 /\ Lose(rt.cur, turn, conn[rt.cur].reaper)
    <3>1. rt.cur \in Pairs
      BY <1>0, <2>3, RtFields, CodexAssumption DEF Pairs
    <3>2. conn[rt.cur].reaper \in BOOLEAN
      BY <1>0, <3>1 DEF ConnTable
    <3>3. Still(turn, turn') /\ SesLike(ses')
      BY <1>0, <2>3, <3>1, <3>2, SameStill, LoseKeeps
    <3> QED
      BY <2>2, <3>3, FollowSteps, LikeFollows
  <2>4. CASE UNCHANGED turn /\ KeepPair
    BY <2>2, <2>4, SameFollows DEF KeepPair
  <2> QED
    BY <1>3, <2>3, <2>4 DEF RuntimeChanged
<1> QED
  BY <1>1, <1>2, <1>3 DEF AccountChanged

LEMMA RunsFacts ==
    ASSUME Basis
    PROVE  /\ turn \in TurnTable /\ rt \in RtStates /\ TurnsKnown /\ ses \in SesTable
           /\ rt.made \subseteq Pairs /\ rt.failed \subseteq Pairs /\ 0 \notin Pairs
           /\ -1 \notin Pairs /\ Resumed \subseteq Sessions /\ SessionOf \in [Turns -> Sessions]
           /\ rt.waits \in Seq(Turns) /\ Len(rt.waits) \in Nat
           /\ DOMAIN rt.waits = 1..Len(rt.waits)
           /\ \A i \in DOMAIN rt.waits : rt.waits[i] \in Turns
<1>1. rt.waits \in Seq(Turns)
  BY BasisParts, RtFields
<1> PICK q \in Seq(Turns) : q = rt.waits
  BY <1>1
<1>2. Len(q) \in Nat /\ DOMAIN q = 1..Len(q) /\ \A i \in DOMAIN q : q[i] \in Turns
  OBVIOUS
<1> QED
  BY <1>1, <1>2, BasisParts, RtFields, CodexAssumption DEF Pairs

(* A run starts: it waits for the pair that is set up, or for a new one.     *)
LEMMA StartRunRuns == ASSUME Basis, Runs, NEW t \in Turns, StartRun(t) PROVE Runs'
<1>0. /\ turn \in TurnTable /\ rt \in RtStates /\ TurnsKnown /\ ses \in SesTable
      /\ rt.made \subseteq Pairs /\ rt.failed \subseteq Pairs /\ 0 \notin Pairs
      /\ Resumed \subseteq Sessions /\ SessionOf \in [Turns -> Sessions]
  BY RunsFacts
<1>1. /\ rt'.made = rt.made /\ rt'.failed = rt.failed /\ rt'.cur = rt.cur
      /\ rt'.waits = Append(rt.waits, t) /\ ses' = ses
  <2> DEFINE W == Append(rt.waits, t)
             p == IF rt.setup # 0 THEN rt.setup ELSE rt.last + 1
  <2>1. /\ rt' = [rt EXCEPT !.setup = p, !.last = IF p > @ THEN p ELSE @,
                            !.runs[SessionOf[t]] = t, !.waits = W]
        /\ ses' = ses
    BY DEF StartRun, KeepPair
  <2> HIDE DEF W, p
  <2>2. rt'.made = rt.made /\ rt'.failed = rt.failed /\ rt'.cur = rt.cur /\ rt'.waits = W
    BY <1>0, <2>1 DEF RtStates
  <2> QED
    BY <2>1, <2>2 DEF W
<1>2. /\ turn[t].ph = "new" /\ turn[t].killed = 0
      /\ turn'[t].ph = "setup" /\ turn'[t].killed = 0
      /\ \A u \in Turns \ {t} : turn'[u] = turn[u]
  BY <1>0 DEF StartRun, TurnsKnown, TurnTable, TurnState
<1>3. Resolved(rt)' = Resolved(rt) /\ 0 \notin Resolved(rt)
  BY <1>0, <1>1 DEF Resolved
<1>4. WaitsKnown'
  <2>1. PICK q \in Seq(Turns) : q = rt.waits
    BY RunsFacts
  <2> DEFINE w == Append(q, t)
  <2>2. /\ DOMAIN w = 1..(Len(q) + 1) /\ w[Len(q) + 1] = t /\ DOMAIN q = 1..Len(q)
        /\ Len(q) \in Nat /\ \A i \in 1..Len(q) : w[i] = q[i] /\ q[i] \in Turns
    OBVIOUS
  <2>3. rt'.waits = w
    BY <1>1, <2>1
  <2> HIDE DEF w
  <2>4. /\ \A u \in Turns : turn[u].ph = "setup" => \E i \in DOMAIN q : q[i] = u
        /\ \A i \in DOMAIN q : turn[q[i]].ph = "setup"
        /\ \A i, j \in DOMAIN q : q[i] = q[j] => i = j
    BY <2>1 DEF Runs, WaitsKnown
  <2>5. \A i \in DOMAIN w : i \in 1..Len(q) \/ i = Len(q) + 1
    BY <2>2
  <2>6. \A i \in 1..Len(q) : q[i] # t /\ turn'[q[i]] = turn[q[i]]
    BY <1>2, <2>2, <2>4
  <2>7. \A u \in Turns : turn'[u].ph = "setup" => \E i \in DOMAIN w : w[i] = u
    <3> SUFFICES ASSUME NEW u \in Turns, turn'[u].ph = "setup" PROVE \E i \in DOMAIN w : w[i] = u
      OBVIOUS
    <3>1. CASE u = t
      BY <2>2, <3>1
    <3>2. CASE u # t
      <4>1. PICK i \in DOMAIN q : q[i] = u
        BY <1>2, <2>4, <3>2
      <4> QED
        BY <2>2, <4>1
    <3> QED
      BY <3>1, <3>2
  <2>8. \A i \in DOMAIN w : turn'[w[i]].ph = "setup"
    BY <1>2, <2>2, <2>4, <2>5, <2>6
  <2>9. \A i, j \in DOMAIN w : w[i] = w[j] => i = j
    BY <2>2, <2>4, <2>5, <2>6
  <2> QED
    BY <2>3, <2>7, <2>8, <2>9 DEF WaitsKnown
<1>5. PairsKnown'
  BY <1>1 DEF Runs, PairsKnown
<1>6. KillsKnown'
  BY <1>2, <1>3 DEF Runs, KillsKnown
<1>7. PlaceKnown'
  BY <1>1, <1>2, <1>3 DEF Runs, PlaceKnown
<1>8. \A u \in Turns, p \in Pairs, s \in Sessions : Strayed(u, p, s) => Strayed(u, p, s)'
  BY <1>1, <1>2, <1>3 DEF Strayed
<1>9. Adopted'
  BY <1>0, <1>1, <1>8 DEF Runs, Adopted
<1> QED
  BY <1>4, <1>5, <1>6, <1>7, <1>9 DEF Runs

(* A pair was created, or its creation failed.                               *)
LEMMA CreatePairRuns == ASSUME Basis, Runs, NEW p \in Pairs, CreatePair(p) PROVE Runs'
<1>0. /\ rt \in RtStates /\ TurnsKnown
      /\ rt.made \subseteq Pairs /\ rt.failed \subseteq Pairs /\ 0 \notin Pairs
      /\ Resumed \subseteq Sessions
  BY RunsFacts
<1>1. /\ turn' = turn /\ ses' = ses /\ rt'.waits = rt.waits /\ p \notin Resolved(rt)
      /\ \/ rt'.made = rt.made \cup {p} /\ rt'.failed = rt.failed /\ rt'.cur = p
         \/ rt'.made = rt.made /\ rt'.failed = rt.failed \cup {p} /\ rt'.cur = rt.cur
  <2>1. /\ turn' = turn /\ ses' = ses /\ p \notin Resolved(rt)
        /\ \/ rt' = [rt EXCEPT !.made = @ \cup {p}, !.cur = p]
           \/ rt' = [rt EXCEPT !.failed = @ \cup {p}, !.setup = IF @ = p THEN 0 ELSE @]
    BY DEF CreatePair, KeepPair, Resolved
  <2> QED
    BY <1>0, <2>1 DEF RtStates
<1>2. /\ \A t \in Turns : turn[t].ph = "setup" => turn[t].pair \notin Resolved(rt)
      /\ \A t \in Turns : turn[t].killed \in Resolved(rt) =>
           turn[t].ph = "setup" /\ turn[t].pair = turn[t].killed
  BY NoneWaits DEF Runs, CreatePair
<1>3. Resolved(rt)' = Resolved(rt) \cup {p}
  BY <1>1 DEF Resolved
<1>4. WaitsKnown'
  BY <1>1 DEF Runs, WaitsKnown
<1>5. PairsKnown'
  BY <1>1 DEF Runs, PairsKnown, Resolved
<1>6. KillsKnown'
  BY <1>1, <1>2, <1>3 DEF KillsKnown
<1>7. PlaceKnown'
  BY <1>1, <1>3 DEF Runs, PlaceKnown
<1>8. \A u \in Turns, o \in Pairs, s \in Sessions : Strayed(u, o, s) => Strayed(u, o, s)'
  BY <1>1, <1>2, <1>3 DEF Strayed
<1>9. Adopted'
  BY <1>0, <1>1, <1>8 DEF Runs, Adopted
<1> QED
  BY <1>4, <1>5, <1>6, <1>7, <1>9 DEF Runs

(* A kill waits for the pair that is set up now, if there is one.            *)
LEMMA KillRuns == ASSUME Basis, Runs, NEW t \in Turns, Kill(t) PROVE Runs'
<1>0. turn \in TurnTable /\ -1 \notin Pairs /\ Resumed \subseteq Sessions
      /\ rt.made \subseteq Pairs /\ rt.failed \subseteq Pairs
      /\ \A i \in DOMAIN rt.waits : rt.waits[i] \in Turns
  BY RunsFacts
<1>1. /\ ses' = ses /\ rt' = rt /\ turn[t].killed = 0
      /\ \E x : turn' = [turn EXCEPT ![t].killed = x]
  BY DEF Kill, KeepPair
<1>2. \A u \in Turns : /\ turn'[u].ph = turn[u].ph /\ turn'[u].pair = turn[u].pair
                       /\ u # t => turn'[u].killed = turn[u].killed
  BY <1>0, <1>1 DEF TurnTable, TurnState
<1>3. \A u \in Turns : turn[u].ph = "setup" => turn[u].pair \notin Resolved(rt)
  BY NoneWaits DEF Runs, Kill
<1>4. WaitsKnown' /\ PairsKnown'
  BY <1>0, <1>1, <1>2 DEF Runs, WaitsKnown, PairsKnown
<1>5. KillsKnown'
  BY <1>1, <1>2, <1>3 DEF KillsKnown, Resolved
<1>6. PlaceKnown'
  BY <1>1, <1>2 DEF Runs, PlaceKnown, Resolved
<1>7. \A u \in Turns, o \in Pairs, s \in Sessions : Strayed(u, o, s) => Strayed(u, o, s)'
  <2>1. 0 # -1
    OBVIOUS
  <2> QED
    BY <1>1, <1>2, <2>1 DEF Strayed, Resolved
<1>8. Adopted'
  BY <1>0, <1>1, <1>7 DEF Runs, Adopted
<1> QED
  BY <1>4, <1>5, <1>6, <1>8 DEF Runs

(* The turn that was set up no longer waits.                                 *)
LEMMA WaitsWithout ==
    ASSUME Basis, WaitsKnown, NEW i \in DOMAIN rt.waits,
           rt'.waits = RemoveAt(rt.waits, i),
           turn'[rt.waits[i]].ph # "setup",
           \A u \in Turns : u # rt.waits[i] => turn'[u].ph = turn[u].ph
    PROVE  WaitsKnown'
<1>1. PICK q \in Seq(Turns) : q = rt.waits
  BY RunsFacts
<1> DEFINE w == RemoveAt(q, i)
<1>2. DOMAIN q = 1..Len(q) /\ Len(q) \in Nat /\ i \in 1..Len(q) /\ \A j \in DOMAIN q : q[j] \in Turns
  BY <1>1
<1>3. /\ DOMAIN w = 1..(Len(q) - 1)
      /\ \A j \in 1..(Len(q) - 1) : w[j] = IF j < i THEN q[j] ELSE q[j + 1]
  <2>1. w \in Seq(Turns) /\ Len(w) = Len(q) - 1
        /\ \A j \in 1..(Len(q) - 1) : w[j] = IF j < i THEN q[j] ELSE q[j + 1]
    BY <1>2, RemoveAtProperties
  <2> HIDE DEF w
  <2> QED
    BY <2>1
<1>4. rt'.waits = w
  BY <1>1
<1> HIDE DEF w
<1>5. /\ \A u \in Turns : turn[u].ph = "setup" => \E j \in DOMAIN q : q[j] = u
      /\ \A j \in DOMAIN q : turn[q[j]].ph = "setup"
      /\ \A h, j \in DOMAIN q : q[h] = q[j] => h = j
  BY <1>1 DEF WaitsKnown
<1> DEFINE k(j) == IF j < i THEN j ELSE j + 1
<1>6. \A j \in DOMAIN w : k(j) \in DOMAIN q /\ k(j) # i /\ w[j] = q[k(j)]
  BY <1>2, <1>3
<1>7. \A h, j \in DOMAIN w : k(h) = k(j) => h = j
  BY <1>2, <1>3
<1>8. \A j \in DOMAIN q : j # i => \E h \in DOMAIN w : w[h] = q[j]
  <2> SUFFICES ASSUME NEW j \in DOMAIN q, j # i PROVE \E h \in DOMAIN w : w[h] = q[j]
    OBVIOUS
  <2>1. CASE j < i
    <3>1. j \in DOMAIN w /\ w[j] = q[j]
      BY <1>2, <1>3, <2>1
    <3> QED
      BY <3>1
  <2>2. CASE j > i
    <3>1. j - 1 \in DOMAIN w /\ w[j - 1] = q[j]
      BY <1>2, <1>3, <2>2
    <3> QED
      BY <3>1
  <2> QED
    BY <1>2, <2>1, <2>2
<1> HIDE DEF k
<1>9. \A u \in Turns : turn'[u].ph = "setup" => \E h \in DOMAIN w : w[h] = u
  BY <1>1, <1>5, <1>8
<1>10. \A j \in DOMAIN w : turn'[w[j]].ph = "setup"
  BY <1>1, <1>2, <1>5, <1>6
<1>11. \A h, j \in DOMAIN w : w[h] = w[j] => h = j
  BY <1>5, <1>6, <1>7
<1> QED
  BY <1>4, <1>9, <1>10, <1>11 DEF WaitsKnown

LEMMA EnterRuns == ASSUME Basis, Runs, NEW t \in Turns, EnterManager(t) PROVE Runs'
<1> DEFINE z == SessionOf[t]
<1>0. /\ turn \in TurnTable /\ rt \in RtStates /\ TurnsKnown
      /\ rt.made \subseteq Pairs /\ rt.failed \subseteq Pairs /\ 0 \notin Pairs
      /\ Resumed \subseteq Sessions /\ SessionOf \in [Turns -> Sessions] /\ z \in Sessions
  BY RunsFacts
<1>1. Enters(t) /\ turn[t].ph = "setup"
  BY EnterEnters
<1>2. turn[t].pair \in Resolved(rt)
  BY DEF EnterManager, EnterDue, Resolved
<1>3. PICK i \in DOMAIN rt.waits :
        rt.waits[i] = t /\ rt' = [rt EXCEPT !.waits = RemoveAt(@, i)]
  BY DEF EnterManager
<1>4. /\ rt'.made = rt.made /\ rt'.failed = rt.failed /\ rt'.cur = rt.cur
      /\ rt'.waits = RemoveAt(rt.waits, i)
  <2> DEFINE W == RemoveAt(rt.waits, i)
  <2>1. rt' = [rt EXCEPT !.waits = W]
    BY <1>3
  <2> HIDE DEF W
  <2>2. rt'.made = rt.made /\ rt'.failed = rt.failed /\ rt'.cur = rt.cur /\ rt'.waits = W
    BY <1>0, <2>1 DEF RtStates
  <2> QED
    BY <2>2 DEF W
<1>5. /\ turn'[t].ph \notin {"new", "setup"} /\ turn'[t].killed = turn[t].killed
      /\ \A u \in Turns \ {t} : /\ turn'[u].ph = turn[u].ph /\ turn'[u].pair = turn[u].pair
                                /\ turn'[u].killed = turn[u].killed
  BY <1>1 DEF Enters, Moved
<1>6. Resolved(rt)' = Resolved(rt)
  BY <1>4 DEF Resolved
<1>7. WaitsKnown'
  BY <1>3, <1>4, <1>5, WaitsWithout DEF Runs
<1>8. KillsKnown'
  BY <1>5, <1>6 DEF Runs, KillsKnown
<1>9. CASE /\ SesLike(ses') /\ turn'[t].pair = turn[t].pair
           /\ turn[t].pair \in rt.failed \/ rt.cur = 0
  <2>1. \A p \in Pairs, s \in Sessions : ses'[p][s].owned = ses[p][s].owned
                                         /\ ses'[p][s].thread = ses[p][s].thread
    BY <1>9 DEF SesLike
  <2>2. PairsKnown'
    BY <1>4, <2>1 DEF Runs, PairsKnown
  <2>3. turn[t].pair # rt.cur
    BY <1>0, <1>2, <1>9 DEF Runs, PairsKnown, Resolved
  <2>4. PlaceKnown'
    <3> SUFFICES ASSUME NEW u \in Turns, turn'[u].ph \notin {"new", "setup"}
                 PROVE  /\ turn'[u].pair \in Resolved(rt)
                        /\ turn'[u].pair = rt.cur => ses'[rt.cur][SessionOf[u]].owned
      BY <1>4, <1>6 DEF PlaceKnown
    <3>1. CASE u = t
      BY <1>2, <1>9, <2>3, <3>1
    <3>2. CASE u # t
      <4>1. turn[u].pair \in Resolved(rt) /\ turn'[u].pair = turn[u].pair
            /\ (turn[u].pair = rt.cur => ses[rt.cur][SessionOf[u]].owned)
        BY <1>5, <3>2 DEF Runs, PlaceKnown
      <4>2. turn[u].pair \in Pairs /\ SessionOf[u] \in Sessions
        BY <1>0, <4>1 DEF Resolved
      <4> QED
        BY <2>1, <4>1, <4>2
    <3> QED
      BY <3>1, <3>2
  <2>5. \A u \in Turns, p \in Pairs, s \in Sessions : Strayed(u, p, s) => Strayed(u, p, s)'
    BY <1>4, <1>5, <1>6, <1>9 DEF Strayed
  <2>6. Adopted'
    BY <1>0, <2>1, <2>5 DEF Runs, Adopted
  <2> QED
    BY <1>7, <1>8, <2>2, <2>4, <2>6 DEF Runs
<1>10. CASE /\ rt.cur \in Pairs /\ turn[t].pair \notin rt.failed /\ turn'[t].pair = rt.cur
            /\ ses'[rt.cur][z].owned
            /\ \/ z \in Resumed /\ ses'[rt.cur][z].thread
               \/ /\ z \notin Resumed \/ ses[rt.cur][z].owned
                  /\ ses'[rt.cur][z].thread = ses[rt.cur][z].thread
            /\ \A p \in Pairs, s \in Sessions : p # rt.cur \/ s # z => ses'[p][s] = ses[p][s]
  <2>0. rt.cur \in rt.made
    BY <1>0, <1>10 DEF Runs, PairsKnown
  <2>1. PairsKnown'
    BY <1>4, <1>10, <2>0 DEF Runs, PairsKnown
  <2>2. PlaceKnown'
    <3> SUFFICES ASSUME NEW u \in Turns, turn'[u].ph \notin {"new", "setup"}
                 PROVE  /\ turn'[u].pair \in Resolved(rt)
                        /\ turn'[u].pair = rt.cur => ses'[rt.cur][SessionOf[u]].owned
      BY <1>4, <1>6 DEF PlaceKnown
    <3>1. CASE u = t
      BY <1>10, <2>0, <3>1 DEF Resolved
    <3>2. CASE u # t
      <4>1. turn[u].pair \in Resolved(rt) /\ turn'[u].pair = turn[u].pair
            /\ (turn[u].pair = rt.cur => ses[rt.cur][SessionOf[u]].owned)
        BY <1>5, <3>2 DEF Runs, PlaceKnown
      <4>2. SessionOf[u] \in Sessions
        BY <1>0
      <4> QED
        BY <1>10, <4>1, <4>2
    <3> QED
      BY <3>1, <3>2
(* Its pair is the current one already if it was a witness before.           *)
  <2>3. \A u \in Turns, p \in Pairs, s \in Sessions : Strayed(u, p, s) => Strayed(u, p, s)'
    <3>1. ASSUME NEW p \in Pairs, NEW s \in Sessions, Strayed(t, p, s)
          PROVE  Strayed(t, p, s)'
      <4>1. rt.cur = turn[t].pair
        BY <1>0, <1>1, <1>2, <1>10, <3>1 DEF Strayed
      <4> QED
        BY <1>5, <1>10, <3>1, <4>1 DEF Strayed
    <3>2. ASSUME NEW u \in Turns, u # t, NEW p \in Pairs, NEW s \in Sessions, Strayed(u, p, s)
          PROVE  Strayed(u, p, s)'
      BY <1>4, <1>5, <1>6, <3>2 DEF Strayed
    <3> QED
      BY <3>1, <3>2
  <2>4. Adopted'
    <3> SUFFICES ASSUME NEW p \in Pairs, NEW s \in Resumed, ses'[p][s].owned
                 PROVE  ses'[p][s].thread \/ \E u \in Turns : Strayed(u, p, s)'
      BY DEF Adopted
    <3>1. CASE p # rt.cur \/ s # z
      BY <1>0, <1>10, <2>3, <3>1 DEF Runs, Adopted
    <3>2. CASE p = rt.cur /\ s = z
      BY <1>0, <1>10, <2>3, <3>2 DEF Runs, Adopted
    <3> QED
      BY <3>1, <3>2
  <2> QED
    BY <1>7, <1>8, <2>1, <2>2, <2>4 DEF Runs
<1> QED
  BY <1>1, <1>9, <1>10 DEF Enters, Moved

(* The abort of a killed turn reaches the current manager, which owns its    *)
(* session already or has not got the turn.                                  *)
LEMMA AbortRuns == ASSUME Basis, Runs, NEW t \in Turns, AbortAfterSetup(t) PROVE Runs'
<1> DEFINE z == SessionOf[t]
<1>0. /\ turn \in TurnTable /\ TurnsKnown /\ -1 \notin Pairs
      /\ rt.made \subseteq Pairs /\ rt.failed \subseteq Pairs /\ 0 \notin Pairs
      /\ Resumed \subseteq Sessions /\ SessionOf \in [Turns -> Sessions] /\ z \in Sessions
      /\ \A i \in DOMAIN rt.waits : rt.waits[i] \in Turns
  BY RunsFacts
<1>1. Aborts(t) /\ rt' = rt
  BY AbortAborts
<1>2. turn[t].killed \in Resolved(rt) /\ ~(turn[t].ph = "setup" /\ turn[t].pair = turn[t].killed)
  BY DEF AbortAfterSetup, KillDue, Resolved
<1>3. /\ turn'[t].killed = -1
      /\ \A u \in Turns : /\ turn'[u].ph = turn[u].ph /\ turn'[u].pair = turn[u].pair
                          /\ u # t => turn'[u].killed = turn[u].killed
  BY <1>1 DEF Aborts
<1>4. WaitsKnown'
  BY <1>0, <1>1, <1>3 DEF Runs, WaitsKnown
<1>5. KillsKnown'
  BY <1>0, <1>1, <1>3 DEF Runs, KillsKnown, Resolved
<1>6. \A u \in Turns, p \in Pairs, s \in Sessions : Strayed(u, p, s) => Strayed(u, p, s)'
  BY <1>1, <1>3 DEF Strayed, Resolved
<1>7. CASE ses' = ses
  <2>1. PairsKnown' /\ PlaceKnown'
    BY <1>1, <1>3, <1>7 DEF Runs, PairsKnown, PlaceKnown, Resolved
  <2>2. Adopted'
    BY <1>0, <1>6, <1>7 DEF Runs, Adopted
  <2> QED
    BY <1>4, <1>5, <2>1, <2>2 DEF Runs
<1>8. CASE /\ rt.cur \in Pairs /\ ses'[rt.cur][z].owned
           /\ ses'[rt.cur][z].thread = ses[rt.cur][z].thread
           /\ \A p \in Pairs, s \in Sessions : p # rt.cur \/ s # z => ses'[p][s] = ses[p][s]
  <2>0. rt.cur \in rt.made
    BY <1>0, <1>8 DEF Runs, PairsKnown
  <2>1. PairsKnown'
    BY <1>1, <1>8, <2>0 DEF Runs, PairsKnown
  <2>2. PlaceKnown'
    BY <1>0, <1>1, <1>3, <1>8 DEF Runs, PlaceKnown, Resolved
(* Where the session was not owned before, the turn is another pair's.       *)
  <2>3. ~ses[rt.cur][z].owned => Strayed(t, rt.cur, z)'
    <3> SUFFICES ASSUME ~ses[rt.cur][z].owned PROVE Strayed(t, rt.cur, z)'
      OBVIOUS
    <3>1. turn[t].ph # "new"
      BY <1>0, <1>2 DEF TurnsKnown, Resolved
    <3>2. CASE turn[t].ph = "setup"
      <4>1. turn[t].pair \notin Resolved(rt)
        BY <1>2, <3>2 DEF Runs, KillsKnown
      <4> QED
        BY <1>1, <1>3, <2>0, <3>2, <4>1 DEF Strayed, Resolved
    <3>3. CASE turn[t].ph # "setup"
      BY <1>1, <1>3, <3>1, <3>3 DEF Runs, PlaceKnown, Strayed
    <3> QED
      BY <3>2, <3>3
  <2>4. Adopted'
    <3> SUFFICES ASSUME NEW p \in Pairs, NEW s \in Resumed, ses'[p][s].owned
                 PROVE  ses'[p][s].thread \/ \E u \in Turns : Strayed(u, p, s)'
      BY DEF Adopted
    <3>1. CASE p # rt.cur \/ s # z
      BY <1>0, <1>6, <1>8, <3>1 DEF Runs, Adopted
    <3>2. CASE p = rt.cur /\ s = z
      <4>1. CASE ses[rt.cur][z].owned
        <5>1. ses[p][s].thread \/ \E u \in Turns : Strayed(u, p, s)
          BY <3>2, <4>1 DEF Runs, Adopted
        <5>2. ses'[p][s].thread = ses[p][s].thread /\ s \in Sessions
          BY <1>0, <1>8, <3>2
        <5>3. (\E u \in Turns : Strayed(u, p, s)) => \E u \in Turns : Strayed(u, p, s)'
          BY <1>6, <5>2
        <5>4. ses[p][s].thread => ses'[p][s].thread
          BY <5>2
        <5> QED
          BY <5>1, <5>3, <5>4, Zenon
      <4>2. CASE ~ses[rt.cur][z].owned
        <5>1. Strayed(t, p, s)'
          BY <1>1, <2>3, <3>2, <4>2 DEF Strayed
        <5> QED
          BY <5>1
      <4> QED
        BY <4>1, <4>2
    <3> QED
      BY <3>1, <3>2
  <2> QED
    BY <1>4, <1>5, <2>1, <2>2, <2>4 DEF Runs
<1> QED
  BY <1>1, <1>7, <1>8 DEF Aborts

LEMMA RunsInit == ASSUME CodexInit PROVE Runs
<1>1. /\ \A t \in Turns : turn[t].ph = "new"
      /\ \A p \in Pairs, s \in Sessions : ~ses[p][s].owned
      /\ rt.made = {} /\ rt.failed = {} /\ rt.cur = 0 /\ rt.waits = <<>>
  BY DEF CodexInit, NewSession
<1>2. DOMAIN rt.waits = {}
  BY <1>1
<1>3. Resumed \subseteq Sessions
  BY CodexAssumption
<1> QED
  BY <1>1, <1>2, <1>3 DEF Runs, WaitsKnown, PairsKnown, KillsKnown, PlaceKnown, Adopted

LEMMA RunsNext == ASSUME Basis, Runs, [CodexNext]_vars PROVE Runs'
<1>1. CASE Reactions
  BY <1>1, EnterRuns, AbortRuns, TurnFollows, CallFollows, HeadStartsGoes, HeadFollows,
     FollowRuns DEF Reactions
<1>2. CASE Timers
  BY <1>2, TurnFollows, HeadResumesGoes, HeadFollows, WireFollows, FollowRuns DEF Timers
<1>3. CASE AppServer
  BY <1>3, WireFollows, FollowRuns DEF AppServer
<1>4. CASE Runtime
  BY <1>4, StartRunRuns, KillRuns, CreatePairRuns, CallFollows, FollowRuns DEF Runtime
<1>5. CASE UNCHANGED vars
  BY <1>5, SameFollows, FollowRuns DEF vars
<1> QED
  BY <1>1, <1>2, <1>3, <1>4, <1>5 DEF CodexNext

(* A session whose key names a vendor thread runs on no other, but where the *)
(* kill of a turn of a retired pair made the manager of the next one own it  *)
(* (run and kill of SessionRuntime).                                         *)
THEOREM ResumedKeepsThreadHolds == CodexSpec => []ResumedKeepsThread
<1>1. CodexInit => Basis /\ Wires /\ Runs
  BY BasisInit, WiresInit, RunsInit
<1>2. Basis /\ Wires /\ Runs /\ [CodexNext]_vars => (Basis /\ Wires /\ Runs)'
  BY BasisNext, WiresNext, RunsNext
<1>3. Runs => ResumedKeepsThread
  BY CodexAssumption DEF Runs, Adopted, Strayed, ResumedKeepsThread
<1> QED
  BY <1>1, <1>2, <1>3, PTL DEF CodexSpec
=============================================================================
