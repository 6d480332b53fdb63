------------------------- MODULE CliSessions_proofs -------------------------
(* Safety of the CLI turn queue for any number of turns and session keys,    *)
(* and of the worktrees and patches of a run for any number of candidates,   *)
(* attempts and requests; and that the queue implements SessionFifo.         *)
(* SessionInv and WorktreesInv are inductive; the                            *)
(* answers of a turn are about steps, and follow from what a step does.      *)
EXTENDS CliSessions, Worktrees, SequenceTheorems, TLAPS

-----------------------------------------------------------------------------
(* A turn and the state object it refers to have the same key.               *)
ObjectKeys ==
    \A r \in Runs : stateOf[r] # NoRun => KeyOf[stateOf[r]] = KeyOf[r]

(* Turns in a queue refer to its object, are owed an answer, have no child.  *)
Waiting ==
    \A s \in Runs : \A i \in 1..Len(queue[s]) :
        /\ stateOf[queue[s][i]] = s
        /\ outcome[queue[s][i]] = "pending"
        /\ child[queue[s][i]] = "none"
        /\ queue[s][i] \notin killed

(* No turn is queued twice.                                                  *)
Distinct ==
    \A s \in Runs : \A i, j \in 1..Len(queue[s]) :
        queue[s][i] = queue[s][j] => i = j

(* An object's active turn has the object's child, and the map holds it.     *)
Holding ==
    \A s \in Runs : active[s] # NoRun =>
        /\ stateOf[active[s]] = s
        /\ child[active[s]] = "live"
        /\ sessions[KeyOf[s]] = s

(* A child belongs to the active turn of its object.                         *)
Children ==
    \A r \in Runs : child[r] = "live" =>
        stateOf[r] # NoRun /\ active[stateOf[r]] = r

(* Nobody waits for an idle object.                                          *)
IdleEmpty ==
    \A s \in Runs : active[s] = NoRun => queue[s] = <<>>

(* What the map holds under k is a busy object of key k.                     *)
MapBusy ==
    \A k \in Keys : sessions[k] # NoRun =>
        KeyOf[sessions[k]] = k /\ active[sessions[k]] # NoRun

(* A turn that is owed an answer is active or in the queue of its object.    *)
Owed ==
    \A r \in Runs : stateOf[r] # NoRun /\ outcome[r] = "pending" =>
        \/ active[stateOf[r]] = r
        \/ \E i \in 1..Len(queue[stateOf[r]]) : queue[stateOf[r]][i] = r

(* A fallback timer is armed only for a killed turn that is owed an answer.  *)
Timers ==
    \A r \in fallback : r \in killed /\ outcome[r] = "pending" /\ stateOf[r] # NoRun

(* A turn not yet submitted has no child, no answer and was not killed.      *)
Fresh ==
    \A r \in Runs : stateOf[r] = NoRun =>
        child[r] = "none" /\ outcome[r] = "pending" /\ r \notin killed

SessionInv ==
    /\ TypeOK
    /\ ObjectKeys
    /\ Waiting
    /\ Distinct
    /\ Holding
    /\ Children
    /\ IdleEmpty
    /\ MapBusy
    /\ Owed
    /\ Timers
    /\ Fresh

-----------------------------------------------------------------------------
(* Removing position i of a sequence shifts what follows it down by one.     *)
LEMMA RemoveAtProperties ==
    ASSUME NEW S, NEW q \in Seq(S), NEW i \in 1..Len(q)
    PROVE  /\ RemoveAt(q, i) \in Seq(S)
           /\ Len(RemoveAt(q, i)) = Len(q) - 1
           /\ \A j \in 1..(Len(q) - 1) :
                RemoveAt(q, i)[j] = IF j < i THEN q[j] ELSE q[j + 1]
<1>1. PICK a \in Seq(S) : a = SubSeq(q, 1, i - 1)
  <2>1. SubSeq(q, 1, i - 1) \in Seq(S)
    OBVIOUS
  <2> QED
    BY <2>1, Zenon
<1>2. PICK b \in Seq(S) : b = SubSeq(q, i + 1, Len(q))
  <2>1. SubSeq(q, i + 1, Len(q)) \in Seq(S)
    OBVIOUS
  <2> QED
    BY <2>1, Zenon
<1>3. Len(a) = i - 1 /\ Len(b) = Len(q) - i
  BY <1>1, <1>2
<1>4. RemoveAt(q, i) = a \o b
  BY <1>1, <1>2 DEF RemoveAt
<1>5. ASSUME NEW j \in 1..(Len(q) - 1), j < i
      PROVE (a \o b)[j] = q[j]
  BY <1>5, <1>1, <1>3
<1>6. ASSUME NEW j \in 1..(Len(q) - 1), ~(j < i)
      PROVE (a \o b)[j] = q[j + 1]
  <2>1. (a \o b)[j] = b[j - (i - 1)]
    BY <1>6, <1>3
  <2>2. b[j - (i - 1)] = q[j + 1]
    BY <1>6, <1>2, SMTT(30)
  <2> QED
    BY <2>1, <2>2
<1>7. a \o b \in Seq(S) /\ Len(a \o b) = Len(q) - 1
  BY <1>3
<1>8. \A j \in 1..(Len(q) - 1) :
        (a \o b)[j] = IF j < i THEN q[j] ELSE q[j + 1]
  BY <1>5, <1>6, Zenon
<1> QED
  BY <1>4, <1>7, <1>8, Zenon

(* What a method has achieved when it calls startNext on object s with the   *)
(* turns q waiting: the values map, told and kids it has computed satisfy    *)
(* what SessionInv says, with s idle and in the map and q as its queue.      *)
QueueReady(s, q, told, kids) ==
    /\ \A i \in 1..Len(q) :
         /\ stateOf'[q[i]] = s
         /\ told[q[i]] = "pending"
         /\ kids[q[i]] = "none"
         /\ q[i] \notin killed
    /\ \A i, j \in 1..Len(q) : q[i] = q[j] => i = j

OthersReady(s, map, told, kids) ==
    \A t \in Runs \ {s} :
        /\ QueueReady(t, queue[t], told, kids)
        /\ active[t] # NoRun =>
             /\ stateOf'[active[t]] = t
             /\ kids[active[t]] = "live"
             /\ map[KeyOf[t]] = t
        /\ active[t] = NoRun => queue[t] = <<>>

ChildrenReady(s, kids) ==
    \A r \in Runs : kids[r] = "live" =>
        stateOf'[r] # NoRun /\ stateOf'[r] # s /\ active[stateOf'[r]] = r

MapReady(s, map) ==
    /\ map[KeyOf[s]] = s
    /\ \A k \in Keys \ {KeyOf[s]} : map[k] # NoRun =>
         map[k] # s /\ KeyOf[map[k]] = k /\ active[map[k]] # NoRun

OwedReady(s, q, told) ==
    \A r \in Runs : stateOf'[r] # NoRun /\ told[r] = "pending" =>
        \/ stateOf'[r] # s /\ active[stateOf'[r]] = r
        \/ stateOf'[r] # s /\ \E i \in 1..Len(queue[stateOf'[r]]) : queue[stateOf'[r]][i] = r
        \/ stateOf'[r] = s /\ \E i \in 1..Len(q) : q[i] = r

TimersReady(s, told) ==
    \A r \in fallback' :
        r \in killed /\ told[r] = "pending" /\ stateOf'[r] \notin {NoRun, s}

FreshReady(told, kids) ==
    \A r \in Runs : stateOf'[r] = NoRun =>
        kids[r] = "none" /\ told[r] = "pending" /\ r \notin killed

(* startNext keeps the invariant, whatever its caller has done before.       *)
LEMMA StartNextKeepsInv ==
    ASSUME NEW s \in Runs,
           NEW q \in Seq(Runs),
           NEW map \in [Keys -> Runs \cup {NoRun}],
           NEW told \in [Runs -> Outcomes \cup {"pending"}],
           NEW kids \in [Runs -> {"none", "live", "closed"}],
           TypeOK,
           StartNext(s, q, map, told, kids),
           killed' = killed,
           stateOf' \in [Runs -> Runs \cup {NoRun}],
           fallback' \in SUBSET Runs,
           ObjectKeys',
           QueueReady(s, q, told, kids),
           OthersReady(s, map, told, kids),
           ChildrenReady(s, kids),
           MapReady(s, map),
           OwedReady(s, q, told),
           TimersReady(s, told),
           FreshReady(told, kids)
    PROVE  SessionInv'
<1> USE RunsAssumption
<1> DEFINE n == Len(q)
<1>1. PICK refused \in 0..n :
        /\ queue' = [queue EXCEPT ![s] = SubSeq(q, refused + 2, n)]
        /\ outcome' = [r \in Runs |->
             IF \E i \in 1..refused : q[i] = r THEN "failed" ELSE told[r]]
        /\ refused < n =>
             /\ active' = [active EXCEPT ![s] = q[refused + 1]]
             /\ child' = [r \in Runs |-> IF r = q[refused + 1] THEN "live" ELSE kids[r]]
             /\ sessions' = map
        /\ refused = n =>
             /\ active' = [active EXCEPT ![s] = NoRun]
             /\ child' = kids
             /\ sessions' = Without(map, s)
  <2>1. PICK refused \in 0..n : StartAfter(refused, s, q, map, told, kids)
    BY DEF StartNext
  <2>2. queue' = [queue EXCEPT ![s] = SubSeq(q, refused + 2, n)]
    BY <2>1 DEF StartAfter
  <2>3. ASSUME refused # n
        PROVE  /\ refused + 1 \in 1..n /\ refused < n
               /\ q[refused + 1] \in Runs
               /\ q[refused + 1] \notin killed
               /\ q[refused + 1] # NoRun
    <3>1. refused + 1 \in 1..n /\ refused < n
      BY <2>3
    <3> QED
      BY <3>1 DEF QueueReady
  <2>4. outcome' = [r \in Runs |->
          IF \E i \in 1..refused : q[i] = r THEN "failed" ELSE told[r]]
    BY <2>1, <2>3 DEF StartAfter
  <2>5. ASSUME refused # n
        PROVE  active' = [active EXCEPT ![s] = q[refused + 1]]
    BY <2>1, <2>3, <2>5 DEF StartAfter
  <2>6. ASSUME refused # n
        PROVE  child' = [r \in Runs |-> IF r = q[refused + 1] THEN "live" ELSE kids[r]]
    BY <2>1, <2>3, <2>6 DEF StartAfter
  <2>7. ASSUME refused # n
        PROVE  sessions' = map
    BY <2>1, <2>3, <2>7 DEF StartAfter
  <2>8. ASSUME refused = n
        PROVE  active' = [active EXCEPT ![s] = NoRun]
    BY <2>1, <2>8 DEF StartAfter
  <2>9. ASSUME refused = n
        PROVE  child' = kids
    BY <2>1, <2>9 DEF StartAfter
  <2>10. ASSUME refused = n
         PROVE  sessions' = Without(map, s)
    <3>1. SubSeq(q, refused + 2, n) = <<>>
      BY <2>10
    <3> QED
      BY <2>1, <2>10, <3>1 DEF StartAfter
  <2>11. refused < n => refused # n
    OBVIOUS
  <2> QED
    BY <2>2, <2>4, <2>5, <2>6, <2>7, <2>8, <2>9, <2>10, <2>11, Zenon
<1> DEFINE rest == SubSeq(q, refused + 2, n)
<1>2. /\ rest \in Seq(Runs)
      /\ \A i \in 1..Len(rest) :
           refused + 1 + i \in 1..n /\ rest[i] = q[refused + 1 + i]
      /\ \A i \in (refused + 2)..n :
           i - refused - 1 \in 1..Len(rest) /\ rest[i - refused - 1] = q[i]
      /\ refused = n => rest = <<>>
  <2>1. rest \in Seq(Runs)
    OBVIOUS
  <2>2. Len(rest) = IF refused = n THEN 0 ELSE n - refused - 1
    OBVIOUS
  <2>3. ASSUME NEW i \in 1..Len(rest)
        PROVE  refused + 1 + i \in 1..n /\ rest[i] = q[refused + 1 + i]
    BY <2>2
  <2>4. ASSUME NEW i \in (refused + 2)..n
        PROVE  i - refused - 1 \in 1..Len(rest) /\ rest[i - refused - 1] = q[i]
    <3>1. i - refused - 1 \in 1..Len(rest) /\ refused + 1 + (i - refused - 1) = i
      BY <2>2
    <3> HIDE DEF rest
    <3> QED
      BY <2>3, <3>1
  <2>5. refused = n => rest = <<>>
    OBVIOUS
  <2> QED
    BY <2>1, <2>3, <2>4, <2>5
<1>3. refused < n => q[refused + 1] \in Runs /\ refused + 1 \in 1..n
  OBVIOUS
<1>4. /\ queue'[s] = rest
      /\ \A t \in Runs \ {s} : queue'[t] = queue[t] /\ active'[t] = active[t]
      /\ refused < n => active'[s] = q[refused + 1]
      /\ refused = n => active'[s] = NoRun
  BY <1>1 DEF TypeOK
<1>5. TypeOK'
  <2>1. /\ queue' \in [Runs -> Seq(Runs)]
        /\ outcome' \in [Runs -> Outcomes \cup {"pending"}]
    BY <1>1, <1>2 DEF TypeOK, Outcomes
  <2>2. active' \in [Runs -> Runs \cup {NoRun}]
    <3>1. active \in [Runs -> Runs \cup {NoRun}]
      BY DEF TypeOK
    <3>2. CASE refused < n
      BY <3>1, <3>2, <1>1, <1>3
    <3>3. CASE refused = n
      BY <3>1, <3>3, <1>1
    <3> QED
      BY <3>2, <3>3
  <2>3. child' \in [Runs -> {"none", "live", "closed"}]
    BY <1>1
  <2>4. sessions' \in [Keys -> Runs \cup {NoRun}]
    BY <1>1 DEF Without
  <2>5. killed' \in SUBSET Runs
    BY DEF TypeOK
  <2> QED
    BY <2>1, <2>2, <2>3, <2>4, <2>5 DEF TypeOK
<1> HIDE DEF rest
<1>6. Waiting'
  <2> SUFFICES ASSUME NEW t \in Runs, NEW i \in 1..Len(queue'[t])
               PROVE  /\ stateOf'[queue'[t][i]] = t
                      /\ outcome'[queue'[t][i]] = "pending"
                      /\ child'[queue'[t][i]] = "none"
                      /\ queue'[t][i] \notin killed'
    BY DEF Waiting
  <2>1. queue'[t][i] \in Runs
    BY <1>5 DEF TypeOK
  <2>2. CASE t = s
    <3>1. refused + 1 + i \in 1..n /\ queue'[t][i] = q[refused + 1 + i]
      BY <2>2, <1>2, <1>4
    <3>2. i \in Nat /\ i >= 1
      BY <2>2, <1>2, <1>4
    <3>3. PICK j \in 1..n : j > refused + 1 /\ queue'[t][i] = q[j]
      BY <3>1, <3>2
    <3>4. \A m \in 1..refused : q[m] # q[j]
      BY <3>3 DEF QueueReady
    <3>5. refused < n => q[refused + 1] # q[j]
      BY <3>3, <1>3 DEF QueueReady
    <3> QED
      BY <2>1, <2>2, <3>3, <3>4, <3>5, <1>1 DEF QueueReady
  <2>3. CASE t # s
    <3>0. QueueReady(t, queue[t], told, kids) /\ queue'[t] = queue[t]
      BY <2>3, <1>4 DEF OthersReady
    <3>1. \A m \in 1..n : q[m] # queue'[t][i]
      BY <2>3, <3>0 DEF QueueReady
    <3> QED
      BY <2>1, <2>3, <3>0, <3>1, <1>1, <1>3 DEF QueueReady
  <2> QED
    BY <2>2, <2>3
<1>7. Distinct'
  <2> SUFFICES ASSUME NEW t \in Runs,
                      NEW i \in 1..Len(queue'[t]), NEW j \in 1..Len(queue'[t]),
                      queue'[t][i] = queue'[t][j]
               PROVE  i = j
    BY DEF Distinct
  <2>1. CASE t = s
    <3>1. /\ refused + 1 + i \in 1..n /\ queue'[t][i] = q[refused + 1 + i]
          /\ refused + 1 + j \in 1..n /\ queue'[t][j] = q[refused + 1 + j]
      BY <2>1, <1>2, <1>4
    <3>2. i \in Int /\ j \in Int
      BY <2>1, <1>2, <1>4
    <3>3. q[refused + 1 + i] = q[refused + 1 + j]
      BY <3>1
    <3>4. refused + 1 + i = refused + 1 + j
      BY <3>1, <3>3 DEF QueueReady
    <3> QED
      BY <3>2, <3>4
  <2>2. CASE t # s
    BY <2>2, <1>4 DEF QueueReady, OthersReady
  <2> QED
    BY <2>1, <2>2
<1>8. Holding'
  <2> SUFFICES ASSUME NEW t \in Runs, active'[t] # NoRun
               PROVE  /\ stateOf'[active'[t]] = t
                      /\ child'[active'[t]] = "live"
                      /\ sessions'[KeyOf[t]] = t
    BY DEF Holding
  <2>1. CASE t = s
    <3>1. refused < n /\ active'[t] = q[refused + 1]
      BY <2>1, <1>4
    <3>2. sessions' = map /\ child'[q[refused + 1]] = "live"
      BY <3>1, <1>1, <1>3
    <3> QED
      BY <2>1, <3>1, <3>2, <1>3 DEF QueueReady, MapReady
  <2>2. CASE t # s
    BY <2>2, <1>1, <1>3, <1>4 DEF Without, TypeOK, OthersReady
  <2> QED
    BY <2>1, <2>2
<1>9. Children'
  <2> SUFFICES ASSUME NEW r \in Runs, child'[r] = "live"
               PROVE  stateOf'[r] # NoRun /\ active'[stateOf'[r]] = r
    BY DEF Children
  <2> QED
    BY <1>1, <1>3, <1>4 DEF ChildrenReady, QueueReady
<1>10. IdleEmpty'
  <2> SUFFICES ASSUME NEW t \in Runs, active'[t] = NoRun
               PROVE  queue'[t] = <<>>
    BY DEF IdleEmpty
  <2> QED
    BY <1>1, <1>2, <1>3, <1>4 DEF OthersReady
<1>11. MapBusy'
  <2> SUFFICES ASSUME NEW k \in Keys, sessions'[k] # NoRun
               PROVE  KeyOf[sessions'[k]] = k /\ active'[sessions'[k]] # NoRun
    BY DEF MapBusy
  <2>1. KeyOf[s] \in Keys
    OBVIOUS
  <2>2. CASE k = KeyOf[s]
    BY <2>1, <2>2, <1>1, <1>3, <1>4 DEF Without, MapReady
  <2>3. CASE k # KeyOf[s]
    BY <2>1, <2>3, <1>1, <1>3, <1>4 DEF Without, MapReady
  <2> QED
    BY <2>2, <2>3
<1>12. Owed'
  <2> SUFFICES ASSUME NEW r \in Runs, stateOf'[r] # NoRun, outcome'[r] = "pending"
               PROVE  \/ active'[stateOf'[r]] = r
                      \/ \E i \in 1..Len(queue'[stateOf'[r]]) : queue'[stateOf'[r]][i] = r
    BY DEF Owed
  <2>1. told[r] = "pending" /\ stateOf'[r] \in Runs
    BY <1>1
  <2>2. CASE stateOf'[r] # s
    BY <2>1, <2>2, <1>4 DEF OwedReady
  <2>3. CASE stateOf'[r] = s
    <3>1. PICK i \in 1..n : q[i] = r
      BY <2>1, <2>3 DEF OwedReady
    <3>2. ~(i \in 1..refused)
      BY <3>1, <1>1
    <3>3. CASE i = refused + 1
      BY <2>3, <3>1, <3>3, <1>4
    <3>4. CASE i # refused + 1
      <4>1. i \in (refused + 2)..n
        BY <3>1, <3>2, <3>4
      <4>2. rest[i - refused - 1] = r /\ i - refused - 1 \in 1..Len(rest)
        BY <3>1, <4>1, <1>2
      <4> QED
        BY <2>3, <4>2, <1>4
    <3> QED
      BY <3>3, <3>4
  <2> QED
    BY <2>2, <2>3
<1>13. Timers'
  <2> SUFFICES ASSUME NEW r \in fallback'
               PROVE  r \in killed' /\ outcome'[r] = "pending" /\ stateOf'[r] # NoRun
    BY DEF Timers
  <2> QED
    BY <1>1, SMTT(30) DEF TimersReady, QueueReady
<1>14. Fresh'
  <2> SUFFICES ASSUME NEW r \in Runs, stateOf'[r] = NoRun
               PROVE  child'[r] = "none" /\ outcome'[r] = "pending" /\ r \notin killed'
    BY DEF Fresh
  <2>1. \A i \in 1..n : q[i] # r
    BY DEF QueueReady
  <2> QED
    BY <2>1, <1>1, <1>3 DEF FreshReady
<1> QED
  BY <1>5, <1>6, <1>7, <1>8, <1>9, <1>10, <1>11, <1>12, <1>13, <1>14 DEF SessionInv

-----------------------------------------------------------------------------
LEMMA InitInv == Init => SessionInv
<1> USE RunsAssumption
<1> SUFFICES ASSUME Init PROVE SessionInv
  OBVIOUS
<1>1. TypeOK
  BY DEF Init, TypeOK, Outcomes
<1>2. ObjectKeys /\ Holding /\ Children /\ IdleEmpty /\ MapBusy /\ Owed /\ Timers /\ Fresh
  BY DEF Init, ObjectKeys, Holding, Children, IdleEmpty, MapBusy, Owed, Timers, Fresh
<1>3. Waiting /\ Distinct
  BY DEF Init, Waiting, Distinct
<1> QED
  BY <1>1, <1>2, <1>3 DEF SessionInv

(* An idle object of the map does not exist: a new turn either creates its   *)
(* object or joins a busy one.                                               *)
LEMMA StartRunInv ==
    ASSUME SessionInv, NEW r \in Runs, StartRun(r)
    PROVE  SessionInv'
<1> USE RunsAssumption
<1> DEFINE k   == KeyOf[r]
           s   == IF sessions[k] = NoRun THEN r ELSE sessions[k]
           map == [sessions EXCEPT ![k] = s]
<1>1. /\ k \in Keys /\ s \in Runs
      /\ map \in [Keys -> Runs \cup {NoRun}]
      /\ map[k] = s /\ \A l \in Keys \ {k} : map[l] = sessions[l]
      /\ KeyOf[s] = k
  BY DEF SessionInv, TypeOK, MapBusy
<1>2. /\ stateOf[r] = NoRun
      /\ stateOf' = [stateOf EXCEPT ![r] = s]
      /\ killed' = killed /\ fallback' = fallback
  BY DEF StartRun
<1>3. /\ stateOf' \in [Runs -> Runs \cup {NoRun}]
      /\ fallback' \in SUBSET Runs
      /\ stateOf'[r] = s
      /\ \A x \in Runs \ {r} : stateOf'[x] = stateOf[x]
  BY <1>1, <1>2 DEF SessionInv, TypeOK
<1>4. ObjectKeys'
  BY <1>1, <1>3 DEF SessionInv, ObjectKeys
<1>5. child[r] = "none" /\ outcome[r] = "pending" /\ r \notin killed
  BY <1>2 DEF SessionInv, Fresh
<1>6. \A t \in Runs : \A i \in 1..Len(queue[t]) : queue[t][i] # r
  BY <1>1, <1>2 DEF SessionInv, Waiting
<1>7. \A t \in Runs : active[t] # r
  BY <1>2 DEF SessionInv, Holding
<1>8. CASE active[s] = NoRun
  <2>1. queue[s] = <<>>
    BY <1>1, <1>8 DEF SessionInv, IdleEmpty
  <2> DEFINE q == Append(queue[s], r)
  <2>2. q = <<r>> /\ q \in Seq(Runs) /\ Len(q) = 1 /\ q[1] = r
    BY <2>1
  <2>3. StartNext(s, q, map, outcome, child)
    BY <1>8 DEF StartRun
  <2>4. TypeOK /\ child \in [Runs -> {"none", "live", "closed"}]
        /\ outcome \in [Runs -> Outcomes \cup {"pending"}]
    BY DEF SessionInv, TypeOK
  <2> HIDE DEF q, s, k, map
  <2>5. \A t \in Runs \ {s} : QueueReady(t, queue[t], outcome, child)
    <3> SUFFICES ASSUME NEW t \in Runs \ {s}, NEW i \in 1..Len(queue[t])
                 PROVE  /\ stateOf'[queue[t][i]] = t
                        /\ outcome[queue[t][i]] = "pending"
                        /\ child[queue[t][i]] = "none"
                        /\ queue[t][i] \notin killed
      BY DEF SessionInv, Distinct, QueueReady
    <3>1. queue[t] \in Seq(Runs) /\ queue[t][i] # r
      BY <2>4, <1>6 DEF TypeOK
    <3>2. queue[t][i] \in Runs \ {r}
      BY <3>1
    <3> QED
      BY <3>2, <1>3 DEF SessionInv, Waiting
  <2>6. OthersReady(s, map, outcome, child)
    <3> SUFFICES ASSUME NEW t \in Runs \ {s}, active[t] # NoRun
                 PROVE  /\ stateOf'[active[t]] = t
                        /\ child[active[t]] = "live"
                        /\ map[KeyOf[t]] = t
      BY <2>5 DEF SessionInv, IdleEmpty, OthersReady
    <3>1. active[t] \in Runs \ {r}
      BY <2>4, <1>7 DEF TypeOK
    <3>2. sessions[KeyOf[t]] = t
      BY DEF SessionInv, Holding
    <3>3. KeyOf[t] # k
      BY <3>2 DEF s, k
    <3> QED
      BY <3>1, <3>2, <3>3, <1>1, <1>3 DEF SessionInv, Holding
  <2>7. ChildrenReady(s, child)
    BY <1>3, <1>5, <1>8 DEF SessionInv, Children, ChildrenReady
  <2>8. MapReady(s, map)
    BY <1>1 DEF SessionInv, MapBusy, MapReady
  <2>9. OwedReady(s, q, outcome)
    <3> SUFFICES ASSUME NEW x \in Runs, stateOf'[x] # NoRun, outcome[x] = "pending"
                 PROVE  \/ stateOf'[x] # s /\ active[stateOf'[x]] = x
                        \/ stateOf'[x] # s /\ \E i \in 1..Len(queue[stateOf'[x]]) :
                                                queue[stateOf'[x]][i] = x
                        \/ stateOf'[x] = s /\ \E i \in 1..Len(q) : q[i] = x
      BY DEF OwedReady
    <3>1. CASE x = r
      BY <3>1, <2>2, <1>3
    <3>2. CASE x # r
      BY <3>2, <2>1, <1>3, <1>8 DEF SessionInv, Owed
    <3> QED
      BY <3>1, <3>2
  <2>10. TimersReady(s, outcome)
    <3> SUFFICES ASSUME NEW x \in fallback'
                 PROVE  x \in killed /\ outcome[x] = "pending" /\ stateOf'[x] \notin {NoRun, s}
      BY DEF TimersReady
    <3>1. x \in Runs /\ x \in killed /\ outcome[x] = "pending" /\ stateOf[x] # NoRun /\ x # r
      BY <1>2, <1>5, <2>4 DEF SessionInv, Timers, TypeOK
    <3>2. stateOf[x] # s
      BY <3>1, <2>1, <1>8 DEF SessionInv, Owed
    <3> QED
      BY <3>1, <3>2, <1>3
  <2>11. FreshReady(outcome, child)
    BY <1>1, <1>3 DEF SessionInv, Fresh, FreshReady
  <2>12. QueueReady(s, q, outcome, child)
    BY <2>2, <1>3, <1>5 DEF QueueReady
  <2> QED
    BY <1>1, <1>2, <1>3, <1>4, <2>2, <2>3, <2>4, <2>6, <2>7, <2>8, <2>9, <2>10,
       <2>11, <2>12, StartNextKeepsInv
<1>9. CASE active[s] # NoRun
  <2>1. sessions[k] = s
    BY <1>1, <1>9 DEF SessionInv, Holding
  <2>2. /\ queue' = [queue EXCEPT ![s] = Append(@, r)]
        /\ sessions' = map /\ active' = active /\ outcome' = outcome /\ child' = child
    BY <1>9 DEF StartRun
  <2>3. sessions' = sessions
    BY <1>1, <2>1, <2>2 DEF SessionInv, TypeOK
  <2> HIDE DEF s, k, map
  <2>4. TypeOK'
    BY <1>1, <1>2, <1>3, <2>2, <2>3 DEF SessionInv, TypeOK
  <2>5. /\ \A t \in Runs \ {s} : queue'[t] = queue[t]
        /\ queue'[s] = Append(queue[s], r)
        /\ queue[s] \in Seq(Runs)
    BY <1>1, <2>2 DEF SessionInv, TypeOK
  <2>6. /\ Len(queue'[s]) = Len(queue[s]) + 1 /\ Len(queue[s]) \in Nat
        /\ \A i \in 1..Len(queue[s]) : queue'[s][i] = queue[s][i]
        /\ queue'[s][Len(queue[s]) + 1] = r
    BY <2>5
  <2>7. Waiting'
    <3> SUFFICES ASSUME NEW t \in Runs, NEW i \in 1..Len(queue'[t])
                 PROVE  /\ stateOf'[queue'[t][i]] = t
                        /\ outcome[queue'[t][i]] = "pending"
                        /\ child[queue'[t][i]] = "none"
                        /\ queue'[t][i] \notin killed
      BY <1>2, <2>2 DEF Waiting
    <3>1. CASE t = s /\ i = Len(queue[s]) + 1
      BY <3>1, <2>6, <1>3, <1>5
    <3>2. CASE ~(t = s /\ i = Len(queue[s]) + 1)
      <4>1. i \in 1..Len(queue[t]) /\ queue'[t][i] = queue[t][i]
        BY <3>2, <2>5, <2>6, SMTT(30)
      <4>2. queue[t][i] \in Runs \ {r}
        BY <4>1, <1>6 DEF SessionInv, TypeOK
      <4> QED
        BY <4>1, <4>2, <1>3 DEF SessionInv, Waiting
    <3> QED
      BY <3>1, <3>2
  <2>8. Distinct'
    <3> SUFFICES ASSUME NEW t \in Runs,
                        NEW i \in 1..Len(queue'[t]), NEW j \in 1..Len(queue'[t]),
                        queue'[t][i] = queue'[t][j]
                 PROVE  i = j
      BY DEF Distinct
    <3>1. CASE t # s
      BY <3>1, <2>5 DEF SessionInv, Distinct
    <3>2. CASE t = s
      <4>1. \A m \in 1..Len(queue[s]) : queue'[s][m] # r
        BY <1>1, <2>6, <1>6
      <4>2. i \in 1..(Len(queue[s]) + 1) /\ j \in 1..(Len(queue[s]) + 1)
        BY <3>2, <2>6
      <4>3. CASE i = Len(queue[s]) + 1
        BY <3>2, <4>1, <4>2, <4>3, <2>6
      <4>4. CASE j = Len(queue[s]) + 1
        BY <3>2, <4>1, <4>2, <4>4, <2>6
      <4>5. CASE i # Len(queue[s]) + 1 /\ j # Len(queue[s]) + 1
        <5>1. i \in 1..Len(queue[s]) /\ j \in 1..Len(queue[s])
          BY <4>2, <4>5, <2>6
        <5>2. queue[s][i] = queue[s][j]
          BY <3>2, <5>1, <2>6
        <5> QED
          BY <1>1, <5>1, <5>2 DEF SessionInv, Distinct
      <4> QED
        BY <4>3, <4>4, <4>5
    <3> QED
      BY <3>1, <3>2
  <2>9. Holding'
    <3> SUFFICES ASSUME NEW t \in Runs, active[t] # NoRun
                 PROVE  /\ stateOf'[active[t]] = t
                        /\ child[active[t]] = "live"
                        /\ sessions[KeyOf[t]] = t
      BY <2>2, <2>3 DEF Holding
    <3>1. active[t] \in Runs \ {r}
      BY <1>7 DEF SessionInv, TypeOK
    <3> QED
      BY <3>1, <1>3 DEF SessionInv, Holding
  <2>10. Children'
    BY <1>3, <1>5, <2>2 DEF SessionInv, Children
  <2>11. IdleEmpty'
    BY <1>1, <1>9, <2>2, <2>5 DEF SessionInv, IdleEmpty
  <2>12. MapBusy'
    BY <2>2, <2>3 DEF SessionInv, MapBusy
  <2>13. Owed'
    <3> SUFFICES ASSUME NEW x \in Runs, stateOf'[x] # NoRun, outcome[x] = "pending"
                 PROVE  \/ active[stateOf'[x]] = x
                        \/ \E i \in 1..Len(queue'[stateOf'[x]]) : queue'[stateOf'[x]][i] = x
      BY <2>2 DEF Owed
    <3>1. CASE x = r
      <4>1. Len(queue[s]) + 1 \in 1..Len(queue'[s])
        BY <2>6
      <4> QED
        BY <3>1, <4>1, <2>6, <1>3
    <3>2. CASE x # r
      <4>1. stateOf'[x] = stateOf[x] /\ stateOf[x] \in Runs
        BY <3>2, <1>3
      <4>2. CASE active[stateOf[x]] = x
        BY <4>1, <4>2
      <4>3. CASE active[stateOf[x]] # x
        <5>1. PICK i \in 1..Len(queue[stateOf[x]]) : queue[stateOf[x]][i] = x
          BY <4>1, <4>3 DEF SessionInv, Owed
        <5>2. i \in 1..Len(queue'[stateOf[x]]) /\ queue'[stateOf[x]][i] = x
          BY <4>1, <5>1, <2>5, <2>6
        <5> QED
          BY <4>1, <5>2
      <4> QED
        BY <4>2, <4>3
    <3> QED
      BY <3>1, <3>2
  <2>14. Timers'
    BY <1>1, <1>2, <1>3, <1>5, <2>2 DEF SessionInv, Timers, TypeOK
  <2>15. Fresh'
    BY <1>1, <1>2, <1>3, <2>2 DEF SessionInv, Fresh
  <2> QED
    BY <1>4, <2>4, <2>7, <2>8, <2>9, <2>10, <2>11, <2>12, <2>13, <2>14, <2>15 DEF SessionInv
<1> QED
  BY <1>8, <1>9

(* A queued turn leaves its queue, whose object is busy and stays so.        *)
LEMMA KillQueuedInv ==
    ASSUME SessionInv, NEW r \in Runs, KillQueued(r)
    PROVE  SessionInv'
<1> USE RunsAssumption
<1> DEFINE s == stateOf[r]
<1>1. /\ s # NoRun /\ s \in Runs /\ r \notin killed /\ outcome[r] = "pending"
      /\ active[s] # r
      /\ killed' = killed \cup {r}
      /\ outcome' = [outcome EXCEPT ![r] = "killed"]
      /\ active' = active /\ stateOf' = stateOf /\ fallback' = fallback /\ child' = child
  BY DEF KillQueued, Killable, SessionInv, TypeOK
<1>2. PICK i \in DOMAIN queue[s] :
        queue[s][i] = r /\ queue' = [queue EXCEPT ![s] = RemoveAt(queue[s], i)]
  BY DEF KillQueued
<1>3. queue[s] \in Seq(Runs) /\ i \in 1..Len(queue[s]) /\ Len(queue[s]) \in Nat
  BY <1>1, <1>2 DEF SessionInv, TypeOK
<1>4. active[s] # NoRun
  BY <1>1, <1>3 DEF SessionInv, IdleEmpty
<1>5. sessions' = sessions
  BY <1>4 DEF KillQueued
<1>6. child[r] = "none"
  BY <1>1, <1>2, <1>3 DEF SessionInv, Waiting
<1> HIDE DEF s
<1>7. /\ RemoveAt(queue[s], i) \in Seq(Runs)
      /\ Len(RemoveAt(queue[s], i)) = Len(queue[s]) - 1
      /\ \A j \in 1..(Len(queue[s]) - 1) :
           RemoveAt(queue[s], i)[j] = IF j < i THEN queue[s][j] ELSE queue[s][j + 1]
  BY <1>3, RemoveAtProperties
<1>8. TypeOK'
  BY <1>1, <1>2, <1>5, <1>7 DEF SessionInv, TypeOK, Outcomes
<1>9. /\ \A t \in Runs \ {s} : queue'[t] = queue[t]
      /\ queue'[s] = RemoveAt(queue[s], i)
  BY <1>1, <1>2 DEF SessionInv, TypeOK
<1>10. \A j \in 1..Len(queue'[s]) :
         \E m \in 1..Len(queue[s]) :
           /\ m # i /\ queue'[s][j] = queue[s][m]
           /\ m = IF j < i THEN j ELSE j + 1
  <2> SUFFICES ASSUME NEW j \in 1..(Len(queue[s]) - 1)
               PROVE  \E m \in 1..Len(queue[s]) :
                        /\ m # i /\ queue'[s][j] = queue[s][m]
                        /\ m = IF j < i THEN j ELSE j + 1
    BY <1>7, <1>9
  <2>1. CASE j < i
    <3>1. j \in 1..Len(queue[s]) /\ j # i /\ queue'[s][j] = queue[s][j]
      BY <2>1, <1>3, <1>7, <1>9
    <3> QED
      BY <2>1, <3>1
  <2>2. CASE ~(j < i)
    <3>1. j + 1 \in 1..Len(queue[s]) /\ j + 1 # i /\ queue'[s][j] = queue[s][j + 1]
      BY <2>2, <1>3, <1>7, <1>9
    <3> QED
      BY <2>2, <3>1
  <2> QED
    BY <2>1, <2>2
<1>11. \A t \in Runs : \A j \in 1..Len(queue'[t]) :
         queue'[t][j] # r /\ \E m \in 1..Len(queue[t]) : queue'[t][j] = queue[t][m]
  <2> SUFFICES ASSUME NEW t \in Runs, NEW j \in 1..Len(queue'[t])
               PROVE  /\ queue'[t][j] # r
                      /\ \E m \in 1..Len(queue[t]) : queue'[t][j] = queue[t][m]
    OBVIOUS
  <2>1. CASE t = s
    BY <2>1, <1>1, <1>2, <1>3, <1>10, SMTT(30) DEF SessionInv, Distinct
  <2>2. CASE t # s
    BY <2>2, <1>9 DEF SessionInv, Waiting, s
  <2> QED
    BY <2>1, <2>2
<1>12. Waiting'
  <2> SUFFICES ASSUME NEW t \in Runs, NEW j \in 1..Len(queue'[t])
               PROVE  /\ stateOf[queue'[t][j]] = t
                      /\ outcome'[queue'[t][j]] = "pending"
                      /\ child[queue'[t][j]] = "none"
                      /\ queue'[t][j] \notin killed'
    BY <1>1 DEF Waiting
  <2>1. PICK m \in 1..Len(queue[t]) : queue'[t][j] = queue[t][m] /\ queue[t][m] # r
    BY <1>11
  <2>2. queue[t] \in Seq(Runs) /\ queue[t][m] \in Runs
    BY DEF SessionInv, TypeOK
  <2> QED
    BY <2>1, <2>2, <1>1 DEF SessionInv, Waiting, TypeOK
<1>13. Distinct'
  <2> SUFFICES ASSUME NEW t \in Runs,
                      NEW j \in 1..Len(queue'[t]), NEW l \in 1..Len(queue'[t]),
                      queue'[t][j] = queue'[t][l]
               PROVE  j = l
    BY DEF Distinct
  <2>1. CASE t # s
    BY <2>1, <1>9 DEF SessionInv, Distinct
  <2>2. CASE t = s
    <3>1. PICK a \in 1..Len(queue[s]) :
            queue'[s][j] = queue[s][a] /\ a = IF j < i THEN j ELSE j + 1
      BY <2>2, <1>10
    <3>2. PICK b \in 1..Len(queue[s]) :
            queue'[s][l] = queue[s][b] /\ b = IF l < i THEN l ELSE l + 1
      BY <2>2, <1>10
    <3>3. a = b
      BY <2>2, <3>1, <3>2, <1>1 DEF SessionInv, Distinct
    <3>4. j \in Int /\ l \in Int /\ i \in Int
      BY <2>2, <1>3, <1>7, <1>9
    <3> QED
      BY <3>1, <3>2, <3>3, <3>4
  <2> QED
    BY <2>1, <2>2
<1>14. Holding' /\ Children' /\ MapBusy' /\ ObjectKeys'
  BY <1>1, <1>5 DEF SessionInv, Holding, Children, MapBusy, ObjectKeys
<1>15. IdleEmpty'
  BY <1>1, <1>4, <1>9 DEF SessionInv, IdleEmpty
<1>16. Owed'
  <2> SUFFICES ASSUME NEW x \in Runs, stateOf[x] # NoRun, outcome'[x] = "pending"
               PROVE  \/ active[stateOf[x]] = x
                      \/ \E j \in 1..Len(queue'[stateOf[x]]) : queue'[stateOf[x]][j] = x
    BY <1>1 DEF Owed
  <2>1. x # r /\ outcome[x] = "pending" /\ stateOf[x] \in Runs
    BY <1>1 DEF SessionInv, TypeOK
  <2>2. CASE active[stateOf[x]] = x
    BY <2>2
  <2>3. CASE stateOf[x] # s
    BY <2>1, <2>3, <1>9 DEF SessionInv, Owed
  <2>4. CASE stateOf[x] = s /\ active[s] # x
    <3>1. PICK m \in 1..Len(queue[s]) : queue[s][m] = x
      BY <2>1, <2>4 DEF SessionInv, Owed
    <3>2. m # i
      BY <2>1, <3>1, <1>2
    <3>3. CASE m < i
      <4>1. m \in 1..Len(queue'[s]) /\ queue'[s][m] = x
        BY <3>1, <3>3, <1>3, <1>7, <1>9
      <4> QED
        BY <2>4, <4>1
    <3>4. CASE m > i
      <4>1. m - 1 \in 1..(Len(queue[s]) - 1) /\ ~(m - 1 < i) /\ (m - 1) + 1 = m
        BY <3>4, <1>3
      <4>2. m - 1 \in 1..Len(queue'[s]) /\ queue'[s][m - 1] = x
        BY <3>1, <4>1, <1>7, <1>9
      <4> QED
        BY <2>4, <4>2
    <3> QED
      BY <3>2, <3>3, <3>4, <1>3
  <2> QED
    BY <2>2, <2>3, <2>4
<1>17. Timers'
  BY <1>1 DEF SessionInv, Timers, TypeOK
<1>18. Fresh'
  BY <1>1 DEF SessionInv, Fresh, s, TypeOK
<1> QED
  BY <1>8, <1>12, <1>13, <1>14, <1>15, <1>16, <1>17, <1>18 DEF SessionInv

LEMMA KillActiveInv ==
    ASSUME SessionInv, NEW r \in Runs, KillActive(r)
    PROVE  SessionInv'
<1> USE RunsAssumption DEF KillActive, Killable, SessionInv
<1>1. TypeOK'
  BY DEF TypeOK
<1>2. ObjectKeys' /\ Distinct' /\ Holding' /\ Children' /\ IdleEmpty' /\ MapBusy' /\ Owed'
  BY DEF ObjectKeys, Distinct, Holding, Children, IdleEmpty, MapBusy, Owed
<1>3. child[r] = "live"
  BY DEF Holding, TypeOK
<1>4. Waiting'
  BY <1>3 DEF Waiting
<1>5. Timers' /\ Fresh'
  BY DEF Timers, Fresh
<1> QED
  BY <1>1, <1>2, <1>4, <1>5

LEMMA KillFallbackInv ==
    ASSUME SessionInv, NEW r \in Runs, KillFallback(r)
    PROVE  SessionInv'
<1> USE RunsAssumption DEF KillFallback, SessionInv
<1>1. TypeOK'
  BY DEF TypeOK, Outcomes
<1>2. ObjectKeys' /\ Distinct' /\ Holding' /\ Children' /\ IdleEmpty' /\ MapBusy'
  BY DEF ObjectKeys, Distinct, Holding, Children, IdleEmpty, MapBusy
<1>3. r \in killed /\ stateOf[r] # NoRun
  BY DEF Timers
<1>4. Waiting'
  BY <1>3 DEF Waiting
<1>5. Owed' /\ Timers' /\ Fresh'
  BY <1>3 DEF Owed, Timers, Fresh, TypeOK
<1> QED
  BY <1>1, <1>2, <1>4, <1>5

(* dispose reaches every queued turn, since the map holds every busy object. *)
LEMMA DisposeInv ==
    ASSUME SessionInv, Dispose
    PROVE  SessionInv'
<1> USE RunsAssumption
<1> DEFINE reached == {sessions[k] : k \in Keys} \ {NoRun}
           doomed  == {r \in Runs : Killable(r) /\ stateOf[r] \in reached}
           running == {r \in doomed : active[stateOf[r]] = r}
<1>1. /\ killed' = killed \cup doomed
      /\ fallback' = fallback \cup running
      /\ queue' = [s \in Runs |-> IF s \in reached THEN <<>> ELSE queue[s]]
      /\ outcome' = [r \in Runs |-> IF r \in doomed \ running THEN "killed" ELSE outcome[r]]
      /\ sessions' = [k \in Keys |->
           IF sessions[k] # NoRun /\ active[sessions[k]] = NoRun THEN NoRun ELSE sessions[k]]
      /\ active' = active /\ stateOf' = stateOf /\ child' = child
  BY DEF Dispose
<1>2. sessions' = sessions
  BY <1>1 DEF SessionInv, MapBusy, TypeOK
<1>3. reached \subseteq Runs /\ doomed \subseteq Runs /\ running \subseteq doomed
  BY DEF SessionInv, TypeOK
<1>4. \A r \in doomed : /\ r \in Runs /\ stateOf[r] # NoRun /\ r \notin killed
                        /\ outcome[r] = "pending" /\ stateOf[r] \in reached
  BY DEF Killable
<1>5. \A s \in Runs : active[s] # NoRun => s \in reached
  <2> SUFFICES ASSUME NEW s \in Runs, active[s] # NoRun PROVE s \in reached
    OBVIOUS
  <2>1. sessions[KeyOf[s]] = s /\ KeyOf[s] \in Keys
    BY DEF SessionInv, Holding
  <2> QED
    BY <2>1
<1>6. \A s \in Runs : s \notin reached => queue[s] = <<>>
  BY <1>5 DEF SessionInv, IdleEmpty
<1>7. queue' = [s \in Runs |-> <<>>]
  BY <1>1, <1>6
<1>8. \A r \in Runs : r \in running <=> r \in doomed /\ active[stateOf[r]] = r
  OBVIOUS
<1>9. \A r \in Runs : r \notin doomed =>
        stateOf[r] = NoRun \/ r \in killed \/ outcome[r] # "pending" \/ stateOf[r] \notin reached
  BY DEF Killable
<1> HIDE DEF reached, doomed, running
<1>10. TypeOK'
  <2>1. outcome' \in [Runs -> Outcomes \cup {"pending"}]
    BY <1>1 DEF SessionInv, TypeOK, Outcomes
  <2>2. killed' \in SUBSET Runs /\ fallback' \in SUBSET Runs
    BY <1>1, <1>3 DEF SessionInv, TypeOK
  <2> QED
    BY <2>1, <2>2, <1>1, <1>2, <1>7 DEF SessionInv, TypeOK
<1>11. ObjectKeys' /\ Holding' /\ Children' /\ MapBusy'
  BY <1>1, <1>2 DEF SessionInv, ObjectKeys, Holding, Children, MapBusy
<1>12. Waiting' /\ Distinct' /\ IdleEmpty'
  BY <1>7 DEF Waiting, Distinct, IdleEmpty
<1>13. Owed'
  <2> SUFFICES ASSUME NEW r \in Runs, stateOf[r] # NoRun, outcome'[r] = "pending"
               PROVE  active[stateOf[r]] = r
    BY <1>1 DEF Owed
  <2>1. outcome[r] = "pending" /\ ~(r \in doomed /\ r \notin running)
    BY <1>1
  <2>2. CASE r \in running
    BY <2>2, <1>8
  <2>3. CASE r \notin doomed
    <3>1. SUFFICES ASSUME active[stateOf[r]] # r PROVE FALSE
      OBVIOUS
    <3>2. stateOf[r] \in Runs
      BY DEF SessionInv, TypeOK
    <3>3. PICK i \in 1..Len(queue[stateOf[r]]) : queue[stateOf[r]][i] = r
      BY <2>1, <3>1 DEF SessionInv, Owed
    <3>4. r \notin killed
      BY <3>2, <3>3 DEF SessionInv, Waiting
    <3>5. stateOf[r] \in reached
      BY <3>2, <3>3, <1>6
    <3> QED
      BY <2>1, <2>3, <3>4, <3>5, <1>9
  <2> QED
    BY <2>1, <2>2, <2>3
<1>14. Timers'
  <2> SUFFICES ASSUME NEW r \in fallback'
               PROVE  r \in killed' /\ outcome'[r] = "pending" /\ stateOf[r] # NoRun
    BY <1>1 DEF Timers
  <2>1. CASE r \in fallback
    BY <2>1, <1>1, <1>4 DEF SessionInv, Timers, TypeOK
  <2>2. CASE r \in running
    BY <2>2, <1>1, <1>3, <1>4
  <2> QED
    BY <2>1, <2>2, <1>1
<1>15. Fresh'
  BY <1>1, <1>4 DEF SessionInv, Fresh
<1> QED
  BY <1>10, <1>11, <1>12, <1>13, <1>14, <1>15 DEF SessionInv

(* A child that ends was its object's, so the object is idle for startNext.  *)
LEMMA FinishTransportInv ==
    ASSUME SessionInv, NEW r \in Runs, NEW result \in {"ok", "failed"},
           FinishTransport(r, result)
    PROVE  SessionInv'
<1> USE RunsAssumption
<1> DEFINE s    == stateOf[r]
           told == IF outcome[r] # "pending" THEN outcome
                   ELSE [outcome EXCEPT ![r] = IF r \in killed THEN "killed" ELSE result]
           kids == [child EXCEPT ![r] = "closed"]
<1>1. /\ child[r] = "live" /\ fallback' = fallback \ {r}
      /\ stateOf' = stateOf /\ killed' = killed
  BY DEF FinishTransport
<1>2. s \in Runs /\ active[s] = r
  BY <1>1 DEF SessionInv, Children, TypeOK
<1>3. StartNext(s, queue[s], sessions, told, kids)
  BY <1>2 DEF FinishTransport
<1>4. /\ told \in [Runs -> Outcomes \cup {"pending"}]
      /\ told[r] # "pending"
      /\ \A x \in Runs \ {r} : told[x] = outcome[x]
      /\ kids \in [Runs -> {"none", "live", "closed"}]
      /\ kids[r] = "closed"
      /\ \A x \in Runs \ {r} : kids[x] = child[x]
  BY DEF SessionInv, TypeOK, Outcomes
<1>5. /\ TypeOK /\ queue[s] \in Seq(Runs)
      /\ sessions \in [Keys -> Runs \cup {NoRun}]
      /\ stateOf' \in [Runs -> Runs \cup {NoRun}]
      /\ fallback' \in SUBSET Runs
  BY <1>1, <1>2 DEF SessionInv, TypeOK
<1> HIDE DEF s, told, kids
<1>6. ObjectKeys'
  BY <1>1 DEF SessionInv, ObjectKeys
<1>7. ASSUME NEW t \in Runs
      PROVE  QueueReady(t, queue[t], told, kids)
  <2> SUFFICES ASSUME NEW i \in 1..Len(queue[t])
               PROVE  /\ stateOf[queue[t][i]] = t
                      /\ told[queue[t][i]] = "pending"
                      /\ kids[queue[t][i]] = "none"
                      /\ queue[t][i] \notin killed
    BY <1>1 DEF SessionInv, Distinct, QueueReady
  <2>1. queue[t] \in Seq(Runs)
    BY <1>5 DEF TypeOK
  <2>2. queue[t][i] \in Runs \ {r}
    BY <2>1, <1>1 DEF SessionInv, Waiting
  <2> QED
    BY <2>2, <1>4 DEF SessionInv, Waiting
<1>8. OthersReady(s, sessions, told, kids)
  <2> SUFFICES ASSUME NEW t \in Runs \ {s}, active[t] # NoRun
               PROVE  /\ stateOf[active[t]] = t
                      /\ kids[active[t]] = "live"
                      /\ sessions[KeyOf[t]] = t
    BY <1>1, <1>7 DEF SessionInv, IdleEmpty, OthersReady
  <2>1. active[t] \in Runs
    BY <1>5 DEF TypeOK
  <2>2. stateOf[active[t]] = t
    BY DEF SessionInv, Holding
  <2>3. active[t] # r
    BY <2>2 DEF s
  <2> QED
    BY <2>1, <2>2, <2>3, <1>4 DEF SessionInv, Holding
<1>9. ChildrenReady(s, kids)
  <2> SUFFICES ASSUME NEW x \in Runs, kids[x] = "live"
               PROVE  stateOf[x] # NoRun /\ stateOf[x] # s /\ active[stateOf[x]] = x
    BY <1>1 DEF ChildrenReady
  <2>1. x # r
    BY <1>4
  <2> QED
    BY <2>1, <1>2, <1>4 DEF SessionInv, Children
<1>10. MapReady(s, sessions)
  BY <1>2 DEF SessionInv, MapBusy, MapReady, Holding
<1>11. OwedReady(s, queue[s], told)
  <2> SUFFICES ASSUME NEW x \in Runs, stateOf[x] # NoRun, told[x] = "pending"
               PROVE  \/ stateOf[x] # s /\ active[stateOf[x]] = x
                      \/ stateOf[x] # s /\ \E i \in 1..Len(queue[stateOf[x]]) :
                                             queue[stateOf[x]][i] = x
                      \/ stateOf[x] = s /\ \E i \in 1..Len(queue[s]) : queue[s][i] = x
    BY <1>1 DEF OwedReady
  <2>1. x # r /\ outcome[x] = "pending"
    BY <1>4
  <2> QED
    BY <2>1, <1>2 DEF SessionInv, Owed
<1>12. TimersReady(s, told)
  <2> SUFFICES ASSUME NEW x \in fallback \ {r}
               PROVE  x \in killed /\ told[x] = "pending" /\ stateOf[x] \notin {NoRun, s}
    BY <1>1 DEF TimersReady
  <2>1. /\ x \in Runs /\ x \in killed /\ outcome[x] = "pending" /\ stateOf[x] # NoRun
    BY <1>5 DEF SessionInv, Timers, TypeOK
  <2>2. ASSUME stateOf[x] = s PROVE FALSE
    <3>1. PICK i \in 1..Len(queue[s]) : queue[s][i] = x
      BY <2>1, <2>2, <1>2 DEF SessionInv, Owed
    <3> QED
      BY <2>1, <3>1, <1>2 DEF SessionInv, Waiting
  <2> QED
    BY <2>1, <2>2, <1>4
<1>13. FreshReady(told, kids)
  <2>1. stateOf[r] # NoRun
    BY <1>2 DEF s
  <2> QED
    BY <2>1, <1>1, <1>4 DEF SessionInv, Fresh, FreshReady
<1>14. QueueReady(s, queue[s], told, kids)
  BY <1>2, <1>7
<1> QED
  BY <1>1, <1>2, <1>3, <1>4, <1>5, <1>6, <1>8, <1>9, <1>10, <1>11, <1>12, <1>13, <1>14,
     StartNextKeepsInv

-----------------------------------------------------------------------------
LEMMA NextInv == SessionInv /\ [Next]_vars => SessionInv'
<1> SUFFICES ASSUME SessionInv, [Next]_vars PROVE SessionInv'
  OBVIOUS
<1>1. ASSUME NEW r \in Runs, StartRun(r) PROVE SessionInv'
  BY <1>1, StartRunInv
<1>2. ASSUME NEW r \in Runs, KillQueued(r) PROVE SessionInv'
  BY <1>2, KillQueuedInv
<1>3. ASSUME NEW r \in Runs, KillActive(r) PROVE SessionInv'
  BY <1>3, KillActiveInv
<1>4. ASSUME NEW r \in Runs, KillFallback(r) PROVE SessionInv'
  BY <1>4, KillFallbackInv
<1>5. ASSUME NEW r \in Runs, NEW result \in {"ok", "failed"}, FinishTransport(r, result)
      PROVE SessionInv'
  BY <1>5, FinishTransportInv
<1>6. CASE Dispose
  BY <1>6, DisposeInv
<1>7. CASE UNCHANGED vars
  BY <1>7 DEF vars, SessionInv, TypeOK, ObjectKeys, Waiting, Distinct, Holding, Children,
              IdleEmpty, MapBusy, Owed, Timers, Fresh
<1> QED
  BY <1>1, <1>2, <1>3, <1>4, <1>5, <1>6, <1>7 DEF Next

(* SessionInv holds of every reachable state of the queue.                   *)
THEOREM SessionInvariant == Spec => []SessionInv
<1>1. Init => SessionInv
  BY InitInv
<1>2. SessionInv /\ [Next]_vars => SessionInv'
  BY NextInv
<1> QED
  BY <1>1, <1>2, PTL DEF Spec

(* The variables keep their types.                                           *)
THEOREM TypeCorrect == Spec => []TypeOK
<1>1. SessionInv => TypeOK
  BY DEF SessionInv
<1> QED
  BY <1>1, SessionInvariant, PTL

(* Two children of turns with one key are the children of the object that    *)
(* the map holds under the key, so they are one child.                       *)
THEOREM OneChildPerKeyHolds == Spec => []OneChildPerKey
<1>1. SessionInv => OneChildPerKey
  <2> SUFFICES ASSUME SessionInv, NEW q \in Runs, NEW r \in Runs,
                      child[q] = "live", child[r] = "live", KeyOf[q] = KeyOf[r]
               PROVE  q = r
    BY DEF OneChildPerKey
  <2>1. /\ stateOf[q] \in Runs /\ active[stateOf[q]] = q
        /\ stateOf[r] \in Runs /\ active[stateOf[r]] = r
    BY DEF SessionInv, Children, TypeOK
  <2>2. q # NoRun /\ r # NoRun
    BY RunsAssumption
  <2>3. /\ sessions[KeyOf[stateOf[q]]] = stateOf[q]
        /\ sessions[KeyOf[stateOf[r]]] = stateOf[r]
    BY <2>1, <2>2 DEF SessionInv, Holding
  <2>4. KeyOf[stateOf[q]] = KeyOf[stateOf[r]]
    BY <2>1, RunsAssumption DEF SessionInv, ObjectKeys
  <2> QED
    BY <2>1, <2>3, <2>4
<1> QED
  BY <1>1, SessionInvariant, PTL

(* The map has an entry exactly for the sessions with a child.               *)
THEOREM MapHoldsLiveSessionsHolds == Spec => []MapHoldsLiveSessions
<1> USE RunsAssumption
<1>1. SessionInv => MapHoldsLiveSessions
  <2> SUFFICES ASSUME SessionInv PROVE MapHoldsLiveSessions
    OBVIOUS
  <2>1. ASSUME NEW k \in Keys, sessions[k] # NoRun
        PROVE  \E r \in Runs : child[r] = "live" /\ stateOf[r] = sessions[k] /\ KeyOf[r] = k
    <3>1. /\ sessions[k] \in Runs /\ KeyOf[sessions[k]] = k
          /\ active[sessions[k]] \in Runs /\ active[sessions[k]] # NoRun
      BY <2>1 DEF SessionInv, MapBusy, TypeOK
    <3>2. /\ stateOf[active[sessions[k]]] = sessions[k]
          /\ child[active[sessions[k]]] = "live"
      BY <3>1 DEF SessionInv, Holding
    <3>3. KeyOf[active[sessions[k]]] = k
      BY <2>1, <3>1, <3>2 DEF SessionInv, ObjectKeys
    <3> QED
      BY <3>1, <3>2, <3>3
  <2>2. ASSUME NEW r \in Runs, stateOf[r] # NoRun,
               child[r] = "live" \/ outcome[r] = "pending"
        PROVE  sessions[KeyOf[r]] = stateOf[r]
    <3>1. stateOf[r] \in Runs /\ KeyOf[stateOf[r]] = KeyOf[r]
      BY <2>2 DEF SessionInv, ObjectKeys, TypeOK
    <3>2. active[stateOf[r]] # NoRun
      <4>1. CASE active[stateOf[r]] = r
        BY <4>1
      <4>2. CASE active[stateOf[r]] # r
        <5>1. PICK i \in 1..Len(queue[stateOf[r]]) : queue[stateOf[r]][i] = r
          BY <2>2, <4>2 DEF SessionInv, Owed, Children
        <5> QED
          BY <3>1, <5>1 DEF SessionInv, IdleEmpty
      <4> QED
        BY <4>1, <4>2
    <3> QED
      BY <3>1, <3>2 DEF SessionInv, Holding
  <2> QED
    BY <2>1, <2>2 DEF MapHoldsLiveSessions
<1> QED
  BY <1>1, SessionInvariant, PTL

-----------------------------------------------------------------------------
(* startNext answers only turns that its caller left without an answer, and  *)
(* gives children only to these.                                             *)
LEMMA StartNextKeepsAnswers ==
    ASSUME NEW s \in Runs,
           NEW q \in Seq(Runs),
           NEW map, NEW told, NEW kids,
           \A i \in 1..Len(q) : told[q[i]] = "pending",
           StartNext(s, q, map, told, kids),
           NEW r \in Runs,
           told[r] # "pending"
    PROVE  outcome'[r] = told[r] /\ child'[r] = kids[r]
<1> USE RunsAssumption
<1>1. PICK refused \in 0..Len(q) : StartAfter(refused, s, q, map, told, kids)
  BY DEF StartNext
<1> DEFINE next == IF refused = Len(q) THEN NoRun ELSE q[refused + 1]
<1>2. r # next
  <2>1. refused # Len(q) => refused + 1 \in 1..Len(q)
    OBVIOUS
  <2> QED
    BY <2>1
<1>3. ASSUME NEW i \in 1..refused PROVE q[i] # r
  <2>1. i \in 1..Len(q)
    OBVIOUS
  <2> QED
    BY <2>1
<1>4. child'[r] = kids[r]
  BY <1>1, <1>2 DEF StartAfter
<1>5. outcome'[r] = told[r]
  BY <1>1, <1>2, <1>3 DEF StartAfter
<1> QED
  BY <1>4, <1>5

(* What a step may do to the answers and children of answered turns.         *)
AnswersKept ==
    \A r \in Runs :
      /\ outcome[r] # "pending" => outcome'[r] = outcome[r]
      /\ child[r] = "none" /\ outcome[r] # "pending" => child'[r] = "none"

LEMMA StepKeepsAnswers == SessionInv /\ [Next]_vars => AnswersKept
<1> USE RunsAssumption
<1> SUFFICES ASSUME SessionInv, [Next]_vars, NEW x \in Runs, outcome[x] # "pending"
             PROVE  outcome'[x] = outcome[x] /\ (child[x] = "none" => child'[x] = "none")
  BY DEF AnswersKept
<1> DEFINE Goal == outcome'[x] = outcome[x] /\ (child[x] = "none" => child'[x] = "none")
<1>1. ASSUME NEW r \in Runs, StartRun(r) PROVE Goal
  <2> DEFINE s   == IF sessions[KeyOf[r]] = NoRun THEN r ELSE sessions[KeyOf[r]]
             q   == Append(queue[s], r)
             map == [sessions EXCEPT ![KeyOf[r]] = s]
  <2>1. s \in Runs /\ queue[s] \in Seq(Runs)
    BY DEF SessionInv, TypeOK
  <2>2. outcome[r] = "pending"
    BY <1>1 DEF StartRun, SessionInv, Fresh
  <2>3. CASE active[s] = NoRun
    <3>1. queue[s] = <<>>
      BY <2>1, <2>3 DEF SessionInv, IdleEmpty
    <3>2. q \in Seq(Runs) /\ \A i \in 1..Len(q) : outcome[q[i]] = "pending"
      BY <3>1, <2>2
    <3>3. StartNext(s, q, map, outcome, child)
      BY <1>1, <2>3 DEF StartRun
    <3> HIDE DEF s, q, map
    <3>4. outcome'[x] = outcome[x] /\ child'[x] = child[x]
      BY <2>1, <3>2, <3>3, StartNextKeepsAnswers
    <3> QED
      BY <3>4
  <2>4. CASE active[s] # NoRun
    BY <1>1, <2>4 DEF StartRun
  <2> QED
    BY <2>3, <2>4
<1>2. ASSUME NEW r \in Runs, KillQueued(r) PROVE Goal
  BY <1>2 DEF KillQueued, Killable, SessionInv, TypeOK
<1>3. ASSUME NEW r \in Runs, KillActive(r) PROVE Goal
  BY <1>3 DEF KillActive
<1>4. ASSUME NEW r \in Runs, KillFallback(r) PROVE Goal
  BY <1>4 DEF KillFallback, SessionInv, Timers, TypeOK
<1>5. ASSUME NEW r \in Runs, NEW result \in {"ok", "failed"}, FinishTransport(r, result)
      PROVE  Goal
  <2> DEFINE s    == stateOf[r]
             told == IF outcome[r] # "pending" THEN outcome
                     ELSE [outcome EXCEPT ![r] = IF r \in killed THEN "killed" ELSE result]
             kids == [child EXCEPT ![r] = "closed"]
  <2>1. child[r] = "live" /\ s \in Runs /\ active[s] = r
    BY <1>5 DEF FinishTransport, SessionInv, Children, TypeOK
  <2>2. StartNext(s, queue[s], sessions, told, kids)
    BY <1>5, <2>1 DEF FinishTransport
  <2>3. queue[s] \in Seq(Runs)
    BY <2>1 DEF SessionInv, TypeOK
  <2>4. ASSUME NEW i \in 1..Len(queue[s]) PROVE told[queue[s][i]] = "pending"
    <3>1. queue[s][i] \in Runs /\ outcome[queue[s][i]] = "pending" /\ queue[s][i] # r
      BY <2>1, <2>3 DEF SessionInv, Waiting
    <3> QED
      BY <3>1 DEF SessionInv, TypeOK
  <2>5. told[x] = outcome[x]
    BY DEF SessionInv, TypeOK
  <2>6. child[x] = "none" => kids[x] = "none"
    BY <2>1 DEF SessionInv, TypeOK
  <2> HIDE DEF s, told, kids
  <2>7. outcome'[x] = told[x] /\ child'[x] = kids[x]
    BY <2>1, <2>2, <2>3, <2>4, <2>5, StartNextKeepsAnswers
  <2> QED
    BY <2>5, <2>6, <2>7
<1>6. CASE Dispose
  BY <1>6 DEF Dispose, Killable
<1>7. CASE UNCHANGED vars
  BY <1>7 DEF vars
<1> QED
  BY <1>1, <1>2, <1>3, <1>4, <1>5, <1>6, <1>7 DEF Next

(* The caller of a turn is answered once and for all, and a turn answered    *)
(* before it had a child never gets one.                                     *)
THEOREM AnswerOnceHolds == Spec => AnswerOnce
<1>1. SessionInv /\ [Next]_vars => [AnswersKept]_vars
  BY StepKeepsAnswers
<1>2. [AnswersKept]_vars =>
        [\A r \in Runs :
           /\ outcome[r] # "pending" => outcome'[r] = outcome[r]
           /\ child[r] = "none" /\ outcome[r] # "pending" => child'[r] = "none"]_vars
  BY DEF AnswersKept
<1> QED
  BY <1>1, <1>2, SessionInvariant, PTL DEF Spec, AnswerOnce

-----------------------------------------------------------------------------
(* The lines and the holders as SessionFifo sees them.                       *)
Lines   == [k \in Keys |-> LineOf(k)]
Holders == [k \in Keys |-> HolderOf(k)]

(* What startNext does to the object s: the first turn that can be started   *)
(* has it, the turns before it are told so.                                  *)
StartsAt(refused, s, q, map, told) ==
    /\ queue' = [queue EXCEPT ![s] = SubSeq(q, refused + 2, Len(q))]
    /\ outcome' = [r \in Runs |->
         IF \E i \in 1..refused : q[i] = r THEN "failed" ELSE told[r]]
    /\ active' = [active EXCEPT ![s] = IF refused < Len(q) THEN q[refused + 1] ELSE NoRun]
    /\ sessions' = IF refused < Len(q) THEN map ELSE Without(map, s)

LEMMA StartNextStarts ==
    ASSUME NEW s \in Runs, NEW q \in Seq(Runs), NEW map, NEW told, NEW kids,
           StartNext(s, q, map, told, kids),
           \A i \in 1..Len(q) : q[i] \notin killed
    PROVE  \E refused \in 0..Len(q) : StartsAt(refused, s, q, map, told)
<1> USE RunsAssumption
<1>1. PICK refused \in 0..Len(q) : StartAfter(refused, s, q, map, told, kids)
  BY DEF StartNext
<1>2. CASE refused < Len(q)
  <2>1. /\ refused # Len(q) /\ refused + 1 \in 1..Len(q)
        /\ q[refused + 1] \in Runs /\ q[refused + 1] # NoRun /\ q[refused + 1] \notin killed
    BY <1>2
  <2> QED
    BY <1>1, <1>2, <2>1 DEF StartAfter, StartsAt
<1>3. CASE refused = Len(q)
  <2>1. SubSeq(q, refused + 2, Len(q)) = <<>> /\ ~(refused < Len(q))
    BY <1>3
  <2>2. \A r \in Runs : r # NoRun
    OBVIOUS
  <2> QED
    BY <1>1, <1>3, <2>1, <2>2 DEF StartAfter, StartsAt
<1> QED
  BY <1>2, <1>3

(* An object that is not the one at work, and what the map has for its key.  *)
LEMMA StartNextPasses ==
    ASSUME SessionInv, NEW s \in Runs, NEW q \in Seq(Runs), NEW map, NEW told, NEW kids,
           StartNext(s, q, map, told, kids),
           \A i \in 1..Len(q) : q[i] \notin killed,
           map \in [Keys -> Runs \cup {NoRun}], map[KeyOf[s]] = s,
           \A k \in Keys \ {KeyOf[s]} : map[k] = sessions[k]
    PROVE  Fifo!PassOn(KeyOf[s], q, told)
<1> USE RunsAssumption
<1> DEFINE k == KeyOf[s]
<1>1. PICK refused \in 0..Len(q) : StartsAt(refused, s, q, map, told)
  BY StartNextStarts
<1> DEFINE rest == SubSeq(q, refused + 2, Len(q))
           next == IF refused < Len(q) THEN q[refused + 1] ELSE NoRun
<1>2. /\ k \in Keys /\ s # NoRun
      /\ queue \in [Runs -> Seq(Runs)] /\ active \in [Runs -> Runs \cup {NoRun}]
      /\ sessions \in [Keys -> Runs \cup {NoRun}]
  BY DEF SessionInv, TypeOK
<1>3. /\ queue'[s] = rest /\ active'[s] = next
      /\ \A t \in Runs \ {s} : queue'[t] = queue[t] /\ active'[t] = active[t]
  BY <1>1, <1>2 DEF StartsAt
<1>4. /\ sessions'[k] = IF refused < Len(q) THEN s ELSE NoRun
      /\ \A j \in Keys \ {k} : sessions'[j] = sessions[j]
  BY <1>1, <1>2 DEF StartsAt, Without
<1>5. refused < Len(q) \/ (rest = <<>> /\ next = NoRun)
  <2>1. CASE refused < Len(q)
    BY <2>1
  <2>2. CASE refused = Len(q)
    <3>1. SubSeq(q, refused + 2, Len(q)) = <<>> /\ ~(refused < Len(q))
      BY <2>2
    <3> QED
      BY <3>1
  <2> QED
    BY <2>1, <2>2
<1> HIDE DEF rest, next
<1>6. LineOf(k)' = rest /\ HolderOf(k)' = next
  BY <1>2, <1>3, <1>4, <1>5 DEF LineOf, HolderOf
<1>7. ASSUME NEW j \in Keys \ {k}
      PROVE  LineOf(j)' = LineOf(j) /\ HolderOf(j)' = HolderOf(j)
  <2>1. CASE sessions[j] = NoRun
    BY <1>4, <2>1 DEF LineOf, HolderOf
  <2>2. CASE sessions[j] # NoRun
    <3>1. sessions[j] \in Runs \ {s}
      BY <1>2, <2>2 DEF SessionInv, MapBusy
    <3> QED
      BY <1>3, <1>4, <2>2, <3>1 DEF LineOf, HolderOf
  <2> QED
    BY <2>1, <2>2
<1>8. Lines' = [Lines EXCEPT ![k] = rest]
  BY <1>2, <1>6, <1>7 DEF Lines
<1>9. Holders' = [Holders EXCEPT ![k] = next]
  BY <1>2, <1>6, <1>7 DEF Holders
<1>10. outcome' = [r \in Runs |->
         IF \E i \in 1..refused : q[i] = r THEN "failed" ELSE told[r]]
  BY <1>1 DEF StartsAt
<1> QED
  BY <1>8, <1>9, <1>10 DEF Fifo!PassOn, Lines, Holders, rest, next

(* The key of a turn that waits or has the child is its object's, which the  *)
(* map holds.                                                                *)
LEMMA KeyIsHeld ==
    ASSUME SessionInv, NEW r \in Runs, stateOf[r] # NoRun,
           \/ active[stateOf[r]] = r
           \/ \E i \in 1..Len(queue[stateOf[r]]) : queue[stateOf[r]][i] = r
    PROVE  /\ stateOf[r] \in Runs /\ KeyOf[r] \in Keys
           /\ sessions[KeyOf[r]] = stateOf[r]
           /\ LineOf(KeyOf[r]) = queue[stateOf[r]]
           /\ HolderOf(KeyOf[r]) = active[stateOf[r]]
<1> USE RunsAssumption
<1>1. stateOf[r] \in Runs /\ KeyOf[r] \in Keys /\ KeyOf[stateOf[r]] = KeyOf[r]
  BY DEF SessionInv, TypeOK, ObjectKeys
<1>2. active[stateOf[r]] # NoRun
  BY <1>1 DEF SessionInv, IdleEmpty
<1>3. sessions[KeyOf[r]] = stateOf[r]
  BY <1>1, <1>2 DEF SessionInv, Holding
<1> QED
  BY <1>1, <1>3 DEF LineOf, HolderOf

(* Who waits in the line of a key.                                           *)
LEMMA WaitsInLine ==
    ASSUME SessionInv, NEW r \in Runs
    PROVE  (\E i \in DOMAIN LineOf(KeyOf[r]) : LineOf(KeyOf[r])[i] = r)
              <=> /\ stateOf[r] # NoRun /\ outcome[r] = "pending"
                  /\ active[stateOf[r]] # r
<1> USE RunsAssumption
<1>1. ASSUME stateOf[r] # NoRun, outcome[r] = "pending", active[stateOf[r]] # r
      PROVE  \E i \in DOMAIN LineOf(KeyOf[r]) : LineOf(KeyOf[r])[i] = r
  <2>1. PICK i \in 1..Len(queue[stateOf[r]]) : queue[stateOf[r]][i] = r
    BY <1>1 DEF SessionInv, Owed
  <2>2. LineOf(KeyOf[r]) = queue[stateOf[r]] /\ stateOf[r] \in Runs
    BY <1>1, <2>1, KeyIsHeld
  <2>3. queue[stateOf[r]] \in Seq(Runs)
    BY <2>2 DEF SessionInv, TypeOK
  <2> QED
    BY <2>1, <2>2, <2>3
<1>2. ASSUME NEW i \in DOMAIN LineOf(KeyOf[r]), LineOf(KeyOf[r])[i] = r
      PROVE  stateOf[r] # NoRun /\ outcome[r] = "pending" /\ active[stateOf[r]] # r
  <2> DEFINE s == sessions[KeyOf[r]]
  <2>1. s \in Runs /\ LineOf(KeyOf[r]) = queue[s] /\ queue[s] \in Seq(Runs)
    <3>1. s # NoRun
      BY <1>2 DEF LineOf
    <3> QED
      BY <3>1 DEF SessionInv, TypeOK, LineOf
  <2>2. i \in 1..Len(queue[s]) /\ queue[s][i] = r
    BY <1>2, <2>1
  <2>3. stateOf[r] = s /\ outcome[r] = "pending" /\ child[r] = "none"
    BY <2>1, <2>2 DEF SessionInv, Waiting
  <2>4. active[s] # r
    BY <2>1, <2>3 DEF SessionInv, Holding
  <2> QED
    BY <2>1, <2>3, <2>4
<1> QED
  BY <1>1, <1>2

LEMMA StartRunFifo ==
    ASSUME SessionInv, NEW r \in Runs, StartRun(r)
    PROVE  Fifo!Arrive(r)
<1> USE RunsAssumption
<1> DEFINE k   == KeyOf[r]
           s   == IF sessions[k] = NoRun THEN r ELSE sessions[k]
           map == [sessions EXCEPT ![k] = s]
           Arrived == {x \in Runs : stateOf[x] # NoRun}
<1>1. /\ k \in Keys /\ s \in Runs /\ KeyOf[s] = k
      /\ map \in [Keys -> Runs \cup {NoRun}] /\ map[k] = s
      /\ \A l \in Keys \ {k} : map[l] = sessions[l]
  BY DEF SessionInv, TypeOK, MapBusy
<1>2. stateOf[r] = NoRun /\ stateOf' = [stateOf EXCEPT ![r] = s]
  BY DEF StartRun
<1>3. r \notin Arrived /\ Arrived' = Arrived \cup {r}
  BY <1>1, <1>2 DEF SessionInv, TypeOK
<1>4. active[s] = NoRun <=> HolderOf(k) = NoRun
  <2>1. CASE sessions[k] = NoRun
    <3>1. active[r] = NoRun
      BY <1>2, <2>1 DEF SessionInv, TypeOK, Holding
    <3> QED
      BY <2>1, <3>1 DEF HolderOf
  <2>2. CASE sessions[k] # NoRun
    BY <2>2 DEF HolderOf
  <2> QED
    BY <2>1, <2>2
<1>5. CASE active[s] = NoRun
  <2>1. /\ queue[s] = <<>> /\ sessions[k] = NoRun /\ LineOf(k) = <<>>
    BY <1>1, <1>5 DEF SessionInv, IdleEmpty, MapBusy, LineOf
  <2> DEFINE q == Append(queue[s], r)
  <2>2. StartNext(s, q, map, outcome, child)
    BY <1>5 DEF StartRun
  <2>3. /\ q = Append(LineOf(k), r) /\ q \in Seq(Runs)
        /\ \A i \in 1..Len(q) : q[i] \notin killed
    <3>1. r \notin killed
      BY <1>2 DEF SessionInv, Fresh
    <3>2. q = <<r>>
      BY <2>1
    <3> QED
      BY <2>1, <3>1, <3>2
  <2> HIDE DEF q, map, s
  <2>4. Fifo!PassOn(k, q, outcome)
    BY <1>1, <2>2, <2>3, StartNextPasses
  <2> QED
    BY <1>1, <1>3, <1>4, <1>5, <2>3, <2>4 DEF Fifo!Arrive
<1>6. CASE active[s] # NoRun
  <2>1. s = sessions[k] /\ sessions[k] # NoRun
    <3>1. sessions[k] = NoRun => active[r] = NoRun
      BY DEF SessionInv, TypeOK, Holding
    <3> QED
      BY <1>6, <3>1
  <2>2. /\ queue' = [queue EXCEPT ![s] = Append(@, r)] /\ sessions' = map
        /\ active' = active /\ outcome' = outcome
    BY <1>6 DEF StartRun
  <2>3. sessions' = sessions
    BY <2>1, <2>2 DEF SessionInv, TypeOK
  <2>4. \A j \in Keys \ {k} : LineOf(j)' = LineOf(j)
    <3> SUFFICES ASSUME NEW j \in Keys \ {k}, sessions[j] # NoRun
                 PROVE  queue'[sessions[j]] = queue[sessions[j]]
      BY <2>3 DEF LineOf
    <3>1. sessions[j] \in Runs \ {s}
      BY <1>1 DEF SessionInv, TypeOK, MapBusy
    <3> QED
      BY <2>2, <3>1 DEF SessionInv, TypeOK
  <2>5. LineOf(k)' = Append(LineOf(k), r)
    BY <1>1, <2>1, <2>2, <2>3 DEF SessionInv, TypeOK, LineOf
  <2>6. \A j \in Keys : HolderOf(j)' = HolderOf(j)
    BY <2>2, <2>3 DEF HolderOf
  <2>7. Holders' = Holders /\ Lines' = [Lines EXCEPT ![k] = Append(@, r)]
    BY <1>1, <2>4, <2>5, <2>6 DEF Lines, Holders
  <2> QED
    BY <1>1, <1>3, <1>4, <1>6, <2>2, <2>7 DEF Fifo!Arrive, Lines, Holders
<1> QED
  BY <1>5, <1>6

LEMMA KillQueuedFifo ==
    ASSUME SessionInv, NEW r \in Runs, KillQueued(r)
    PROVE  \E k \in Keys : \E i \in DOMAIN Lines[k] : Fifo!Withdraw(k, i)
<1> USE RunsAssumption
<1> DEFINE s == stateOf[r]
           k == KeyOf[r]
<1>1. PICK i \in DOMAIN queue[s] :
        queue[s][i] = r /\ queue' = [queue EXCEPT ![s] = RemoveAt(@, i)]
  BY DEF KillQueued
<1>2. /\ stateOf[r] # NoRun /\ outcome[r] = "pending" /\ active[s] # r
      /\ outcome' = [outcome EXCEPT ![r] = "killed"]
      /\ stateOf' = stateOf /\ active' = active
  BY DEF KillQueued, Killable
<1>3. s \in Runs /\ queue[s] \in Seq(Runs) /\ i \in 1..Len(queue[s])
  BY <1>2 DEF SessionInv, TypeOK
<1>4. /\ k \in Keys /\ sessions[k] = s
      /\ LineOf(k) = queue[s] /\ HolderOf(k) = active[s]
  BY <1>1, <1>2, <1>3, KeyIsHeld
<1>5. active[s] # NoRun
  BY <1>1, <1>3 DEF SessionInv, IdleEmpty
<1>6. sessions' = sessions
  BY <1>5 DEF KillQueued
<1>7. ASSUME NEW j \in Keys \ {k} PROVE LineOf(j)' = LineOf(j)
  <2> SUFFICES ASSUME sessions[j] # NoRun
               PROVE  queue'[sessions[j]] = queue[sessions[j]]
    BY <1>6 DEF LineOf
  <2>1. sessions[j] \in Runs \ {s}
    BY <1>4 DEF SessionInv, TypeOK, MapBusy
  <2> QED
    BY <1>1, <2>1 DEF SessionInv, TypeOK
<1>8. LineOf(k)' = RemoveAt(LineOf(k), i)
  BY <1>1, <1>3, <1>4, <1>6 DEF SessionInv, TypeOK, LineOf
<1>9. Lines' = [Lines EXCEPT ![k] = RemoveAt(@, i)] /\ Lines[k] = LineOf(k)
  BY <1>4, <1>7, <1>8 DEF Lines
<1>10. Holders' = Holders
  BY <1>2, <1>6 DEF Holders, HolderOf
<1>11. outcome' = [outcome EXCEPT ![Lines[k][i]] = "killed"]
  BY <1>1, <1>2, <1>4, <1>9
<1>12. Fifo!Withdraw(k, i)
  BY <1>2, <1>9, <1>10, <1>11 DEF Fifo!Withdraw, Fifo!RemoveAt, RemoveAt, Lines, Holders
<1> QED
  BY <1>1, <1>4, <1>9, <1>12

LEMMA KillFallbackFifo ==
    ASSUME SessionInv, NEW r \in Runs, KillFallback(r)
    PROVE  \E k \in Keys : Fifo!GiveUp(k)
<1> USE RunsAssumption
<1> DEFINE s == stateOf[r]
           k == KeyOf[r]
<1>1. r \in killed /\ outcome[r] = "pending" /\ s # NoRun
  BY DEF KillFallback, SessionInv, Timers
<1>2. active[s] = r
  <2>1. s \in Runs
    BY <1>1 DEF SessionInv, TypeOK
  <2> QED
    BY <1>1, <2>1 DEF SessionInv, Owed, Waiting
<1>3. k \in Keys /\ HolderOf(k) = r
  BY <1>1, <1>2, KeyIsHeld
<1>4. Lines' = Lines /\ Holders' = Holders /\ Holders[k] = r
  BY <1>3 DEF KillFallback, Lines, Holders, LineOf, HolderOf
<1>5. Fifo!GiveUp(k)
  BY <1>1, <1>3, <1>4 DEF KillFallback, Fifo!GiveUp, Lines, Holders
<1> QED
  BY <1>3, <1>5

LEMMA DisposeFifo ==
    ASSUME SessionInv, Dispose
    PROVE  Fifo!Disperse
<1> USE RunsAssumption
<1> DEFINE reached == {sessions[k] : k \in Keys} \ {NoRun}
           doomed  == {r \in Runs : Killable(r) /\ stateOf[r] \in reached}
           running == {r \in doomed : active[stateOf[r]] = r}
<1>1. sessions' = sessions
  BY DEF Dispose, SessionInv, TypeOK, MapBusy
<1>2. /\ queue' = [s \in Runs |-> IF s \in reached THEN <<>> ELSE queue[s]]
      /\ outcome' = [r \in Runs |-> IF r \in doomed \ running THEN "killed" ELSE outcome[r]]
      /\ active' = active /\ stateOf' = stateOf
  BY DEF Dispose
<1>3. ASSUME NEW k \in Keys PROVE LineOf(k)' = <<>> /\ HolderOf(k)' = HolderOf(k)
  BY <1>1, <1>2 DEF LineOf, HolderOf, SessionInv, TypeOK
<1>4. ASSUME NEW r \in Runs
      PROVE  r \in doomed \ running
                <=> \E i \in DOMAIN LineOf(KeyOf[r]) : LineOf(KeyOf[r])[i] = r
  <2>1. ASSUME stateOf[r] # NoRun, outcome[r] = "pending", active[stateOf[r]] # r
        PROVE  r \in doomed
    <3>1. PICK i \in 1..Len(queue[stateOf[r]]) : queue[stateOf[r]][i] = r
      BY <2>1 DEF SessionInv, Owed
    <3>2. stateOf[r] \in Runs /\ KeyOf[r] \in Keys /\ sessions[KeyOf[r]] = stateOf[r]
      BY <2>1, <3>1, KeyIsHeld
    <3>3. r \notin killed
      BY <3>1, <3>2 DEF SessionInv, Waiting
    <3> QED
      BY <2>1, <3>2, <3>3 DEF Killable
  <2>2. r \in doomed => stateOf[r] # NoRun /\ outcome[r] = "pending"
    BY DEF Killable
  <2> HIDE DEF doomed
  <2> QED
    BY <2>1, <2>2, WaitsInLine
<1> HIDE DEF doomed, running
<1>5. Lines' = [k \in Keys |-> <<>>] /\ Holders' = Holders
  BY <1>3 DEF Lines, Holders
<1>6. outcome' = [r \in Runs |->
         IF \E i \in DOMAIN Lines[KeyOf[r]] : Lines[KeyOf[r]][i] = r
           THEN "killed" ELSE outcome[r]]
  <2>1. \A r \in Runs : Lines[KeyOf[r]] = LineOf(KeyOf[r])
    BY DEF Lines
  <2> QED
    BY <1>2, <1>4, <2>1
<1> QED
  BY <1>2, <1>5, <1>6 DEF Fifo!Disperse, Lines, Holders

LEMMA FinishTransportFifo ==
    ASSUME SessionInv, NEW r \in Runs, NEW result \in {"ok", "failed"},
           FinishTransport(r, result)
    PROVE  \E k \in Keys : Fifo!Leave(k)
<1> USE RunsAssumption
<1> DEFINE s    == stateOf[r]
           k    == KeyOf[r]
           a    == IF outcome[r] # "pending" THEN outcome[r]
                   ELSE IF r \in killed THEN "killed" ELSE result
           told == IF outcome[r] # "pending" THEN outcome
                   ELSE [outcome EXCEPT ![r] = IF r \in killed THEN "killed" ELSE result]
           kids == [child EXCEPT ![r] = "closed"]
<1>1. child[r] = "live" /\ stateOf' = stateOf
  BY DEF FinishTransport
<1>2. s # NoRun /\ active[s] = r
  BY <1>1 DEF SessionInv, Children
<1>3. /\ s \in Runs /\ k \in Keys /\ sessions[k] = s /\ KeyOf[s] = k
      /\ LineOf(k) = queue[s] /\ HolderOf(k) = r
  BY <1>2, KeyIsHeld DEF SessionInv, ObjectKeys
<1>4. StartNext(s, queue[s], sessions, told, kids)
  BY <1>2 DEF FinishTransport
<1>5. told = [outcome EXCEPT ![r] = a] /\ a \in Outcomes /\ outcome[r] \in {"pending", a}
  BY DEF SessionInv, TypeOK, Outcomes
<1>6. /\ queue[s] \in Seq(Runs) /\ \A i \in 1..Len(queue[s]) : queue[s][i] \notin killed
      /\ sessions \in [Keys -> Runs \cup {NoRun}]
  BY <1>3 DEF SessionInv, TypeOK, Waiting
<1> HIDE DEF told, kids, a
<1>7. Fifo!PassOn(k, queue[s], told)
  BY <1>3, <1>4, <1>6, StartNextPasses
<1>8. Lines[k] = queue[s] /\ Holders[k] = r
  BY <1>3 DEF Lines, Holders
<1>9. Fifo!Leave(k)
  BY <1>1, <1>3, <1>5, <1>7, <1>8 DEF Fifo!Leave, Fifo!Answers, Outcomes, Lines, Holders
<1> QED
  BY <1>3, <1>9

LEMMA InitFifo == Init => Fifo!Init
BY DEF Init, Fifo!Init, LineOf, HolderOf

(* Every step of the manager is a step of the lines, or none.                *)
LEMMA NextFifo == SessionInv /\ [Next]_vars => [Fifo!Next]_(Fifo!vars)
<1> SUFFICES ASSUME SessionInv, [Next]_vars PROVE [Fifo!Next]_(Fifo!vars)
  OBVIOUS
<1>1. ASSUME NEW r \in Runs, StartRun(r) PROVE Fifo!Next
  BY <1>1, StartRunFifo DEF Fifo!Next
<1>2. ASSUME NEW r \in Runs, KillQueued(r) PROVE Fifo!Next
  BY <1>2, KillQueuedFifo DEF Fifo!Next, Lines
<1>3. ASSUME NEW r \in Runs, KillActive(r) PROVE UNCHANGED Fifo!vars
  BY <1>3 DEF KillActive, Fifo!vars, LineOf, HolderOf
<1>4. ASSUME NEW r \in Runs, KillFallback(r) PROVE Fifo!Next
  BY <1>4, KillFallbackFifo DEF Fifo!Next
<1>5. ASSUME NEW r \in Runs, NEW result \in {"ok", "failed"}, FinishTransport(r, result)
      PROVE Fifo!Next
  BY <1>5, FinishTransportFifo DEF Fifo!Next
<1>6. CASE Dispose
  BY <1>6, DisposeFifo DEF Fifo!Next
<1>7. CASE UNCHANGED vars
  BY <1>7 DEF vars, Fifo!vars, LineOf, HolderOf
<1> QED
  BY <1>1, <1>2, <1>3, <1>4, <1>5, <1>6, <1>7 DEF Next

(* The map, the objects and their queues are, key by key, the line that the  *)
(* callers rely on.                                                          *)
THEOREM QueueIsFifo == Spec => ImplementsFifo
BY InitFifo, NextFifo, SessionInvariant, PTL DEF Spec, ImplementsFifo, Fifo!Spec

-----------------------------------------------------------------------------
(* The worktrees of a run, and the patches taken from them.                  *)
Tasks == [Candidates -> [at : Places, attempt : 1..MaxTries, base : 0..MaxHeads]]

\* the attempt of tree k is past the point where its patch is put in place
Spent(k) ==
    LET t == task[k[1]] IN
    k[2] < t.attempt \/ (k[2] = t.attempt /\ t.at \in {"captured", "rest"})

(* A patch is there only after its attempt's capture, and until then the     *)
(* commit recorded for the attempt is the one its tree was added at.         *)
Changing == {"working", "ended", "staged", "diffed"}
Captured ==
    /\ \A k \in Trees : patch[k] # NoPatch => Spent(k)
    /\ \A n \in Candidates : task[n].at \in Changing => task[n].base = origin[n]
    /\ PatchIsWhole

(* Trees are pruned beside an attempt only when the run is deleted, and then *)
(* no attempt follows; otherwise every tree there is was listed.             *)
Quiet ==
    /\ ~early => /\ pruned \/ pruner # "off" => AtWork = {}
                 /\ pruned => dir = {} /\ registered = {} /\ branch = {}
                 /\ pruner # "off" => dir \subseteq names
    /\ early /\ pruned => status = "deleted"
    /\ pruner = "deleting" => status = "over"
    /\ pruner = "sweeping" => status = "working" /\ ~early

(* A request is for a patch whose attempt is over, so that the file can go   *)
(* but not change; the one that was checked still fits, or the user edited.  *)
Applying ==
    /\ marked => touched
    /\ \A r \in Applies :
          /\ request[r].at # "idle" => request[r].of \in Trees /\ Spent(request[r].of)
          /\ request[r].at = "checked" =>
                \/ touched
                \/ patch[request[r].of] = NoPatch
                \/ Fits(request[r].of)
    /\ \A r, s \in Applies : request[r].at = "checked" /\ request[s].at = "checked" => r = s

WorktreesInv == WorktreesTypeOK /\ Captured /\ Quiet /\ Applying

LEMMA GoesTo ==
    ASSUME task \in Tasks, NEW n \in Candidates, NEW p \in Places, Goes(n, p)
    PROVE  /\ task' \in Tasks
           /\ task'[n].at = p /\ task'[n].attempt = task[n].attempt
           /\ task'[n].base = task[n].base
           /\ \A m \in Candidates \ {n} : task'[m] = task[m]
<1>1. task[n] \in [at : Places, attempt : 1..MaxTries, base : 0..MaxHeads]
  BY DEF Tasks
<1>2. task' = [task EXCEPT ![n] = [task[n] EXCEPT !.at = p]]
  BY DEF Goes
<1>3. [task[n] EXCEPT !.at = p] \in [at : Places, attempt : 1..MaxTries, base : 0..MaxHeads]
  BY <1>1
<1>4. task' \in Tasks /\ task'[n] = [task[n] EXCEPT !.at = p]
  BY <1>2, <1>3 DEF Tasks
<1>5. \A m \in Candidates \ {n} : task'[m] = task[m]
  BY <1>2 DEF Tasks
<1> QED
  BY <1>1, <1>4, <1>5

LEMMA TypesKept == ASSUME WorktreesTypeOK, Applying, WorktreesNext PROVE WorktreesTypeOK'
<1>0. task \in Tasks
  BY DEF WorktreesTypeOK, Tasks
<1>1. ASSUME NEW n \in Candidates, TakeNode(n) PROVE WorktreesTypeOK'
  <2>1. task' \in Tasks
    BY <1>0, <1>1, GoesTo DEF TakeNode, CaptureFails, Places
  <2> QED
    BY <1>1, <2>1, WorktreesAssumption
       DEF TakeNode, Tasks, WorktreesTypeOK, Tree, Trees, Removed, Dropped, CaptureFails,
           Answered, NoPatch, LastPass, treeVars, otherVars, pruneVars
<1>2. ASSUME NEW n \in Candidates, RemoveLeftover(n) PROVE WorktreesTypeOK'
  <2>1. task' \in Tasks
    BY <1>0, <1>2, GoesTo DEF RemoveLeftover, CaptureFails, Places
  <2>2. jams' \in 0..MaxJams
    BY <1>2, WorktreesAssumption DEF RemoveLeftover, Removed, WorktreesTypeOK
  <2> QED
    BY <1>2, <2>1, <2>2, WorktreesAssumption
       DEF RemoveLeftover, Tasks, WorktreesTypeOK, Removed, Dropped, CaptureFails, Answered,
           LastPass, treeVars, otherVars, pruneVars
<1>3. ASSUME NEW n \in Candidates, DropLeftover(n) PROVE WorktreesTypeOK'
  <2>1. task' \in Tasks
    BY <1>0, <1>3, GoesTo DEF DropLeftover, CaptureFails, Places
  <2> QED
    BY <1>3, <2>1, WorktreesAssumption
       DEF DropLeftover, Tasks, WorktreesTypeOK, Tree, Trees, Removed, Dropped, CaptureFails,
           Answered, NoPatch, LastPass, treeVars, otherVars, pruneVars
<1>4. ASSUME NEW n \in Candidates, AddTree(n) PROVE WorktreesTypeOK'
  <2>1. task' \in Tasks
    BY <1>0, <1>4, GoesTo DEF AddTree, CaptureFails, Places
  <2>2. Tree(n) \in Trees
    BY <1>0, WorktreesAssumption DEF Tasks, Tree, Trees
  <2>3. origin' \in [Candidates -> 0..MaxHeads]
    <3>1. head \in 0..MaxHeads /\ (origin' = origin \/ origin' = [origin EXCEPT ![n] = head])
      BY <1>4, WorktreesAssumption DEF AddTree, WorktreesTypeOK
    <3> QED
      BY <3>1 DEF WorktreesTypeOK
  <2>4. dir' \subseteq Trees /\ registered' \subseteq Trees /\ branch' \subseteq Trees
    BY <1>4, <2>2 DEF AddTree, WorktreesTypeOK
  <2> QED
    BY <1>4, <2>1, <2>2, <2>3, <2>4, WorktreesAssumption
       DEF AddTree, Tasks, WorktreesTypeOK, Removed, Dropped, CaptureFails, Answered, LastPass,
           treeVars, otherVars, pruneVars
<1>5. ASSUME NEW n \in Candidates, ReadBase(n) PROVE WorktreesTypeOK'
  <2>1. task' \in Tasks
    <3>1. CASE Tree(n) \notin dir
      BY <1>0, <1>5, <3>1, GoesTo DEF ReadBase, Places
    <3>2. CASE Tree(n) \in dir
      <4> DEFINE place == IF status = "working" THEN "working" ELSE "rest"
                 read  == [task[n] EXCEPT !.base = origin[n], !.at = place]
      <4>1. task' = [task EXCEPT ![n] = read]
        BY <1>5, <3>2 DEF ReadBase
      <4>2. origin[n] \in 0..MaxHeads /\ place \in Places
        BY DEF WorktreesTypeOK, Places
      <4>3. read \in [at : Places, attempt : 1..MaxTries, base : 0..MaxHeads]
        BY <1>0, <4>2 DEF Tasks
      <4> HIDE DEF read
      <4> QED
        BY <1>0, <4>1, <4>3 DEF Tasks
    <3> QED
      BY <3>1, <3>2
  <2> QED
    BY <1>5, <2>1, WorktreesAssumption
       DEF ReadBase, Tasks, WorktreesTypeOK, Tree, Trees, Removed, Dropped, CaptureFails,
           Answered, NoPatch, LastPass, treeVars, otherVars, pruneVars
<1>6. ASSUME NEW n \in Candidates, AgentWorks(n) PROVE WorktreesTypeOK'
  <2>1. content' \in [Candidates -> 0..MaxWork]
    BY <1>6, WorktreesAssumption DEF AgentWorks, WorktreesTypeOK
  <2> QED
    BY <1>6, <2>1, WorktreesAssumption
       DEF AgentWorks, WorktreesTypeOK, Removed, Dropped, Answered, LastPass, treeVars,
           otherVars, pruneVars
<1>7. ASSUME NEW n \in Candidates, AgentEnds(n) PROVE WorktreesTypeOK'
  <2>1. task' \in Tasks
    BY <1>0, <1>7, GoesTo DEF AgentEnds, CaptureFails, Places
  <2> QED
    BY <1>7, <2>1, WorktreesAssumption
       DEF AgentEnds, Tasks, WorktreesTypeOK, Tree, Trees, Removed, Dropped, CaptureFails,
           Answered, NoPatch, LastPass, treeVars, otherVars, pruneVars
<1>8. ASSUME NEW n \in Candidates, StageAll(n) PROVE WorktreesTypeOK'
  <2>1. task' \in Tasks
    BY <1>0, <1>8, GoesTo DEF StageAll, CaptureFails, Places
  <2> QED
    BY <1>8, <2>1, WorktreesAssumption
       DEF StageAll, Tasks, WorktreesTypeOK, Tree, Trees, Removed, Dropped, CaptureFails,
           Answered, NoPatch, LastPass, treeVars, otherVars, pruneVars
<1>9. ASSUME NEW n \in Candidates, DiffIndex(n) PROVE WorktreesTypeOK'
  <2>1. task' \in Tasks
    BY <1>0, <1>9, GoesTo DEF DiffIndex, CaptureFails, Places
  <2> QED
    BY <1>9, <2>1, WorktreesAssumption
       DEF DiffIndex, Tasks, WorktreesTypeOK, Tree, Trees, Removed, Dropped, CaptureFails,
           Answered, NoPatch, LastPass, treeVars, otherVars, pruneVars
<1>10. ASSUME NEW n \in Candidates, RenamePatch(n) PROVE WorktreesTypeOK'
  <2>1. task' \in Tasks
    BY <1>0, <1>10, GoesTo DEF RenamePatch, CaptureFails, Places
  <2>2. Tree(n) \in Trees
    BY <1>0, WorktreesAssumption DEF Tasks, Tree, Trees
  <2>3. patch' \in [Trees -> [base : 0..MaxHeads, work : 0..MaxWork]]
    <3>1. task[n].base \in 0..MaxHeads /\ staged[n] \in 0..MaxWork
      BY <1>0 DEF Tasks, WorktreesTypeOK
    <3> DEFINE made == [base |-> task[n].base, work |-> staged[n]]
    <3>2. made \in [base : 0..MaxHeads, work : 0..MaxWork]
      BY <3>1
    <3>3. patch' = patch \/ patch' = [patch EXCEPT ![Tree(n)] = made]
      BY <1>10 DEF RenamePatch, CaptureFails
    <3> HIDE DEF made
    <3> QED
      BY <3>2, <3>3 DEF WorktreesTypeOK
  <2> QED
    BY <1>10, <2>1, <2>2, <2>3, WorktreesAssumption
       DEF RenamePatch, Tasks, WorktreesTypeOK, Removed, Dropped, CaptureFails, Answered,
           LastPass, treeVars, otherVars, pruneVars
<1>11. ASSUME NEW n \in Candidates, Verify(n) PROVE WorktreesTypeOK'
  <2>1. task' \in Tasks
    BY <1>0, <1>11, GoesTo DEF Verify, CaptureFails, Places
  <2> QED
    BY <1>11, <2>1, WorktreesAssumption
       DEF Verify, Tasks, WorktreesTypeOK, Tree, Trees, Removed, Dropped, CaptureFails,
           Answered, NoPatch, LastPass, treeVars, otherVars, pruneVars
<1>12. ASSUME NEW n \in Candidates, Retry(n) PROVE WorktreesTypeOK'
  <2>1. task' \in Tasks
    BY <1>0, <1>12, WorktreesAssumption DEF Retry, Goes, WorktreesTypeOK, Tasks, Places
  <2>2. /\ origin' \in [Candidates -> 0..MaxHeads]
        /\ content' \in [Candidates -> 0..MaxWork] /\ staged' \in [Candidates -> 0..MaxWork]
    BY <1>12, WorktreesAssumption DEF Retry, WorktreesTypeOK
  <2> QED
    BY <1>12, <2>1, <2>2, WorktreesAssumption
       DEF Retry, Tasks, WorktreesTypeOK, Removed, Dropped, CaptureFails, Answered, LastPass,
           treeVars, otherVars, pruneVars
<1>13. ASSUME NEW r \in Applies, NEW n \in Candidates, Ask(r, n) PROVE WorktreesTypeOK'
  BY <1>13, WorktreesAssumption
     DEF Ask, WorktreesTypeOK, Tree, Trees, Removed, Dropped, CaptureFails, Answered, NoPatch,
         LastPass, treeVars, otherVars, pruneVars
<1>14. ASSUME NEW r \in Applies, Check(r) PROVE WorktreesTypeOK'
  BY <1>14, WorktreesAssumption
     DEF Check, WorktreesTypeOK, Tree, Trees, Removed, Dropped, CaptureFails, Answered,
         NoPatch, LastPass, treeVars, otherVars, pruneVars
<1>15. ASSUME NEW r \in Applies, Apply(r) PROVE WorktreesTypeOK'
  <2>1. request[r].of \in Trees
    BY <1>15 DEF Apply, Applying
  <2>2. applied' \subseteq Trees
    BY <1>15, <2>1 DEF Apply, WorktreesTypeOK
  <2> QED
    BY <1>15, <2>1, <2>2, WorktreesAssumption
       DEF Apply, WorktreesTypeOK, Removed, Dropped, Answered, LastPass, treeVars, otherVars,
           pruneVars
<1>16. ASSUME NEW z \in Trees, PruneTree(z) PROVE WorktreesTypeOK'
  <2>1. jams' \in 0..MaxJams
    BY <1>16, WorktreesAssumption DEF PruneTree, Removed, WorktreesTypeOK
  <2> QED
    BY <1>16, <2>1, WorktreesAssumption
       DEF PruneTree, WorktreesTypeOK, Removed, Dropped, Answered, LastPass, treeVars,
           otherVars, pruneVars
<1>17. ASSUME RunOver PROVE WorktreesTypeOK'
  <2>1. task' \in Tasks
    BY <1>0, <1>17, WorktreesAssumption DEF RunOver, Goes, WorktreesTypeOK, Tasks, Places
  <2> QED
    BY <1>17, <2>1, WorktreesAssumption
       DEF RunOver, Tasks, WorktreesTypeOK, Tree, Trees, Removed, Dropped, CaptureFails,
           Answered, NoPatch, LastPass, treeVars, otherVars, pruneVars
<1>18. ASSUME DeleteRun PROVE WorktreesTypeOK'
  BY <1>18, WorktreesAssumption
     DEF DeleteRun, WorktreesTypeOK, Tree, Trees, Removed, Dropped, CaptureFails, Answered,
         NoPatch, LastPass, treeVars, otherVars, pruneVars
<1>19. ASSUME Crash PROVE WorktreesTypeOK'
  <2>1. task' \in Tasks
    BY <1>0, <1>19, WorktreesAssumption DEF Crash, Goes, WorktreesTypeOK, Tasks, Places
  <2>2. request' \in [Applies -> [at : {"idle", "waiting", "checked"}, of : Trees \cup {<<>>}]]
    BY <1>19 DEF Crash, Answered
  <2> QED
    BY <1>19, <2>1, <2>2, WorktreesAssumption
       DEF Crash, Tasks, WorktreesTypeOK, Removed, Dropped, CaptureFails, Answered, LastPass,
           treeVars, otherVars, pruneVars
<1>20. ASSUME FinishPrune PROVE WorktreesTypeOK'
  <2>1. patch' \in [Trees -> [base : 0..MaxHeads, work : 0..MaxWork]]
    BY <1>20, WorktreesAssumption DEF FinishPrune, NoPatch, WorktreesTypeOK
  <2> QED
    BY <1>20, <2>1, WorktreesAssumption
       DEF FinishPrune, WorktreesTypeOK, Removed, Dropped, Answered, LastPass, treeVars,
           otherVars, pruneVars
<1>21. ASSUME Edit PROVE WorktreesTypeOK'
  BY <1>21, WorktreesAssumption
     DEF Edit, WorktreesTypeOK, Tree, Trees, Removed, Dropped, CaptureFails, Answered, NoPatch,
         LastPass, treeVars, otherVars, pruneVars
<1>22. ASSUME Commit PROVE WorktreesTypeOK'
  <2>1. head' \in 1..MaxHeads
    BY <1>22, WorktreesAssumption DEF Commit, WorktreesTypeOK
  <2> QED
    BY <1>22, <2>1, WorktreesAssumption
       DEF Commit, WorktreesTypeOK, Removed, Dropped, Answered, LastPass, treeVars, otherVars,
           pruneVars
<1> QED
  BY <1>1, <1>2, <1>3, <1>4, <1>5, <1>6, <1>7, <1>8, <1>9, <1>10, <1>11, <1>12, <1>13, <1>14,
     <1>15, <1>16, <1>17, <1>18, <1>19, <1>20, <1>21, <1>22
     DEF WorktreesNext

LEMMA SpentGoes ==
    ASSUME task \in Tasks, NEW n \in Candidates, NEW p \in Places, Goes(n, p),
           task[n].at \notin {"captured", "rest"} \/ p \in {"captured", "rest"}
    PROVE  \A k \in Trees : Spent(k) => Spent(k)'
<1> SUFFICES ASSUME NEW k \in Trees, Spent(k) PROVE Spent(k)'
  OBVIOUS
<1>1. k[1] \in Candidates /\ k[2] \in Nat
  BY DEF Trees
<1>2. CASE k[1] = n
  BY <1>2, GoesTo DEF Spent
<1>3. CASE k[1] # n
  <2>1. task'[k[1]] = task[k[1]]
    BY <1>1, <1>3, GoesTo
  <2> QED
    BY <2>1 DEF Spent
<1> QED
  BY <1>2, <1>3

LEMMA SpentStays ==
    ASSUME WorktreesTypeOK, WorktreesNext PROVE \A k \in Trees : Spent(k) => Spent(k)'
<1>0. task \in Tasks
  BY DEF WorktreesTypeOK, Tasks
<1>1. ASSUME NEW n \in Candidates, TakeNode(n) PROVE \A k \in Trees : Spent(k) => Spent(k)'
  BY <1>0, <1>1, SpentGoes DEF TakeNode, CaptureFails, Places
<1>2. ASSUME NEW n \in Candidates, RemoveLeftover(n)
      PROVE \A k \in Trees : Spent(k) => Spent(k)'
  BY <1>0, <1>2, SpentGoes DEF RemoveLeftover, CaptureFails, Places
<1>3. ASSUME NEW n \in Candidates, DropLeftover(n) PROVE \A k \in Trees : Spent(k) => Spent(k)'
  BY <1>0, <1>3, SpentGoes DEF DropLeftover, CaptureFails, Places
<1>4. ASSUME NEW n \in Candidates, AddTree(n) PROVE \A k \in Trees : Spent(k) => Spent(k)'
  BY <1>0, <1>4, SpentGoes DEF AddTree, CaptureFails, Places
<1>5. ASSUME NEW n \in Candidates, ReadBase(n) PROVE \A k \in Trees : Spent(k) => Spent(k)'
  BY <1>0, <1>5 DEF ReadBase, Goes, Tasks, Spent, Trees
<1>6. ASSUME NEW n \in Candidates, AgentWorks(n) PROVE \A k \in Trees : Spent(k) => Spent(k)'
  BY <1>6 DEF AgentWorks, Spent, treeVars, otherVars, pruneVars
<1>7. ASSUME NEW n \in Candidates, AgentEnds(n) PROVE \A k \in Trees : Spent(k) => Spent(k)'
  BY <1>0, <1>7, SpentGoes DEF AgentEnds, CaptureFails, Places
<1>8. ASSUME NEW n \in Candidates, StageAll(n) PROVE \A k \in Trees : Spent(k) => Spent(k)'
  BY <1>0, <1>8, SpentGoes DEF StageAll, CaptureFails, Places
<1>9. ASSUME NEW n \in Candidates, DiffIndex(n) PROVE \A k \in Trees : Spent(k) => Spent(k)'
  BY <1>0, <1>9, SpentGoes DEF DiffIndex, CaptureFails, Places
<1>10. ASSUME NEW n \in Candidates, RenamePatch(n) PROVE \A k \in Trees : Spent(k) => Spent(k)'
  BY <1>0, <1>10, SpentGoes DEF RenamePatch, CaptureFails, Places
<1>11. ASSUME NEW n \in Candidates, Verify(n) PROVE \A k \in Trees : Spent(k) => Spent(k)'
  BY <1>0, <1>11, SpentGoes DEF Verify, CaptureFails, Places
<1>12. ASSUME NEW n \in Candidates, Retry(n) PROVE \A k \in Trees : Spent(k) => Spent(k)'
  BY <1>0, <1>12 DEF Retry, Goes, Tasks, Spent, Trees
<1>13. ASSUME NEW r \in Applies, NEW n \in Candidates, Ask(r, n)
       PROVE \A k \in Trees : Spent(k) => Spent(k)'
  BY <1>13 DEF Ask, Spent, treeVars, otherVars, pruneVars
<1>14. ASSUME NEW r \in Applies, Check(r) PROVE \A k \in Trees : Spent(k) => Spent(k)'
  BY <1>14 DEF Check, Spent, treeVars, otherVars, pruneVars
<1>15. ASSUME NEW r \in Applies, Apply(r) PROVE \A k \in Trees : Spent(k) => Spent(k)'
  BY <1>15 DEF Apply, Spent, treeVars, otherVars, pruneVars
<1>16. ASSUME NEW z \in Trees, PruneTree(z) PROVE \A k \in Trees : Spent(k) => Spent(k)'
  BY <1>16 DEF PruneTree, Spent, treeVars, otherVars, pruneVars
<1>17. ASSUME RunOver PROVE \A k \in Trees : Spent(k) => Spent(k)'
  BY <1>0, <1>17 DEF RunOver, Goes, Tasks, Spent, Trees
<1>18. ASSUME DeleteRun PROVE \A k \in Trees : Spent(k) => Spent(k)'
  BY <1>18 DEF DeleteRun, Spent, treeVars, otherVars, pruneVars
<1>19. ASSUME Crash PROVE \A k \in Trees : Spent(k) => Spent(k)'
  BY <1>0, <1>19 DEF Crash, Goes, Tasks, Spent, Trees
<1>20. ASSUME FinishPrune PROVE \A k \in Trees : Spent(k) => Spent(k)'
  BY <1>20 DEF FinishPrune, Spent, treeVars, otherVars, pruneVars
<1>21. ASSUME Edit PROVE \A k \in Trees : Spent(k) => Spent(k)'
  BY <1>21 DEF Edit, Spent, treeVars, otherVars, pruneVars
<1>22. ASSUME Commit PROVE \A k \in Trees : Spent(k) => Spent(k)'
  BY <1>22 DEF Commit, Spent, treeVars, otherVars, pruneVars
<1> QED
  BY <1>1, <1>2, <1>3, <1>4, <1>5, <1>6, <1>7, <1>8, <1>9, <1>10, <1>11, <1>12, <1>13, <1>14,
     <1>15, <1>16, <1>17, <1>18, <1>19, <1>20, <1>21, <1>22
     DEF WorktreesNext

LEMMA QuietBusy ==
    ASSUME Quiet, NEW n \in Candidates, task[n].at \notin {"queued", "rest"},
           UNCHANGED <<status, pruner, pruned, early>>
    PROVE  Quiet'
<1>1. AtWork # {}
  BY DEF AtWork
<1> QED
  BY <1>1 DEF Quiet

LEMMA QuietKept ==
    ASSUME WorktreesTypeOK, Quiet, WorktreesNext PROVE Quiet'
<1>0. task \in Tasks
  BY DEF WorktreesTypeOK, Tasks
<1>1. ASSUME NEW n \in Candidates, TakeNode(n) PROVE Quiet'
  BY <1>1 DEF TakeNode, Quiet
<1>2. ASSUME NEW n \in Candidates, RemoveLeftover(n) PROVE Quiet'
  BY <1>2, QuietBusy DEF RemoveLeftover, treeVars, otherVars, pruneVars
<1>3. ASSUME NEW n \in Candidates, DropLeftover(n) PROVE Quiet'
  BY <1>3, QuietBusy DEF DropLeftover, treeVars, otherVars, pruneVars
<1>4. ASSUME NEW n \in Candidates, AddTree(n) PROVE Quiet'
  BY <1>4, QuietBusy DEF AddTree, treeVars, otherVars, pruneVars
<1>5. ASSUME NEW n \in Candidates, ReadBase(n) PROVE Quiet'
  BY <1>5, QuietBusy DEF ReadBase, treeVars, otherVars, pruneVars
<1>6. ASSUME NEW n \in Candidates, AgentWorks(n) PROVE Quiet'
  BY <1>6, QuietBusy DEF AgentWorks, treeVars, otherVars, pruneVars
<1>7. ASSUME NEW n \in Candidates, AgentEnds(n) PROVE Quiet'
  BY <1>7, QuietBusy DEF AgentEnds, treeVars, otherVars, pruneVars
<1>8. ASSUME NEW n \in Candidates, StageAll(n) PROVE Quiet'
  BY <1>8, QuietBusy DEF StageAll, treeVars, otherVars, pruneVars
<1>9. ASSUME NEW n \in Candidates, DiffIndex(n) PROVE Quiet'
  BY <1>9, QuietBusy DEF DiffIndex, treeVars, otherVars, pruneVars
<1>10. ASSUME NEW n \in Candidates, RenamePatch(n) PROVE Quiet'
  BY <1>10, QuietBusy DEF RenamePatch, treeVars, otherVars, pruneVars
<1>11. ASSUME NEW n \in Candidates, Verify(n) PROVE Quiet'
  BY <1>11, QuietBusy DEF Verify, treeVars, otherVars, pruneVars
<1>12. ASSUME NEW n \in Candidates, Retry(n) PROVE Quiet'
  <2>1. AtWork' \subseteq AtWork
    BY <1>0, <1>12 DEF Retry, Tasks, AtWork
  <2> QED
    BY <1>12, <2>1 DEF Retry, Quiet, treeVars, otherVars, pruneVars
<1>13. ASSUME NEW r \in Applies, NEW n \in Candidates, Ask(r, n) PROVE Quiet'
  <2>1. AtWork' = AtWork
    BY <1>13 DEF Ask, AtWork, treeVars, otherVars, pruneVars
  <2> QED
    BY <1>13, <2>1 DEF Ask, Quiet, Removed, Dropped, treeVars, otherVars, pruneVars
<1>14. ASSUME NEW r \in Applies, Check(r) PROVE Quiet'
  <2>1. AtWork' = AtWork
    BY <1>14 DEF Check, AtWork, treeVars, otherVars, pruneVars
  <2> QED
    BY <1>14, <2>1 DEF Check, Quiet, Removed, Dropped, treeVars, otherVars, pruneVars
<1>15. ASSUME NEW r \in Applies, Apply(r) PROVE Quiet'
  <2>1. AtWork' = AtWork
    BY <1>15 DEF Apply, AtWork, treeVars, otherVars, pruneVars
  <2> QED
    BY <1>15, <2>1 DEF Apply, Quiet, Removed, Dropped, treeVars, otherVars, pruneVars
<1>16. ASSUME NEW z \in Trees, PruneTree(z) PROVE Quiet'
  <2>1. AtWork' = AtWork
    BY <1>16 DEF PruneTree, AtWork, treeVars, otherVars, pruneVars
  <2> QED
    BY <1>16, <2>1 DEF PruneTree, Quiet, Removed, Dropped, treeVars, otherVars, pruneVars
<1>17. ASSUME RunOver PROVE Quiet'
  <2>1. AtWork' \subseteq AtWork
    BY <1>0, <1>17 DEF RunOver, Tasks, AtWork
  <2>2. pruner' # "off" => AtWork' = {}
    BY <1>0, <1>17 DEF RunOver, Tasks, AtWork
  <2> QED
    BY <1>17, <2>1, <2>2 DEF RunOver, Quiet, WorktreesTypeOK, treeVars, otherVars, pruneVars
<1>18. ASSUME DeleteRun PROVE Quiet'
  <2>1. AtWork' = AtWork
    BY <1>18 DEF DeleteRun, AtWork, treeVars, otherVars, pruneVars
  <2> QED
    BY <1>18, <2>1 DEF DeleteRun, Quiet, Removed, Dropped, treeVars, otherVars, pruneVars
<1>19. ASSUME Crash PROVE Quiet'
  <2>1. AtWork' \subseteq AtWork
    BY <1>0, <1>19 DEF Crash, Tasks, AtWork
  <2>2. pruner' # "off" => AtWork' = {}
    BY <1>0, <1>19 DEF Crash, Tasks, AtWork
  <2> QED
    BY <1>19, <2>1, <2>2 DEF Crash, Quiet, WorktreesTypeOK, treeVars, otherVars, pruneVars
<1>20. ASSUME FinishPrune PROVE Quiet'
  <2>1. AtWork' = AtWork
    BY <1>20 DEF FinishPrune, AtWork
  <2>2. ~early => dir = {} /\ registered' = {} /\ branch' = {}
    BY <1>20 DEF FinishPrune, Quiet, LastPass, Dropped
  <2> QED
    BY <1>20, <2>1, <2>2 DEF FinishPrune, Quiet, WorktreesTypeOK, treeVars, otherVars,
           pruneVars
<1>21. ASSUME Edit PROVE Quiet'
  <2>1. AtWork' = AtWork
    BY <1>21 DEF Edit, AtWork, treeVars, otherVars, pruneVars
  <2> QED
    BY <1>21, <2>1 DEF Edit, Quiet, Removed, Dropped, treeVars, otherVars, pruneVars
<1>22. ASSUME Commit PROVE Quiet'
  <2>1. AtWork' = AtWork
    BY <1>22 DEF Commit, AtWork, treeVars, otherVars, pruneVars
  <2> QED
    BY <1>22, <2>1 DEF Commit, Quiet, Removed, Dropped, treeVars, otherVars, pruneVars
<1> QED
  BY <1>1, <1>2, <1>3, <1>4, <1>5, <1>6, <1>7, <1>8, <1>9, <1>10, <1>11, <1>12, <1>13, <1>14,
     <1>15, <1>16, <1>17, <1>18, <1>19, <1>20, <1>21, <1>22
     DEF WorktreesNext

LEMMA CapturedGoes ==
    ASSUME WorktreesTypeOK, Captured, NEW n \in Candidates, NEW p \in Places, Goes(n, p),
           UNCHANGED <<patch, origin, staged>>, p \in Changing => task[n].at \in Changing,
           task[n].at \notin {"captured", "rest"} \/ p \in {"captured", "rest"}
    PROVE  Captured'
<1>0. task \in Tasks
  BY DEF WorktreesTypeOK, Tasks
<1>1. \A k \in Trees : Spent(k) => Spent(k)'
  BY <1>0, SpentGoes
<1>2. \A m \in Candidates : task'[m].attempt = task[m].attempt /\ task'[m].base = task[m].base
  BY <1>0, GoesTo
<1>3. \A m \in Candidates : task'[m].at \in Changing => task[m].at \in Changing
  BY <1>0, GoesTo
<1>4. PatchIsWhole'
  BY <1>2 DEF Captured, PatchIsWhole, Tree
<1> QED
  BY <1>1, <1>2, <1>3, <1>4 DEF Captured

LEMMA StillWhole ==
    ASSUME Captured, \A k \in Trees : Spent(k) => Spent(k)',
           UNCHANGED <<patch, origin, staged>>,
           \A m \in Candidates : /\ task'[m].attempt = task[m].attempt
                                 /\ task'[m].base = task[m].base
                                 /\ task'[m].at \in Changing => task[m].at \in Changing
    PROVE  Captured'
<1>1. PatchIsWhole'
  BY DEF Captured, PatchIsWhole, Tree
<1> QED
  BY <1>1 DEF Captured

LEMMA NoneYet ==
    ASSUME task \in Tasks, Captured, NEW n \in Candidates,
           task[n].at \notin {"captured", "rest"}
    PROVE  Tree(n) \in Trees /\ ~Spent(Tree(n)) /\ patch[Tree(n)] = NoPatch
<1>1. /\ Tree(n) \in Trees /\ Tree(n)[1] = n /\ Tree(n)[2] = task[n].attempt
      /\ task[n].attempt \in Nat
  BY WorktreesAssumption DEF Tasks, Tree, Trees
<1>2. ~Spent(Tree(n))
  BY <1>1 DEF Spent
<1> QED
  BY <1>1, <1>2 DEF Captured

LEMMA CapturedKept ==
    ASSUME WorktreesTypeOK, Captured, WorktreesNext PROVE Captured'
<1>0. task \in Tasks
  BY DEF WorktreesTypeOK, Tasks
<1>1. ASSUME NEW n \in Candidates, TakeNode(n) PROVE Captured'
  BY <1>1, CapturedGoes
     DEF TakeNode, CaptureFails, Changing, Places, treeVars, otherVars, pruneVars
<1>2. ASSUME NEW n \in Candidates, RemoveLeftover(n) PROVE Captured'
  BY <1>2, CapturedGoes
     DEF RemoveLeftover, CaptureFails, Changing, Places, treeVars, otherVars, pruneVars
<1>3. ASSUME NEW n \in Candidates, DropLeftover(n) PROVE Captured'
  BY <1>3, CapturedGoes
     DEF DropLeftover, CaptureFails, Changing, Places, treeVars, otherVars, pruneVars
<1>4. ASSUME NEW n \in Candidates, AddTree(n) PROVE Captured'
  <2>1. CASE task'[n].at = "rest"
    BY <1>0, <1>4, <2>1, GoesTo, CapturedGoes
       DEF AddTree, Changing, Places, treeVars, otherVars, pruneVars
  <2>2. CASE task'[n].at # "rest"
    <3>1. /\ Goes(n, "added") /\ origin' = [origin EXCEPT ![n] = head]
          /\ UNCHANGED <<patch, staged>>
      BY <1>0, <1>4, <2>2, GoesTo DEF AddTree, Places
    <3>2. /\ task'[n].at = "added" /\ task'[n].attempt = task[n].attempt
          /\ \A m \in Candidates \ {n} : task'[m] = task[m]
      BY <1>0, <3>1, GoesTo DEF Places
    <3>3. patch[Tree(n)] = NoPatch /\ Tree(n)' = Tree(n)
      BY <1>0, <1>4, <3>2, NoneYet DEF AddTree, Tree
    <3>4. \A m \in Candidates \ {n} : origin'[m] = origin[m] /\ Tree(m)' = Tree(m)
      BY <3>1, <3>2 DEF WorktreesTypeOK, Tree
    <3>5. PatchIsWhole'
      BY <3>1, <3>3, <3>4 DEF Captured, PatchIsWhole
    <3>6. \A m \in Candidates : task'[m].at \in Changing => task'[m].base = origin'[m]
      BY <3>2, <3>4 DEF Captured, Changing
    <3> QED
      BY <1>4, <3>1, <3>5, <3>6, SpentStays DEF Captured
  <2> QED
    BY <2>1, <2>2
<1>5. ASSUME NEW n \in Candidates, ReadBase(n) PROVE Captured'
  <2>1. CASE Tree(n) \notin dir
    BY <1>5, <2>1, CapturedGoes DEF ReadBase, Changing, Places, treeVars, otherVars, pruneVars
  <2>2. CASE Tree(n) \in dir
    <3>1. /\ task'[n].base = origin[n] /\ task'[n].attempt = task[n].attempt
          /\ \A m \in Candidates \ {n} : task'[m] = task[m]
          /\ UNCHANGED <<patch, origin, staged>>
      BY <1>0, <1>5, <2>2 DEF ReadBase, Tasks, treeVars, otherVars, pruneVars
    <3>2. PatchIsWhole'
      BY <3>1 DEF Captured, PatchIsWhole, Tree
    <3> QED
      BY <1>5, <3>1, <3>2, SpentStays DEF Captured
  <2> QED
    BY <2>1, <2>2
<1>6. ASSUME NEW n \in Candidates, AgentWorks(n) PROVE Captured'
  BY <1>6, SpentStays, StillWhole DEF AgentWorks, treeVars, otherVars, pruneVars
<1>7. ASSUME NEW n \in Candidates, AgentEnds(n) PROVE Captured'
  BY <1>7, CapturedGoes
     DEF AgentEnds, CaptureFails, Changing, Places, treeVars, otherVars, pruneVars
<1>8. ASSUME NEW n \in Candidates, StageAll(n) PROVE Captured'
  <2>1. CASE UNCHANGED staged
    BY <1>8, <2>1, CapturedGoes
       DEF StageAll, CaptureFails, Changing, Places, treeVars, otherVars, pruneVars
  <2>2. CASE staged' # staged
    <3>1. /\ Goes(n, "staged") /\ staged' = [staged EXCEPT ![n] = content[n]]
          /\ UNCHANGED <<patch, origin>>
      BY <1>8, <2>2 DEF StageAll, CaptureFails
    <3>2. /\ task'[n].attempt = task[n].attempt /\ task'[n].base = task[n].base
          /\ \A m \in Candidates \ {n} : task'[m] = task[m]
      BY <1>0, <3>1, GoesTo DEF Places
    <3>3. patch[Tree(n)] = NoPatch /\ Tree(n)' = Tree(n) /\ task[n].base = origin[n]
      BY <1>0, <1>8, <3>2, NoneYet DEF StageAll, Tree, Captured, Changing
    <3>4. \A m \in Candidates \ {n} : staged'[m] = staged[m] /\ Tree(m)' = Tree(m)
      BY <3>1, <3>2 DEF WorktreesTypeOK, Tree
    <3>5. PatchIsWhole'
      BY <3>1, <3>3, <3>4 DEF Captured, PatchIsWhole
    <3>6. \A m \in Candidates : task'[m].at \in Changing => task'[m].base = origin'[m]
      BY <3>1, <3>2, <3>3 DEF Captured
    <3> QED
      BY <1>8, <3>1, <3>5, <3>6, SpentStays DEF Captured
  <2> QED
    BY <2>1, <2>2
<1>9. ASSUME NEW n \in Candidates, DiffIndex(n) PROVE Captured'
  BY <1>9, CapturedGoes
     DEF DiffIndex, CaptureFails, Changing, Places, treeVars, otherVars, pruneVars
<1>10. ASSUME NEW n \in Candidates, RenamePatch(n) PROVE Captured'
  <2>1. CASE UNCHANGED patch
    BY <1>10, <2>1, CapturedGoes
       DEF RenamePatch, CaptureFails, Changing, Places, treeVars, otherVars, pruneVars
  <2>2. CASE patch' # patch
    <3> DEFINE made == [base |-> task[n].base, work |-> staged[n]]
    <3>1. /\ Goes(n, "captured") /\ patch' = [patch EXCEPT ![Tree(n)] = made]
          /\ UNCHANGED <<staged, origin>>
      BY <1>10, <2>2 DEF RenamePatch, CaptureFails
    <3>2. /\ task'[n].at = "captured" /\ task'[n].attempt = task[n].attempt
          /\ \A m \in Candidates \ {n} : task'[m] = task[m]
      BY <1>0, <3>1, GoesTo DEF Places
    <3>3. Tree(n) \in Trees /\ Tree(n)' = Tree(n) /\ task[n].base = origin[n]
      BY <1>0, <1>10, <3>2, NoneYet DEF RenamePatch, Tree, Captured, Changing
    <3>4. made = [base |-> origin[n], work |-> staged[n]]
      BY <3>3
    <3> HIDE DEF made
    <3>5. /\ patch'[Tree(n)] = made
          /\ \A k \in Trees \ {Tree(n)} : patch'[k] = patch[k]
      BY <3>1, <3>3 DEF WorktreesTypeOK
    <3>6. \A m \in Candidates \ {n} : Tree(m)' = Tree(m) /\ Tree(m) \in Trees \ {Tree(n)}
      BY <1>0, <3>2, WorktreesAssumption DEF Tree, Trees, Tasks
    <3>7. PatchIsWhole'
      BY <3>1, <3>3, <3>4, <3>5, <3>6 DEF Captured, PatchIsWhole
    <3>8. \A m \in Candidates : task'[m].at \in Changing => task'[m].base = origin'[m]
      BY <3>1, <3>2 DEF Captured, Changing
    <3> QED
      <4>1. ASSUME NEW k \in Trees, patch'[k] # NoPatch PROVE Spent(k)'
        <5>1. CASE k = Tree(n)
          BY <3>2, <5>1 DEF Spent, Tree
        <5>2. CASE k # Tree(n)
          BY <3>5, <4>1, <5>2, SpentStays DEF Captured
        <5> QED
          BY <5>1, <5>2
      <4> QED
        BY <3>7, <3>8, <4>1 DEF Captured
  <2> QED
    BY <2>1, <2>2
<1>11. ASSUME NEW n \in Candidates, Verify(n) PROVE Captured'
  BY <1>11, CapturedGoes
     DEF Verify, CaptureFails, Changing, Places, treeVars, otherVars, pruneVars
<1>12. ASSUME NEW n \in Candidates, Retry(n) PROVE Captured'
  <2>1. /\ task'[n].at = "queued" /\ task'[n].attempt = task[n].attempt + 1
        /\ task'[n].attempt \in 1..MaxTries
        /\ \A m \in Candidates \ {n} : task'[m] = task[m]
        /\ task[n].attempt \in Nat
    BY <1>0, <1>12, WorktreesAssumption DEF Retry, Tasks
  <2>2. /\ UNCHANGED patch
        /\ \A m \in Candidates \ {n} : origin'[m] = origin[m] /\ staged'[m] = staged[m]
    BY <1>12 DEF Retry, WorktreesTypeOK
  <2>3. \A m \in Candidates \ {n} : Tree(m)' = Tree(m)
    BY <2>1 DEF Tree
  <2>4. patch[Tree(n)'] = NoPatch
    <3>1. Tree(n)' \in Trees /\ Tree(n)'[1] = n /\ Tree(n)'[2] = task[n].attempt + 1
      BY <2>1 DEF Tree, Trees
    <3>2. ~Spent(Tree(n)')
      BY <2>1, <3>1 DEF Spent
    <3> QED
      BY <3>1, <3>2 DEF Captured
  <2>5. PatchIsWhole'
    BY <2>2, <2>3, <2>4 DEF Captured, PatchIsWhole
  <2>6. \A m \in Candidates : task'[m].at \in Changing => task'[m].base = origin'[m]
    BY <2>1, <2>2 DEF Captured, Changing
  <2> QED
    BY <1>12, <2>2, <2>5, <2>6, SpentStays DEF Captured
<1>13. ASSUME NEW r \in Applies, NEW n \in Candidates, Ask(r, n) PROVE Captured'
  BY <1>13, SpentStays, StillWhole DEF Ask, treeVars, otherVars, pruneVars
<1>14. ASSUME NEW r \in Applies, Check(r) PROVE Captured'
  BY <1>14, SpentStays, StillWhole DEF Check, treeVars, otherVars, pruneVars
<1>15. ASSUME NEW r \in Applies, Apply(r) PROVE Captured'
  BY <1>15, SpentStays, StillWhole DEF Apply, treeVars, otherVars, pruneVars
<1>16. ASSUME NEW z \in Trees, PruneTree(z) PROVE Captured'
  BY <1>16, SpentStays, StillWhole DEF PruneTree, treeVars, otherVars, pruneVars
<1>17. ASSUME RunOver PROVE Captured'
  <2>1. \A m \in Candidates : /\ task'[m].attempt = task[m].attempt
                              /\ task'[m].base = task[m].base
                              /\ task'[m].at \in Changing => task[m].at \in Changing
    BY <1>0, <1>17 DEF RunOver, Tasks, Changing
  <2> QED
    BY <1>17, <2>1, SpentStays, StillWhole DEF RunOver, treeVars, otherVars, pruneVars
<1>18. ASSUME DeleteRun PROVE Captured'
  BY <1>18, SpentStays, StillWhole DEF DeleteRun, treeVars, otherVars, pruneVars
<1>19. ASSUME Crash PROVE Captured'
  <2>1. \A m \in Candidates : /\ task'[m].attempt = task[m].attempt
                              /\ task'[m].base = task[m].base
                              /\ task'[m].at \in Changing => task[m].at \in Changing
    BY <1>0, <1>19 DEF Crash, Tasks, Changing
  <2> QED
    BY <1>19, <2>1, SpentStays, StillWhole DEF Crash, treeVars, otherVars, pruneVars
<1>20. ASSUME FinishPrune PROVE Captured'
  <2>1. \A k \in Trees : patch'[k] \in {NoPatch, patch[k]}
    BY <1>20 DEF FinishPrune
  <2>2. \A m \in Candidates : Tree(m) \in Trees /\ Tree(m)' = Tree(m)
    BY <1>0, <1>20, WorktreesAssumption DEF FinishPrune, Tree, Trees, Tasks
  <2>3. UNCHANGED <<task, origin, staged>>
    BY <1>20 DEF FinishPrune
  <2>4. PatchIsWhole'
    BY <2>1, <2>2, <2>3 DEF Captured, PatchIsWhole
  <2> QED
    BY <1>20, <2>1, <2>3, <2>4, SpentStays DEF Captured
<1>21. ASSUME Edit PROVE Captured'
  BY <1>21, SpentStays, StillWhole DEF Edit, treeVars, otherVars, pruneVars
<1>22. ASSUME Commit PROVE Captured'
  BY <1>22, SpentStays, StillWhole DEF Commit, treeVars, otherVars, pruneVars
<1> QED
  BY <1>1, <1>2, <1>3, <1>4, <1>5, <1>6, <1>7, <1>8, <1>9, <1>10, <1>11, <1>12, <1>13, <1>14,
     <1>15, <1>16, <1>17, <1>18, <1>19, <1>20, <1>21, <1>22
     DEF WorktreesNext

LEMMA StillApplying ==
    ASSUME Applying, \A k \in Trees : Spent(k) => Spent(k)',
           UNCHANGED <<patch, touched, applied, marked, request>>
    PROVE  Applying'
BY DEF Applying, Fits

LEMMA RequestsEnd ==
    ASSUME Applying, UNCHANGED <<touched, marked>>,
           request' = [r \in Applies |-> Answered]
    PROVE  Applying'
BY DEF Applying, Answered

LEMMA ApplyingKept ==
    ASSUME WorktreesTypeOK, Captured, Applying, WorktreesNext PROVE Applying'
<1>0. task \in Tasks
  BY DEF WorktreesTypeOK, Tasks
<1>1. ASSUME NEW n \in Candidates, TakeNode(n) PROVE Applying'
  BY <1>1, SpentStays, StillApplying DEF TakeNode, treeVars, otherVars, pruneVars
<1>2. ASSUME NEW n \in Candidates, RemoveLeftover(n) PROVE Applying'
  BY <1>2, SpentStays, StillApplying DEF RemoveLeftover, treeVars, otherVars, pruneVars
<1>3. ASSUME NEW n \in Candidates, DropLeftover(n) PROVE Applying'
  BY <1>3, SpentStays, StillApplying DEF DropLeftover, treeVars, otherVars, pruneVars
<1>4. ASSUME NEW n \in Candidates, AddTree(n) PROVE Applying'
  BY <1>4, SpentStays, StillApplying DEF AddTree, treeVars, otherVars, pruneVars
<1>5. ASSUME NEW n \in Candidates, ReadBase(n) PROVE Applying'
  BY <1>5, SpentStays, StillApplying DEF ReadBase, treeVars, otherVars, pruneVars
<1>6. ASSUME NEW n \in Candidates, AgentWorks(n) PROVE Applying'
  BY <1>6, SpentStays, StillApplying DEF AgentWorks, treeVars, otherVars, pruneVars
<1>7. ASSUME NEW n \in Candidates, AgentEnds(n) PROVE Applying'
  BY <1>7, SpentStays, StillApplying DEF AgentEnds, treeVars, otherVars, pruneVars
<1>8. ASSUME NEW n \in Candidates, StageAll(n) PROVE Applying'
  BY <1>8, SpentStays, StillApplying DEF StageAll, CaptureFails, treeVars, otherVars, pruneVars
<1>9. ASSUME NEW n \in Candidates, DiffIndex(n) PROVE Applying'
  BY <1>9, SpentStays, StillApplying
     DEF DiffIndex, CaptureFails, treeVars, otherVars, pruneVars
<1>10. ASSUME NEW n \in Candidates, RenamePatch(n) PROVE Applying'
  <2>1. CASE UNCHANGED patch
    BY <1>10, <2>1, SpentStays, StillApplying DEF RenamePatch, treeVars, otherVars, pruneVars
  <2>2. CASE patch' # patch
    <3>1. /\ \A k \in Trees \ {Tree(n)} : patch'[k] = patch[k]
          /\ UNCHANGED <<touched, applied, marked, request>> /\ task[n].at = "diffed"
      BY <1>10, <2>2
         DEF RenamePatch, CaptureFails, WorktreesTypeOK, treeVars, otherVars, pruneVars
    <3>2. ~Spent(Tree(n))
      BY <1>0, <3>1, NoneYet
    <3>3. \A q \in Applies : request[q].at # "idle" =>
             patch'[request[q].of] = patch[request[q].of]
      BY <3>1, <3>2 DEF Applying
    <3> QED
      BY <1>10, <3>1, <3>3, SpentStays DEF Applying, Fits
  <2> QED
    BY <2>1, <2>2
<1>11. ASSUME NEW n \in Candidates, Verify(n) PROVE Applying'
  BY <1>11, SpentStays, StillApplying DEF Verify, treeVars, otherVars, pruneVars
<1>12. ASSUME NEW n \in Candidates, Retry(n) PROVE Applying'
  BY <1>12, SpentStays, StillApplying DEF Retry, treeVars, otherVars, pruneVars
<1>13. ASSUME NEW r \in Applies, NEW n \in Candidates, Ask(r, n) PROVE Applying'
  <2>1. Tree(n) \in Trees /\ Spent(Tree(n))
    BY <1>0, <1>13, WorktreesAssumption DEF Ask, Captured, Tree, Trees, Tasks
  <2>2. /\ UNCHANGED <<patch, touched, applied, marked, task>>
        /\ request'[r].at = "waiting" /\ request'[r].of = Tree(n)
        /\ \A q \in Applies \ {r} : request'[q] = request[q]
    BY <1>13 DEF Ask, WorktreesTypeOK, treeVars, otherVars, pruneVars
  <2> QED
    BY <2>1, <2>2 DEF Applying, Spent, Fits
<1>14. ASSUME NEW r \in Applies, Check(r) PROVE Applying'
  <2>1. /\ UNCHANGED <<patch, touched, applied, marked, task>>
        /\ \A q \in Applies \ {r} : request'[q] = request[q]
        /\ \A q \in Applies : request[q].at # "checked"
    BY <1>14 DEF Check, MutexFree, WorktreesTypeOK, treeVars, otherVars, pruneVars
  <2>2. \/ request'[r].at = "idle"
        \/ /\ request[r].at = "waiting" /\ request'[r].of = request[r].of
           /\ Fits(request[r].of)
    BY <1>14 DEF Check, Answered, WorktreesTypeOK
  <2> QED
    BY <2>1, <2>2 DEF Applying, Spent, Fits
<1>15. ASSUME NEW r \in Applies, Apply(r) PROVE Applying'
  <2> DEFINE w == request[r].of
  <2>1. /\ UNCHANGED <<patch, touched, task>> /\ request[r].at = "checked"
        /\ request'[r].at = "idle"
        /\ \A q \in Applies \ {r} : request'[q] = request[q] /\ request[q].at # "checked"
    BY <1>15 DEF Apply, Answered, Applying, WorktreesTypeOK, treeVars, otherVars, pruneVars
  <2>2. marked' => touched
    BY <1>15 DEF Apply, Applying
  <2> QED
    BY <2>1, <2>2 DEF Applying, Spent, Fits
<1>16. ASSUME NEW z \in Trees, PruneTree(z) PROVE Applying'
  BY <1>16, SpentStays, StillApplying DEF PruneTree, treeVars, otherVars, pruneVars
<1>17. ASSUME RunOver PROVE Applying'
  BY <1>17, SpentStays, StillApplying DEF RunOver, treeVars, otherVars, pruneVars
<1>18. ASSUME DeleteRun PROVE Applying'
  BY <1>18, SpentStays, StillApplying DEF DeleteRun, treeVars, otherVars, pruneVars
<1>19. ASSUME Crash PROVE Applying'
  BY <1>19, RequestsEnd DEF Crash
<1>20. ASSUME FinishPrune PROVE Applying'
  <2>1. \A k \in Trees : patch'[k] \in {NoPatch, patch[k]}
    BY <1>20 DEF FinishPrune
  <2>2. UNCHANGED <<touched, applied, marked, request>>
    BY <1>20 DEF FinishPrune, treeVars, otherVars, pruneVars
  <2>3. \A q \in Applies : request[q].at = "checked" =>
           \/ touched
           \/ patch'[request[q].of] = NoPatch
           \/ Fits(request[q].of)'
    BY <2>1, <2>2 DEF Applying, Fits
  <2> QED
    BY <1>20, <2>2, <2>3, SpentStays DEF Applying
<1>21. ASSUME Edit PROVE Applying'
  BY <1>21 DEF Edit, Applying, Spent, treeVars, otherVars, pruneVars
<1>22. ASSUME Commit PROVE Applying'
  BY <1>22, SpentStays, StillApplying DEF Commit, treeVars, otherVars, pruneVars
<1> QED
  BY <1>1, <1>2, <1>3, <1>4, <1>5, <1>6, <1>7, <1>8, <1>9, <1>10, <1>11, <1>12, <1>13, <1>14,
     <1>15, <1>16, <1>17, <1>18, <1>19, <1>20, <1>21, <1>22
     DEF WorktreesNext

LEMMA WorktreesStart == WorktreesInit => WorktreesInv
<1> SUFFICES ASSUME WorktreesInit PROVE WorktreesInv
  OBVIOUS
<1>1. task \in Tasks /\ \A n \in Candidates : task[n].at = "queued" /\ task[n].attempt = 1
  BY WorktreesAssumption DEF WorktreesInit, Tasks, Places
<1>2. WorktreesTypeOK
  <2>1. /\ origin \in [Candidates -> 0..MaxHeads] /\ content \in [Candidates -> 0..MaxWork]
        /\ staged \in [Candidates -> 0..MaxWork] /\ head \in 1..MaxHeads
        /\ jams \in 0..MaxJams /\ falls \in 0..MaxFalls
    BY WorktreesAssumption DEF WorktreesInit
  <2>2. patch \in [Trees -> [base : 0..MaxHeads, work : 0..MaxWork]]
    BY WorktreesAssumption DEF WorktreesInit, NoPatch
  <2>3. request \in [Applies -> [at : {"idle", "waiting", "checked"}, of : Trees \cup {<<>>}]]
    BY DEF WorktreesInit, Answered
  <2> QED
    BY <1>1, <2>1, <2>2, <2>3 DEF WorktreesInit, WorktreesTypeOK, Tasks
<1>3. Captured
  <2>1. \A n \in Candidates : Tree(n) \in Trees
    BY <1>1, WorktreesAssumption DEF Tree, Trees
  <2> QED
    BY <1>1, <2>1 DEF WorktreesInit, Captured, PatchIsWhole, Changing
<1>4. Quiet /\ Applying
  BY DEF WorktreesInit, Quiet, Applying, Answered
<1> QED
  BY <1>2, <1>3, <1>4 DEF WorktreesInv

(* Whatever candidates, attempts and applications of patches there are: a    *)
(* patch in its place is what was staged in its own attempt's tree against   *)
(* that tree's commit, a prune without an attempt beside it leaves nothing,  *)
(* and applications alone leave no conflict markers (engine/worktree.ts).    *)
THEOREM ArtifactsAlwaysHold == WorktreesSpec => []ArtifactsHold
<1>1. WorktreesInv /\ [WorktreesNext]_worktreeVars => WorktreesInv'
  <2>1. WorktreesInv /\ WorktreesNext => WorktreesInv'
    BY TypesKept, CapturedKept, QuietKept, ApplyingKept DEF WorktreesInv
  <2>2. WorktreesInv /\ UNCHANGED worktreeVars => WorktreesInv'
    BY DEF WorktreesInv, WorktreesTypeOK, Captured, PatchIsWhole, Quiet, Applying, Spent, Fits,
           AtWork, Tree, worktreeVars
  <2> QED
    BY <2>1, <2>2
<1>2. WorktreesInv => ArtifactsHold
  BY DEF WorktreesInv, ArtifactsHold, Captured, Quiet, Applying, PrunedClean, MarkersNeedEdits
<1> QED
  BY <1>1, <1>2, WorktreesStart, PTL DEF WorktreesSpec
=============================================================================
