--------------------------- MODULE CodexConnection ---------------------------
(* The JSON-RPC connection to one `codex app-server` (codex/connection.ts).  *)
(* A child is spawned at the first request, every request waits for the      *)
(* handshake of the child that is current when it is made, and a child that  *)
(* is lost takes its pending requests with it. Children are numbered in the  *)
(* order of their spawns; a slot that was lost stays lost, but its process   *)
(* may still write lines and end later, next to the child that replaced it.  *)
(*                                                                           *)
(* A step is the code between two macrotasks of the event loop: the promise  *)
(* reactions it triggers run with it, so the requests that wait for a        *)
(* handshake are written in the step in which it resolves.                   *)
EXTENDS Naturals, Sequences, FiniteSets, SequencesExt

CONSTANTS Calls,     \* the calls of CodexConnection.request
          MaxSpawns  \* bound: children spawned

ASSUME ConnectionAssumption == MaxSpawns \in Nat

VARIABLES
    slot,      \* number of the current child, 0 when this.slot is undefined
    spawned,   \* how many children were spawned
    ready,     \* slot.ready: the handshake of the current child is done
    nextId,    \* slot.nextId: ids start again at 1 with every child
    pending,   \* slot.pending: from request id to the call (or "init")
    joiners,   \* calls that await the current handshake, in order
    call,      \* call[k]: the state of the promise of a call
    requests,  \* what the children have read: <<child, id, call>>
    replies,   \* what they have written: <<child, id, call>>
    alive,     \* children whose process has not ended
    work,      \* config.isBusy(): the owner has a turn or approval open
    recycle,   \* this.deferredRecycle is set
    reaper     \* the interval timer of the reaper is armed

connVars == <<slot, spawned, ready, nextId, pending, joiners, call, requests,
              replies, alive, work, recycle, reaper>>

HandshakeCall == "init"
Settled   == {"result", "error", "timeout", "lost", "refused"}

ConnectionTypeOK ==
    /\ slot \in 0..spawned /\ spawned \in 0..MaxSpawns
    /\ ready \in BOOLEAN /\ (slot = 0 => ~ready)
    /\ DOMAIN pending \subseteq 1..(nextId - 1)
    /\ \A i \in DOMAIN pending : pending[i] \in Calls \cup {HandshakeCall}
    /\ \A i \in 1..Len(joiners) : joiners[i] \in Calls
    /\ call \in [Calls -> [st : {"new", "joining", "sent"} \cup Settled,
                           by : Calls \cup {HandshakeCall}]]
    /\ alive \subseteq 1..spawned
    /\ {work, recycle, reaper} \subseteq BOOLEAN

ConnectionInit ==
    /\ slot = 0 /\ spawned = 0 /\ ready = FALSE /\ nextId = 1
    /\ pending = <<>> /\ joiners = <<>>
    /\ call = [k \in Calls |-> [st |-> "new", by |-> HandshakeCall]]
    /\ requests = {} /\ replies = {} /\ alive = {}
    /\ work = FALSE /\ recycle = FALSE /\ reaper = TRUE

-----------------------------------------------------------------------------
PendingCalls == {pending[i] : i \in DOMAIN pending}

(* busy: a request of the current child is in flight, the handshake's among  *)
(* them, or the owner says so.                                               *)
Busy == PendingCalls # {} \/ work

(* sendRequest for the calls ks, in order, on the current child, whose next  *)
(* id and pending requests are given.                                        *)
Send(ks, id, open) ==
    /\ nextId' = id + Len(ks)
    /\ pending' = [i \in DOMAIN open \cup id..(id + Len(ks) - 1) |->
                     IF i < id THEN open[i] ELSE ks[i - id + 1]]
    /\ requests' = requests \cup
         {<<slot, id + j - 1, ks[j]>> : j \in 1..Len(ks)}
    /\ call' = [k \in Calls |-> IF k \in Range(ks)
                                  THEN [call[k] EXCEPT !.st = "sent"] ELSE call[k]]

(* ensureReady without a current child: spawnSlot. The handshake is its      *)
(* first request.                                                            *)
Spawn(k) ==
    /\ slot = 0 /\ spawned < MaxSpawns
    /\ spawned' = spawned + 1 /\ slot' = spawned + 1
    /\ alive' = alive \cup {spawned + 1}
    /\ ready' = FALSE /\ nextId' = 2
    /\ pending' = [i \in {1} |-> HandshakeCall]
    /\ requests' = requests \cup {<<spawned + 1, 1, HandshakeCall>>}
    /\ joiners' = <<k>>
    /\ call' = [call EXCEPT ![k].st = "joining"]
    /\ UNCHANGED <<replies, work, recycle, reaper>>

(* spawnManaged throws, or the child has no pipes: this.spawning rejects and *)
(* is forgotten.                                                             *)
SpawnFails(k) ==
    /\ slot = 0
    /\ call' = [call EXCEPT ![k].st = "refused"]
    /\ UNCHANGED <<slot, spawned, ready, nextId, pending, joiners, requests,
                   replies, alive, work, recycle, reaper>>

Join(k) ==
    /\ slot # 0 /\ ~ready
    /\ joiners' = Append(joiners, k)
    /\ call' = [call EXCEPT ![k].st = "joining"]
    /\ UNCHANGED <<slot, spawned, ready, nextId, pending, requests, replies,
                   alive, work, recycle, reaper>>

Write(k) ==
    /\ slot # 0 /\ ready
    /\ Send(<<k>>, nextId, pending)
    /\ UNCHANGED <<slot, spawned, ready, joiners, replies, alive, work, recycle,
                   reaper>>

Request(k) ==
    /\ call[k].st = "new"
    /\ Spawn(k) \/ SpawnFails(k) \/ Join(k) \/ Write(k)

-----------------------------------------------------------------------------
(* lose on the current child: every pending request and everyone who waits   *)
(* for the handshake is rejected, the child gets SIGTERM, and the owner's    *)
(* onConnectionLost settles its turns. A deferred recycle is kept.           *)
LoseSlot ==
    /\ slot' = 0 /\ ready' = FALSE /\ pending' = <<>> /\ joiners' = <<>>
    /\ call' = [k \in Calls |-> IF k \in PendingCalls \cup Range(joiners)
                                  THEN [call[k] EXCEPT !.st = "lost"] ELSE call[k]]
    /\ work' = FALSE
    /\ UNCHANGED <<spawned, nextId, requests>>

(* kill and dispose; dispose also stops the reaper.                          *)
KillServer ==
    /\ slot # 0 /\ LoseSlot
    /\ reaper' \in {reaper, FALSE}
    /\ UNCHANGED <<replies, alive, recycle>>

(* exit, error or the end of stdout of child c. Only the current child's is  *)
(* looked at: a slot that was lost before is skipped.                        *)
ChildEnds(c) ==
    /\ c \in alive /\ alive' = alive \ {c}
    /\ IF c = slot THEN LoseSlot
         ELSE UNCHANGED <<slot, spawned, ready, nextId, pending, joiners, call,
                          requests, work>>
    /\ UNCHANGED <<replies, recycle, reaper>>

RecycleIfIdle ==
    /\ IF Busy
         THEN /\ recycle' = TRUE
              /\ UNCHANGED <<slot, spawned, ready, nextId, pending, joiners, call,
                             requests, work>>
         ELSE /\ recycle' = FALSE
              /\ IF slot # 0 THEN LoseSlot
                   ELSE UNCHANGED <<slot, spawned, ready, nextId, pending, joiners,
                                    call, requests, work>>
    /\ UNCHANGED <<replies, alive, reaper>>

(* reaperTick: a deferred recycle, or the child was idle for long enough.    *)
ReaperTick ==
    /\ reaper /\ slot # 0 /\ ~Busy
    /\ LoseSlot /\ recycle' = FALSE
    /\ UNCHANGED <<replies, alive, reaper>>

-----------------------------------------------------------------------------
(* The timer of a pending request. The handshake's rejection loses the       *)
(* child, the rejection of a call is the call's only.                        *)
Timeout(i) ==
    /\ i \in DOMAIN pending
    /\ IF pending[i] = HandshakeCall
         THEN LoseSlot
         ELSE /\ pending' = [j \in DOMAIN pending \ {i} |-> pending[j]]
              /\ call' = [call EXCEPT ![pending[i]].st = "timeout"]
              /\ UNCHANGED <<slot, spawned, ready, nextId, joiners, requests,
                             work>>
    /\ UNCHANGED <<replies, alive, recycle, reaper>>

(* The child (external) answers a request it has read, in any order.         *)
Answer(m) ==
    /\ m \in requests /\ m[1] \in alive
    /\ requests' = requests \ {m} /\ replies' = replies \cup {m}
    /\ UNCHANGED <<slot, spawned, ready, nextId, pending, joiners, call, alive,
                   work, recycle, reaper>>

(* The entry a response line finds: its slot's own table, by its id. The     *)
(* table of a lost slot is empty.                                            *)
BadEntry(m)   == IF m[2] \in DOMAIN pending THEN {pending[m[2]]} ELSE {}
EntryOf(m) ==
    IF m[1] = slot /\ m[2] \in DOMAIN pending THEN {pending[m[2]]} ELSE {}

(* consume, dispatchLine and handleResponse for a response line, with a      *)
(* result or an error. The handshake's result makes the child ready and the  *)
(* joiners are written; its error loses the child.                           *)
DeliverReply(m) ==
    /\ m \in replies /\ replies' = replies \ {m}
    /\ \/ /\ EntryOf(m) = {}
          /\ UNCHANGED <<slot, spawned, ready, nextId, pending, joiners, call,
                         requests, work>>
       \/ /\ EntryOf(m) = {HandshakeCall}
          /\ Send(joiners, nextId, [i \in DOMAIN pending \ {m[2]} |-> pending[i]])
          /\ ready' = TRUE /\ joiners' = <<>>
          /\ UNCHANGED <<slot, spawned, work>>
       \/ EntryOf(m) = {HandshakeCall} /\ LoseSlot
       \/ \E k \in EntryOf(m) \ {HandshakeCall}, r \in {"result", "error"} :
          /\ pending' = [i \in DOMAIN pending \ {m[2]} |-> pending[i]]
          /\ call' = [call EXCEPT ![k] = [st |-> r, by |-> m[3]]]
          /\ UNCHANGED <<slot, spawned, ready, nextId, joiners, requests, work>>
    /\ UNCHANGED <<alive, recycle, reaper>>

(* The owner opens a turn beside a request of its own, and ends it.          *)
Work ==
    /\ slot # 0 /\ work' = ~work
    /\ UNCHANGED <<slot, spawned, ready, nextId, pending, joiners, call,
                   requests, replies, alive, recycle, reaper>>

ConnectionNext ==
    \/ \E k \in Calls : Request(k)
    \/ \E c \in alive : ChildEnds(c)
    \/ \E i \in DOMAIN pending : Timeout(i)
    \/ \E m \in requests : Answer(m)
    \/ \E m \in replies : DeliverReply(m)
    \/ KillServer \/ RecycleIfIdle \/ ReaperTick \/ Work
ConnectionSpec == ConnectionInit /\ [][ConnectionNext]_connVars

-----------------------------------------------------------------------------
(* A call is only ever answered by the reply to its own request, although    *)
(* ids are reused by the next child and replies come late (handleResponse).  *)
OwnReply == \A k \in Calls : call[k].st \in {"result", "error"} => call[k].by = k

=============================================================================
