-------------------------- MODULE Providers_proofs ---------------------------
(* What holds of the connection to the Codex app-server and of the           *)
(* credentials of the accounts, for any number of calls, sign-ins, accounts; *)
(* and who ends a turn that runs behind such a connection.                   *)
EXTENDS CodexTurns_proofs, CodexConnection, SignIn

(* The connection. The types of its tables and lines.                        *)
Callees  == Calls \cup {HandshakeCall}
Messages == (Nat \ {0}) \X Nat \X Callees

ConnTypes ==
    /\ slot \in Nat /\ spawned \in Nat /\ slot <= spawned
    /\ nextId \in Nat \ {0}
    /\ DOMAIN pending \subseteq 1..(nextId - 1)
    /\ \A i \in DOMAIN pending : pending[i] \in Callees
    /\ joiners \in Seq(Calls)
    /\ call \in [Calls -> [st : {"new", "joining", "sent"} \cup Settled, by : Callees]]
    /\ requests \subseteq Messages /\ replies \subseteq Messages

(* A line of a child has a number that child was given, and if it finds an   *)
(* entry in the table of the current child, that entry is its own request.   *)
LinesOwn ==
    \A m \in requests \cup replies :
        /\ m[1] <= spawned
        /\ m[1] = slot =>
              /\ m[2] < nextId
              /\ m[2] \in DOMAIN pending => pending[m[2]] = m[3]

ConnInv == ConnTypes /\ LinesOwn /\ OwnReply

LEMMA ConnInit == ConnectionInit => ConnInv
  BY DEF ConnectionInit, ConnInv, ConnTypes, LinesOwn, OwnReply, Callees, Messages, Settled

(* Requests that are written get ids of their own, and are answered by none. *)
LEMMA SendKeepsOwn ==
    ASSUME ConnInv, NEW ks \in Seq(Calls), NEW open,
           slot # 0, DOMAIN open \subseteq DOMAIN pending,
           \A i \in DOMAIN open : open[i] = pending[i],
           Send(ks, nextId, open), UNCHANGED <<slot, spawned>>,
           replies' \subseteq replies, joiners' \in Seq(Calls)
    PROVE  ConnInv'
  <1> DEFINE last == nextId + Len(ks) - 1
  <1>1. Len(ks) \in Nat /\ nextId \in Nat \ {0} /\ \A j \in 1..Len(ks) : ks[j] \in Calls
    BY DEF ConnInv, ConnTypes
  <1>2. nextId' = nextId + Len(ks) /\ nextId' \in Nat \ {0}
    BY <1>1 DEF Send
  <1> DEFINE grown == DOMAIN open \cup nextId..last
  <1>0. pending' = [i \in grown |-> IF i < nextId THEN open[i] ELSE ks[i - nextId + 1]]
    BY DEF Send
  <1>13. \A i \in DOMAIN open : i \in Nat /\ i < nextId
    BY <1>1 DEF ConnInv, ConnTypes
  <1>14. \A i \in nextId..last : ~(i < nextId)
    BY <1>1
  <1>3. /\ DOMAIN pending' = DOMAIN open \cup nextId..last
        /\ \A i \in DOMAIN open : i < nextId /\ pending'[i] = pending[i]
        /\ \A i \in nextId..last : pending'[i] = ks[i - nextId + 1]
    BY <1>0, <1>13, <1>14
  <1>4. \A i \in DOMAIN pending' : i \in 1..(nextId' - 1) /\ pending'[i] \in Callees
    <2>1. ASSUME NEW i \in DOMAIN open
          PROVE  i \in 1..(nextId' - 1) /\ pending'[i] \in Callees
      <3>1. i \in 1..(nextId - 1) /\ pending[i] \in Callees
        BY <2>1 DEF ConnInv, ConnTypes
      <3> QED BY <3>1, <1>1, <1>2, <1>3
    <2>2. ASSUME NEW i \in nextId..last
          PROVE  i \in 1..(nextId' - 1) /\ pending'[i] \in Callees
      <3>1. i \in 1..(nextId' - 1) /\ i - nextId + 1 \in 1..Len(ks)
        BY <1>1, <1>2
      <3> QED BY <3>1, <1>1, <1>3 DEF Callees
    <2> QED BY <2>1, <2>2, <1>3
  <1>5. requests' = requests \cup {<<slot, nextId + j - 1, ks[j]>> : j \in 1..Len(ks)}
    BY DEF Send
  <1>6. \A m \in requests' \ requests :
          \E j \in 1..Len(ks) : m = <<slot, nextId + j - 1, ks[j]>>
    BY <1>5
  <1>7. requests' \subseteq Messages
    BY <1>1, <1>5, <1>6 DEF ConnInv, ConnTypes, Messages, Callees
  <1>8. call' \in [Calls -> [st : {"new", "joining", "sent"} \cup Settled, by : Callees]]
    BY DEF Send, ConnInv, ConnTypes
  <1>9. ConnTypes'
    BY <1>2, <1>3, <1>4, <1>7, <1>8 DEF ConnInv, ConnTypes
  <1>10. LinesOwn'
    <2> SUFFICES ASSUME NEW m \in requests' \cup replies'
                 PROVE  /\ m[1] <= spawned
                        /\ m[1] = slot =>
                              /\ m[2] < nextId'
                              /\ m[2] \in DOMAIN pending' => pending'[m[2]] = m[3]
      BY DEF LinesOwn
    <2>1. CASE m \in requests \cup replies
      <3>1. /\ m[1] <= spawned /\ m[2] \in Nat
            /\ m[1] = slot => /\ m[2] < nextId
                              /\ m[2] \in DOMAIN pending => pending[m[2]] = m[3]
        BY <2>1 DEF ConnInv, ConnTypes, LinesOwn, Messages
      <3>2. m[1] = slot => m[2] < nextId'
        BY <3>1, <1>1, <1>2
      <3>3. ASSUME m[1] = slot, m[2] \in DOMAIN pending' PROVE pending'[m[2]] = m[3]
        <4>1. m[2] \in DOMAIN open
          BY <3>1, <3>3, <1>1, <1>3
        <4> QED
          BY <3>1, <3>3, <4>1, <1>3
      <3> QED
        BY <3>1, <3>2, <3>3
    <2>2. CASE m \in requests' \ requests
      <3>1. PICK j \in 1..Len(ks) : m = <<slot, nextId + j - 1, ks[j]>>
        BY <2>2, <1>6
      <3>2. nextId + j - 1 \in nextId..last /\ (nextId + j - 1) - nextId + 1 = j
        BY <1>1
      <3>3. m[1] = slot /\ m[2] = nextId + j - 1 /\ m[3] = ks[j]
        BY <3>1
      <3>4. slot <= spawned /\ nextId + j - 1 < nextId'
        BY <1>1, <1>2 DEF ConnInv, ConnTypes
      <3>5. pending'[nextId + j - 1] = ks[j]
        BY <3>2, <1>3
      <3> QED BY <3>3, <3>4, <3>5
    <2> QED BY <2>1, <2>2
  <1>11. OwnReply'
    BY DEF Send, ConnInv, ConnTypes, OwnReply
  <1> QED BY <1>9, <1>10, <1>11 DEF ConnInv

(* A child that is lost takes its table with it.                             *)
LEMMA LoseKeepsOwn ==
    ASSUME ConnInv, LoseSlot, replies' \subseteq replies
    PROVE  ConnInv'
  <1>1. /\ slot' = 0 /\ pending' = <<>> /\ joiners' = <<>>
        /\ UNCHANGED <<spawned, nextId, requests>>
    BY DEF LoseSlot
  <1>2. call' \in [Calls -> [st : {"new", "joining", "sent"} \cup Settled, by : Callees]]
    BY DEF LoseSlot, ConnInv, ConnTypes, Settled
  <1>3. OwnReply'
    BY DEF LoseSlot, ConnInv, ConnTypes, OwnReply
  <1>4. ConnTypes'
    BY <1>1, <1>2 DEF ConnInv, ConnTypes
  <1>5. LinesOwn'
    BY <1>1 DEF ConnInv, ConnTypes, Messages, LinesOwn
  <1> QED BY <1>3, <1>4, <1>5 DEF ConnInv

LEMMA RequestKeepsOwn ==
    ASSUME ConnInv, NEW k \in Calls, Request(k)
    PROVE  ConnInv'
  <1>1. CASE Spawn(k)
    <2>1. /\ spawned' = spawned + 1 /\ slot' = spawned + 1 /\ nextId' = 2
          /\ pending' = [i \in {1} |-> HandshakeCall]
          /\ requests' = requests \cup {<<spawned + 1, 1, HandshakeCall>>}
          /\ joiners' = <<k>> /\ call' = [call EXCEPT ![k].st = "joining"]
          /\ UNCHANGED replies
      BY <1>1 DEF Spawn
    <2>2. ConnTypes'
      <3>1. slot' \in Nat /\ spawned' \in Nat /\ slot' <= spawned' /\ nextId' \in Nat \ {0}
        BY <2>1 DEF ConnInv, ConnTypes
      <3>2. /\ DOMAIN pending' \subseteq 1..(nextId' - 1)
            /\ \A i \in DOMAIN pending' : pending'[i] \in Callees
        BY <2>1 DEF Callees
      <3>3. joiners' \in Seq(Calls)
        BY <2>1
      <3>4. call' \in [Calls -> [st : {"new", "joining", "sent"} \cup Settled, by : Callees]]
        BY <2>1 DEF ConnInv, ConnTypes
      <3>5. requests' \subseteq Messages /\ replies' \subseteq Messages
        BY <2>1 DEF ConnInv, ConnTypes, Messages, Callees
      <3> QED BY <3>1, <3>2, <3>3, <3>4, <3>5 DEF ConnTypes
    <2>3. LinesOwn'
      BY <2>1 DEF ConnInv, ConnTypes, LinesOwn, Messages
    <2>4. OwnReply'
      BY <2>1 DEF ConnInv, ConnTypes, OwnReply
    <2> QED BY <2>2, <2>3, <2>4 DEF ConnInv
  <1>2. CASE SpawnFails(k)
    BY <1>2 DEF SpawnFails, ConnInv, ConnTypes, LinesOwn, OwnReply, Settled
  <1>3. CASE Join(k)
    BY <1>3 DEF Join, ConnInv, ConnTypes, LinesOwn, OwnReply
  <1>4. CASE Write(k)
    <2>1. Send(<<k>>, nextId, pending) /\ slot # 0 /\ UNCHANGED <<slot, spawned, joiners, replies>>
      BY <1>4 DEF Write
    <2>2. <<k>> \in Seq(Calls) /\ joiners' \in Seq(Calls)
      BY <2>1 DEF ConnInv, ConnTypes
    <2> QED BY <2>1, <2>2, SendKeepsOwn
  <1> QED BY <1>1, <1>2, <1>3, <1>4 DEF Request

LEMMA TimeoutKeepsOwn ==
    ASSUME ConnInv, NEW i \in DOMAIN pending, Timeout(i)
    PROVE  ConnInv'
  <1>1. CASE pending[i] = HandshakeCall
    BY <1>1, LoseKeepsOwn DEF Timeout
  <1>2. CASE pending[i] # HandshakeCall
    <2>1. /\ pending' = [j \in DOMAIN pending \ {i} |-> pending[j]]
          /\ call' = [call EXCEPT ![pending[i]].st = "timeout"]
          /\ UNCHANGED <<slot, spawned, nextId, joiners, requests, replies>>
      BY <1>2 DEF Timeout
    <2>2. pending[i] \in Calls
      BY <1>2 DEF ConnInv, ConnTypes, Callees
    <2>3. ConnTypes'
      BY <2>1, <2>2 DEF ConnInv, ConnTypes, Settled
    <2>4. LinesOwn'
      BY <2>1 DEF ConnInv, LinesOwn
    <2>5. OwnReply'
      BY <2>1, <2>2 DEF ConnInv, ConnTypes, OwnReply
    <2> QED BY <2>3, <2>4, <2>5 DEF ConnInv
  <1> QED BY <1>1, <1>2

(* The line that settles a call is the reply to its own request.             *)
LEMMA DeliverKeepsOwn ==
    ASSUME ConnInv, NEW m \in replies, DeliverReply(m)
    PROVE  ConnInv'
  <1> DEFINE rest == [i \in DOMAIN pending \ {m[2]} |-> pending[i]]
  <1>1. replies' = replies \ {m}
    BY DEF DeliverReply
  <1>2. CASE UNCHANGED <<slot, spawned, ready, nextId, pending, joiners, call,
                         requests, work>>
    BY <1>1, <1>2 DEF ConnInv, ConnTypes, LinesOwn, OwnReply
  <1>3. CASE LoseSlot
    BY <1>1, <1>3, LoseKeepsOwn
  <1>4. CASE /\ EntryOf(m) = {HandshakeCall} /\ Send(joiners, nextId, rest)
             /\ joiners' = <<>> /\ UNCHANGED <<slot, spawned>>
    <2>1. slot # 0
      BY <1>4 DEF EntryOf, ConnInv, ConnTypes, Messages
    <2>2. joiners \in Seq(Calls) /\ joiners' \in Seq(Calls)
      BY <1>4 DEF ConnInv, ConnTypes
    <2> HIDE DEF rest
    <2>3. /\ DOMAIN rest \subseteq DOMAIN pending
          /\ \A i \in DOMAIN rest : rest[i] = pending[i]
      BY DEF rest
    <2> QED BY <1>1, <1>4, <2>1, <2>2, <2>3, SendKeepsOwn
  <1>5. ASSUME NEW k \in EntryOf(m) \ {HandshakeCall}, NEW r \in {"result", "error"},
               pending' = rest, call' = [call EXCEPT ![k] = [st |-> r, by |-> m[3]]],
               UNCHANGED <<slot, spawned, nextId, joiners, requests>>
        PROVE  ConnInv'
    <2>1. m[1] = slot /\ m[2] \in DOMAIN pending /\ k = pending[m[2]]
      BY <1>5 DEF EntryOf
    <2>2. k = m[3] /\ k \in Calls
      BY <1>5, <2>1 DEF ConnInv, ConnTypes, LinesOwn, Callees
    <2>3. ConnTypes'
      BY <1>1, <1>5, <2>2 DEF ConnInv, ConnTypes, Settled, Callees
    <2>4. LinesOwn'
      BY <1>1, <1>5 DEF ConnInv, LinesOwn
    <2>5. OwnReply'
      BY <1>5, <2>2 DEF ConnInv, ConnTypes, OwnReply
    <2> QED BY <2>3, <2>4, <2>5 DEF ConnInv
  <1> QED BY <1>2, <1>3, <1>4, <1>5 DEF DeliverReply

LEMMA ConnStep == ConnInv /\ [ConnectionNext]_connVars => ConnInv'
  <1> SUFFICES ASSUME ConnInv, [ConnectionNext]_connVars PROVE ConnInv'
    OBVIOUS
  <1> DEFINE Same == UNCHANGED <<slot, spawned, nextId, pending, joiners, call>>
  <1>1. ASSUME Same, requests' \cup replies' \subseteq requests \cup replies PROVE ConnInv'
    BY <1>1 DEF ConnInv, ConnTypes, LinesOwn, OwnReply
  <1>2. ASSUME NEW k \in Calls, Request(k) PROVE ConnInv'
    BY <1>2, RequestKeepsOwn
  <1>3. ASSUME NEW c \in alive, ChildEnds(c) PROVE ConnInv'
    BY <1>1, <1>3, LoseKeepsOwn DEF ChildEnds
  <1>4. ASSUME NEW i \in DOMAIN pending, Timeout(i) PROVE ConnInv'
    BY <1>4, TimeoutKeepsOwn
  <1>5. ASSUME NEW m \in requests, Answer(m) PROVE ConnInv'
    BY <1>1, <1>5 DEF Answer
  <1>6. ASSUME NEW m \in replies, DeliverReply(m) PROVE ConnInv'
    BY <1>6, DeliverKeepsOwn
  <1>7. CASE KillServer \/ ReaperTick
    BY <1>7, LoseKeepsOwn DEF KillServer, ReaperTick
  <1>8. CASE RecycleIfIdle
    BY <1>1, <1>8, LoseKeepsOwn DEF RecycleIfIdle
  <1>9. CASE Work
    BY <1>1, <1>9 DEF Work
  <1>10. CASE UNCHANGED connVars
    BY <1>1, <1>10 DEF connVars
  <1> QED BY <1>2, <1>3, <1>4, <1>5, <1>6, <1>7, <1>8, <1>9, <1>10 DEF ConnectionNext

(* A request is answered by the reply to it or not at all: no reply of a     *)
(* child that was lost, and none that comes after its time, settles another  *)
(* one's request, for any number of calls and children (dispatchLine, lose). *)
THEOREM OwnReplyHolds == ConnectionSpec => []OwnReply
  <1>1. ConnInv => OwnReply
    BY DEF ConnInv
  <1> QED BY ConnInit, ConnStep, <1>1, PTL DEF ConnectionSpec

(* What the types of the connection need beside ConnTypes.                   *)
Flags ==
    /\ spawned \in 0..MaxSpawns /\ alive \subseteq 1..spawned
    /\ ready \in BOOLEAN /\ (slot = 0 => ~ready)
    /\ {work, recycle, reaper} \subseteq BOOLEAN

LEMMA FlagsStep ==
    ConnInv /\ Flags /\ [ConnectionNext]_connVars => Flags'
  <1> SUFFICES ASSUME ConnInv, Flags, [ConnectionNext]_connVars PROVE Flags'
    OBVIOUS
  <1> USE DEF Flags
  <1>1. ASSUME NEW k \in Calls, Request(k) PROVE Flags'
    <2>1. CASE Spawn(k)
      <3>1. /\ spawned' = spawned + 1 /\ slot' = spawned + 1 /\ spawned < MaxSpawns
            /\ alive' = alive \cup {spawned + 1} /\ ready' = FALSE
            /\ UNCHANGED <<work, recycle, reaper>>
        BY <2>1 DEF Spawn
      <3>2. spawned \in Nat /\ MaxSpawns \in Nat /\ \A c \in alive : c \in 1..spawned
        BY ConnectionAssumption
      <3>3. spawned' \in 0..MaxSpawns /\ \A c \in alive' : c \in 1..spawned'
        BY <3>1, <3>2
      <3> QED BY <3>1, <3>2, <3>3
    <2>2. CASE SpawnFails(k) \/ Join(k) \/ Write(k)
      BY <2>2 DEF SpawnFails, Join, Write, Send
    <2> QED BY <1>1, <2>1, <2>2 DEF Request
  <1>2. ASSUME NEW c \in alive, ChildEnds(c) PROVE Flags'
    BY <1>2 DEF ChildEnds, LoseSlot
  <1>3. ASSUME NEW i \in DOMAIN pending, Timeout(i) PROVE Flags'
    BY <1>3 DEF Timeout, LoseSlot
  <1>4. ASSUME NEW m \in requests, Answer(m) PROVE Flags'
    BY <1>4 DEF Answer
  <1>5. ASSUME NEW m \in replies, DeliverReply(m) PROVE Flags'
    <2>1. EntryOf(m) # {} => slot # 0
      BY DEF EntryOf, ConnInv, ConnTypes, Messages
    <2>2. UNCHANGED <<alive, recycle, reaper>>
      BY <1>5 DEF DeliverReply
    <2>3. CASE UNCHANGED <<slot, spawned, ready, work>>
      BY <2>2, <2>3
    <2>4. CASE EntryOf(m) = {HandshakeCall} /\ ready' = TRUE /\ UNCHANGED <<slot, spawned, work>>
      BY <2>1, <2>2, <2>4
    <2>5. CASE LoseSlot
      BY <2>2, <2>5 DEF LoseSlot
    <2> QED BY <1>5, <2>3, <2>4, <2>5 DEF DeliverReply
  <1>6. CASE KillServer \/ RecycleIfIdle \/ ReaperTick
    BY <1>6 DEF KillServer, RecycleIfIdle, ReaperTick, LoseSlot
  <1>7. CASE Work
    <2>1. work \in BOOLEAN /\ work' = ~work
      BY <1>7 DEF Work
    <2>2. work' \in BOOLEAN
      BY <2>1, Zenon
    <2>3. UNCHANGED <<slot, spawned, ready, alive, recycle, reaper>>
      BY <1>7 DEF Work
    <2> QED BY <2>2, <2>3
  <1>8. CASE UNCHANGED connVars
    BY <1>8 DEF connVars
  <1> QED BY <1>1, <1>2, <1>3, <1>4, <1>5, <1>6, <1>7, <1>8 DEF ConnectionNext

(* Every variable of the connection has its type, and without a child it is  *)
(* not ready (spawnSlot, lose).                                              *)
THEOREM ConnectionTypes == ConnectionSpec => []ConnectionTypeOK
  <1>1. ConnectionInit => Flags
    <2>1. ASSUME ConnectionInit PROVE spawned \in 0..MaxSpawns /\ alive \subseteq 1..spawned
      BY <2>1, ConnectionAssumption DEF ConnectionInit
    <2> QED BY <2>1 DEF ConnectionInit, Flags
  <1>2. ASSUME ConnInv, Flags PROVE ConnectionTypeOK
    <2>1. \A i \in 1..Len(joiners) : joiners[i] \in Calls
      BY <1>2 DEF ConnInv, ConnTypes
    <2>2. slot \in 0..spawned
      BY <1>2 DEF ConnInv, ConnTypes
    <2> QED BY <1>2, <2>1, <2>2 DEF ConnInv, ConnTypes, Flags, ConnectionTypeOK, Callees
  <1> QED BY ConnInit, ConnStep, FlagsStep, <1>1, <1>2, PTL DEF ConnectionSpec

-----------------------------------------------------------------------------
(* The accounts. A sign-in, and the newest credentials of an account.        *)
Session == [ph : {"new", "resolving", "live", "good", "failed", "probing", "over"},
            killed : BOOLEAN, wrote : BOOLEAN, late : BOOLEAN]

Fresh(a) == [of |-> a, v |-> newest[a]]

(* Who has begun a ceremony and not ended it holds the reservation.          *)
OneCeremony ==
    \A l \in Logins :
        /\ login[l].ph \notin {"new", "over"} => active = l
        /\ login[l].late => login[l].ph = "over"

(* What the shared file holds is the newest of its account; and before a     *)
(* login child writes there, the account it replaces is in its own snapshot. *)
SharedIsNewest == ~Missing(shared) => shared = Fresh(shared.of)
LoginKeepsOld ==
    \A l \in CodexLogins :
        /\ login[l].ph = "resolving" => Missing(shared) \/ snap[shared.of] = shared
        /\ login[l].ph = "live" /\ ~login[l].wrote => Missing(shared)
Kept == \A a \in Known : Fresh(a) \in {shared, snap[a]}

CredentialInv ==
    /\ SignInTypeOK /\ OneCeremony
    /\ ~spoiled => SharedIsNewest /\ LoginKeepsOld /\ Kept

LEMMA FilesDiffer ==
    ASSUME SignInTypeOK
    PROVE  /\ \A a \in Accounts : Fresh(a) \in Credentials /\ Fresh(a) # NoFile
           /\ \A f \in Credentials \cup {NoFile} : ~Missing(f) => f.of \in Accounts /\ f \in Credentials
           /\ \A a \in Accounts : snap[a] \in Credentials \cup {NoFile}
           /\ shared \in Credentials \cup {NoFile}
  BY SignInAssumption DEF SignInTypeOK, Credentials, NoFile, Missing, Fresh

LEMMA SignInInitInv == SignInInit => CredentialInv
  <1> SUFFICES ASSUME SignInInit PROVE CredentialInv
    OBVIOUS
  <1>4. 1 \in 1..MaxVersion /\ First \in Accounts
    BY SignInAssumption
  <1>5. \A a \in Accounts : [of |-> a, v |-> 1] \in Credentials
    BY <1>4 DEF Credentials
  <1>6. login \in [Logins -> Session]
    BY DEF SignInInit, NewLogin, Session
  <1>1. SignInTypeOK
    BY <1>4, <1>5, <1>6 DEF SignInInit, SignInTypeOK, Session
  <1>2. OneCeremony /\ LoginKeepsOld
    BY SignInAssumption DEF SignInInit, OneCeremony, LoginKeepsOld, NewLogin
  <1>3. SharedIsNewest /\ Kept
    BY SignInAssumption DEF SignInInit, SharedIsNewest, Kept, Known, Fresh
  <1> QED BY <1>1, <1>2, <1>3 DEF CredentialInv

(* captureCurrent renews the snapshot of the account the shared file names.  *)
LEMMA CaptureKeeps ==
    ASSUME SignInTypeOK, CaptureCurrent, UNCHANGED <<shared, newest>>
    PROVE  /\ snap' \in [Accounts -> Credentials \cup {NoFile}]
           /\ index' \in Accounts \cup {Nobody}
           /\ SharedIsNewest => SharedIsNewest'
           /\ Kept /\ SharedIsNewest => Kept'
           /\ Missing(shared') \/ snap'[shared'.of] = shared'
  <1>1. CASE Missing(shared)
    BY <1>1 DEF CaptureCurrent, Missing, SignInTypeOK, SharedIsNewest, Kept, Known, Fresh
  <1>2. CASE ~Missing(shared)
    <2>1. shared.of \in Accounts /\ shared \in Credentials
      BY <1>2, FilesDiffer
    <2>2. snap' = [snap EXCEPT ![shared.of] = shared] /\ index' = shared.of
      BY <1>2 DEF CaptureCurrent
    <2>3. snap' \in [Accounts -> Credentials \cup {NoFile}] /\ snap'[shared.of] = shared
      BY <2>1, <2>2 DEF SignInTypeOK
    <2>4. ASSUME Kept, SharedIsNewest PROVE Kept'
      <3> SUFFICES ASSUME NEW a \in Known' PROVE Fresh(a)' \in {shared, snap'[a]}
        BY DEF Kept
      <3>1. CASE a = shared.of
        BY <3>1, <1>2, <2>3, <2>4 DEF SharedIsNewest, Fresh
      <3>2. CASE a # shared.of
        BY <3>2, <2>1, <2>2, <2>4 DEF SignInTypeOK, Kept, Known, Fresh, Missing
      <3> QED BY <3>1, <3>2
    <2>5. SharedIsNewest => SharedIsNewest'
      BY DEF SharedIsNewest, Missing, Fresh
    <2> QED BY <2>1, <2>2, <2>3, <2>4, <2>5
  <1> QED BY <1>1, <1>2

(* switchAccount, to its end or up to the crash: the account it leaves has a *)
(* snapshot before its file is replaced.                                     *)
LEMMA CopyKeeps ==
    ASSUME SignInTypeOK, NEW a \in Accounts, NEW done \in 1..3,
           Switchable(a), CopyAccounts(a, done), UNCHANGED newest
    PROVE  /\ snap' \in [Accounts -> Credentials \cup {NoFile}]
           /\ shared' \in Credentials \cup {NoFile}
           /\ index' \in Accounts \cup {Nobody}
           /\ spoiled' \in BOOLEAN
           /\ ~spoiled' => ~spoiled /\ (SharedIsNewest /\ Kept => SharedIsNewest' /\ Kept')
  <1>1. a \in Known /\ snap[a] \in Credentials /\ (index # a \/ Missing(shared))
    BY FilesDiffer DEF Switchable, Known, Missing
  <1>2. /\ snap' = [b \in Accounts |-> IF b \in Outgoing(a) THEN shared ELSE snap[b]]
        /\ shared' \in {shared, snap[a]}
    BY DEF CopyAccounts
  <1>3. /\ snap' \in [Accounts -> Credentials \cup {NoFile}]
        /\ shared' \in Credentials \cup {NoFile}
    BY <1>2, FilesDiffer
  <1>4. index' \in Accounts \cup {Nobody} /\ spoiled' \in BOOLEAN
    BY DEF CopyAccounts, SignInTypeOK
  <1>5. ASSUME ~spoiled', SharedIsNewest, Kept PROVE SharedIsNewest' /\ Kept'
    <2>1. ~spoiled /\ ~Adrift
      BY <1>5 DEF CopyAccounts, SignInTypeOK
    <2>2. \A b \in Outgoing(a) : b = shared.of /\ ~Missing(shared) /\ b # a
      BY <2>1 DEF Adrift, Outgoing
    <2>3. shared # Fresh(a)
      <3>1. CASE Missing(shared)
        BY <3>1, FilesDiffer DEF Missing
      <3>2. CASE ~Missing(shared)
        BY <3>2, <2>1, <1>1 DEF Adrift, Fresh
      <3> QED BY <3>1, <3>2
    <2>4. snap[a] = Fresh(a)
      BY <1>1, <1>5, <2>3 DEF Kept
    <2>5. SharedIsNewest'
      BY <1>2, <1>5, <2>4 DEF SharedIsNewest, Fresh, Missing
    <2>6. ASSUME NEW b \in Known' PROVE Fresh(b)' \in {shared', snap'[b]}
      <3>1. b \in Accounts /\ Fresh(b)' = Fresh(b)
        BY <2>6 DEF Known, Fresh
      <3>2. CASE b \in Outgoing(a)
        BY <3>1, <3>2, <1>2, <1>5, <2>2 DEF SharedIsNewest, Fresh
      <3>3. CASE b \notin Outgoing(a)
        <4>1. snap'[b] = snap[b] /\ b \in Known
          BY <3>1, <3>3, <1>2, <2>6 DEF Known
        <4>2. CASE Fresh(b) = snap[b]
          BY <3>1, <4>1, <4>2
        <4>3. CASE Fresh(b) = shared /\ shared' = shared
          BY <3>1, <4>3
        <4>4. CASE Fresh(b) = shared /\ shared' = snap[a]
          <5>1. ~Missing(shared) /\ b = shared.of
            BY <3>1, <4>4, FilesDiffer DEF Missing, Fresh
          <5>2. index = b
            BY <5>1, <2>1, <4>1 DEF Adrift
          <5>3. b # a
            BY <1>1, <5>1, <5>2
          <5> QED BY <5>1, <5>2, <5>3, <3>1, <3>3, SignInAssumption DEF Outgoing
        <4> QED BY <4>1, <4>2, <4>3, <4>4, <1>2, <1>5 DEF Kept
      <3> QED BY <3>2, <3>3
    <2> QED BY <2>5, <2>6 DEF Kept
  <1>6. ~spoiled' => ~spoiled
    BY DEF CopyAccounts, SignInTypeOK
  <1> QED BY <1>3, <1>4, <1>5, <1>6

LEMMA CredentialStep == CredentialInv /\ [SignInNext]_signInVars => CredentialInv'
  <1> SUFFICES ASSUME CredentialInv, [SignInNext]_signInVars PROVE CredentialInv'
    OBVIOUS
  <1> USE SignInAssumption
  <1> DEFINE Files == UNCHANGED <<shared, snap, newest, spoiled>>
             Logged == UNCHANGED <<login, active>>
  <1>0. SignInTypeOK /\ OneCeremony
    BY DEF CredentialInv
  <1>1. ASSUME NEW l \in Logins, StartSignIn(l) PROVE CredentialInv'
    <2>1. UNCHANGED <<shared, newest, spoiled>> /\ active = Nobody
      BY <1>1 DEF StartSignIn, Refused
    <2>2. /\ snap' \in [Accounts -> Credentials \cup {NoFile}] /\ index' \in Accounts \cup {Nobody}
          /\ SharedIsNewest => SharedIsNewest'
          /\ Kept /\ SharedIsNewest => Kept'
          /\ l \in CodexLogins => Missing(shared') \/ snap'[shared'.of] = shared'
      <3>1. CASE CaptureCurrent
        BY <3>1, <2>1, <1>0, CaptureKeeps
      <3>2. CASE l \notin CodexLogins /\ UNCHANGED <<snap, index>>
        BY <3>2, <2>1, <1>0 DEF SignInTypeOK, SharedIsNewest, Kept, Known, Fresh, Missing
      <3> QED BY <1>1, <3>1, <3>2 DEF StartSignIn
    <2>3. login' = [login EXCEPT ![l].ph = "resolving"] /\ active' = l
      BY <1>1 DEF StartSignIn
    <2>4. SignInTypeOK'
      BY <1>0, <1>1, <2>1, <2>2, <2>3 DEF SignInTypeOK, StartSignIn
    <2>5. OneCeremony'
      BY <1>0, <1>1, <2>1, <2>3 DEF OneCeremony, SignInTypeOK, StartSignIn
    <2>6. \A m \in Logins : m # l => login'[m] = login[m] /\ login[m].ph \in {"new", "over"}
      BY <1>0, <2>1, <2>3 DEF SignInTypeOK, OneCeremony
    <2>7. LoginKeepsOld'
      BY <1>0, <2>2, <2>3, <2>6 DEF SignInTypeOK, LoginKeepsOld
    <2> QED BY <2>1, <2>2, <2>4, <2>5, <2>7 DEF CredentialInv
  <1>2. ASSUME NEW l \in Logins, SpawnLogin(l) PROVE CredentialInv'
    <2>0. /\ login[l].ph = "resolving" /\ active = l
          /\ UNCHANGED <<codexTurn, snap, newest, index, server, spoiled>>
      BY <1>0, <1>2 DEF SpawnLogin, OneCeremony
    <2>1. CASE /\ login' = [login EXCEPT ![l].ph = "over"] /\ UNCHANGED shared
               /\ active' = Nobody
      <3>1. SignInTypeOK' /\ OneCeremony'
        BY <1>0, <2>0, <2>1 DEF SignInTypeOK, OneCeremony
      <3>2. LoginKeepsOld => LoginKeepsOld'
        BY <1>0, <2>0, <2>1 DEF SignInTypeOK, LoginKeepsOld, Missing
      <3> QED BY <3>1, <3>2, <2>0, <2>1 DEF CredentialInv, SharedIsNewest, Kept, Known, Fresh, Missing
    <2>2. CASE /\ login' = [login EXCEPT ![l].ph = "live"] /\ UNCHANGED active
               /\ shared' = IF l \in CodexLogins THEN NoFile ELSE shared
      <3>1. SignInTypeOK' /\ OneCeremony'
        BY <1>0, <2>0, <2>2 DEF SignInTypeOK, OneCeremony
      <3>2. \A m \in Logins : m # l => login'[m] = login[m] /\ login[m].ph \in {"new", "over"}
        BY <1>0, <2>0, <2>2 DEF SignInTypeOK, OneCeremony
      <3>3. LoginKeepsOld'
        BY <1>0, <2>0, <2>2, <3>2 DEF SignInTypeOK, LoginKeepsOld, Missing
      <3>4. SharedIsNewest => SharedIsNewest'
        BY <2>0, <2>2 DEF SharedIsNewest, Missing, Fresh
      <3>5. LoginKeepsOld /\ SharedIsNewest /\ Kept => Kept'
        <4> SUFFICES ASSUME LoginKeepsOld, SharedIsNewest, Kept, NEW a \in Known'
                     PROVE  Fresh(a) \in {shared', snap[a]}
          BY <2>0 DEF Kept, Fresh
        <4>1. a \in Known /\ Fresh(a) \in {shared, snap[a]}
          BY <2>0 DEF Known, Kept
        <4>2. CASE Fresh(a) = shared /\ l \in CodexLogins
          <5>1. ~Missing(shared) /\ shared.of = a
            BY <1>0, <4>1, <4>2, FilesDiffer DEF Known, Missing, Fresh
          <5> QED BY <5>1, <4>2, <2>0 DEF LoginKeepsOld
        <4> QED BY <4>1, <4>2, <2>2
      <3> QED BY <3>1, <3>3, <3>4, <3>5, <2>0 DEF CredentialInv
    <2> QED BY <1>2, <2>0, <2>1, <2>2 DEF SpawnLogin
  (* A session that ends, or goes on without touching a file.                *)
  <1>3. ASSUME NEW l \in Logins, Files, UNCHANGED <<codexTurn, index, server>>,
               NEW r \in Session, login' = [login EXCEPT ![l] = r],
               \/ r.ph = "over" /\ active' = ReleasedBy(l)
               \/ /\ r.ph \in {"live", "good", "failed", "probing"} /\ ~r.late
                  /\ active' = active /\ active = l,
               r.ph = "live" => login[l].ph = "live" /\ r.wrote = login[l].wrote
        PROVE  CredentialInv'
    <2>1. r.ph # "resolving" /\ (r.late => r.ph = "over")
      BY <1>3
    <2>2. active' \in Logins \cup {Nobody}
      BY <1>0, <1>3 DEF SignInTypeOK, ReleasedBy
    <2>3. login' \in [Logins -> Session]
      BY <1>0, <1>3 DEF SignInTypeOK, Session
    <2>4. \A m \in Logins : login'[m] = IF m = l THEN r ELSE login[m]
      BY <1>0, <1>3 DEF SignInTypeOK
    <2>5. OneCeremony'
      <3> SUFFICES ASSUME NEW m \in Logins
                   PROVE  /\ login'[m].ph \notin {"new", "over"} => active' = m
                          /\ login'[m].late => login'[m].ph = "over"
        BY DEF OneCeremony
      <3>1. CASE m = l
        BY <3>1, <1>3, <2>4
      <3>2. CASE m # l
        BY <3>2, <1>0, <1>3, <2>4 DEF OneCeremony, ReleasedBy
      <3> QED BY <3>1, <3>2
    <2>6. LoginKeepsOld => LoginKeepsOld'
      BY <1>3, <2>1, <2>4 DEF LoginKeepsOld, Missing
    <2>7. SignInTypeOK'
      BY <1>0, <1>3, <2>2, <2>3 DEF SignInTypeOK, Session
    <2> QED BY <1>3, <2>5, <2>6, <2>7 DEF CredentialInv, SharedIsNewest, Kept, Known, Fresh, Missing
  <1>4. ASSUME NEW l \in Logins, LoginError(l) PROVE CredentialInv'
    <2> DEFINE r == [login[l] EXCEPT !.ph = "over", !.late = TRUE]
    <2>0. login[l] \in Session
      BY <1>0 DEF SignInTypeOK, Session
    <2>1. r \in Session /\ r.ph = "over"
      BY <2>0 DEF Session
    <2>2. login' = [login EXCEPT ![l] = r]
      BY <1>4 DEF LoginError
    <2> HIDE DEF r
    <2> QED BY <2>1, <2>2, <1>3, <1>4 DEF LoginError
  <1>5. ASSUME NEW l \in Logins, LateExit(l) PROVE CredentialInv'
    <2> DEFINE r == [login[l] EXCEPT !.late = FALSE]
    <2>0. login[l] \in Session /\ login[l].ph = "over"
      BY <1>0, <1>5 DEF SignInTypeOK, OneCeremony, LateExit, Session
    <2>1. r \in Session /\ r.ph = "over"
      BY <2>0 DEF Session
    <2>2. login' = [login EXCEPT ![l] = r]
      BY <1>5 DEF LateExit
    <2> HIDE DEF r
    <2> QED BY <2>1, <2>2, <1>3, <1>5 DEF LateExit
  <1>6. ASSUME NEW l \in Logins, KillLogin(l) PROVE CredentialInv'
    <2> DEFINE r == [login[l] EXCEPT !.killed = TRUE]
    <2>1. /\ r \in Session /\ r.ph = "live" /\ ~r.late /\ r.wrote = login[l].wrote
          /\ login[l].ph = "live" /\ active = l /\ login' = [login EXCEPT ![l] = r]
      BY <1>0, <1>6 DEF SignInTypeOK, OneCeremony, KillLogin, Session
    <2> HIDE DEF r
    <2> QED BY <2>1, <1>3, <1>6 DEF KillLogin
  <1>7. ASSUME NEW l \in Logins, SettleSession(l) PROVE CredentialInv'
    <2>1. CASE login[l].ph = "good" /\ login' = [login EXCEPT ![l].ph = "probing"] /\ UNCHANGED active
      <3> DEFINE r == [login[l] EXCEPT !.ph = "probing"]
      <3>1. /\ r \in Session /\ r.ph = "probing" /\ ~r.late /\ active = l
            /\ login' = [login EXCEPT ![l] = r]
        BY <1>0, <2>1 DEF SignInTypeOK, OneCeremony, Session
      <3> HIDE DEF r
      <3> QED BY <3>1, <2>1, <1>3, <1>7 DEF SettleSession
    <2>2. CASE login' = [login EXCEPT ![l].ph = "over"] /\ active' = ReleasedBy(l)
      <3> DEFINE r == [login[l] EXCEPT !.ph = "over"]
      <3>1. r \in Session /\ r.ph = "over" /\ login' = [login EXCEPT ![l] = r]
        BY <1>0, <2>2 DEF SignInTypeOK, Session
      <3> HIDE DEF r
      <3> QED BY <3>1, <2>2, <1>3, <1>7 DEF SettleSession
    <2> QED BY <1>7, <2>1, <2>2 DEF SettleSession
  <1>8. ASSUME NEW l \in Logins, NEW end \in {"good", "failed"}, ChildExits(l, end)
        PROVE  CredentialInv'
    <2> DEFINE r == [NewLogin EXCEPT !.ph = end]
    <2>1. r \in Session /\ r.ph = end /\ ~r.late
      BY DEF NewLogin, Session
    <2>2. active = l /\ login' = [login EXCEPT ![l] = r]
      BY <1>0, <1>8 DEF SignInTypeOK, OneCeremony, ChildExits
    <2> HIDE DEF r
    <2> QED BY <2>1, <2>2, <1>3, <1>8 DEF ChildExits
  (* The login child replaces a file that was saved before.                  *)
  <1>9. ASSUME NEW l \in Logins, NEW a \in Accounts, ChildSignsIn(l, a) PROVE CredentialInv'
    <2>1. /\ login[l].ph = "live" /\ l \in CodexLogins /\ ~login[l].wrote /\ newest[a] < MaxVersion
          /\ newest' = [newest EXCEPT ![a] = @ + 1]
          /\ shared' = [of |-> a, v |-> newest[a] + 1]
          /\ login' = [login EXCEPT ![l].wrote = TRUE]
          /\ UNCHANGED <<active, codexTurn, snap, index, server, spoiled>>
      BY <1>9 DEF ChildSignsIn
    <2>2. newest[a] + 1 \in 1..MaxVersion
      BY <1>0, <2>1 DEF SignInTypeOK
    <2>3. newest' \in [Accounts -> 1..MaxVersion] /\ shared' \in Credentials /\ ~Missing(shared')
      BY <1>0, <2>1, <2>2 DEF SignInTypeOK, Credentials, Missing, NoFile
    <2>4. SignInTypeOK' /\ OneCeremony'
      <3> DEFINE r == [login[l] EXCEPT !.wrote = TRUE]
      <3>1. login[l] \in Session /\ login \in [Logins -> Session]
        BY <1>0 DEF SignInTypeOK, Session
      <3>2. r \in Session /\ r.ph = login[l].ph /\ r.late = login[l].late
        BY <3>1 DEF Session
      <3>3. login' = [login EXCEPT ![l] = r]
        BY <2>1
      <3> HIDE DEF r
      <3>4. /\ login' \in [Logins -> Session]
            /\ \A m \in Logins : login'[m].ph = login[m].ph /\ login'[m].late = login[m].late
        BY <3>1, <3>2, <3>3
      <3>5. SignInTypeOK'
        BY <1>0, <2>1, <2>3, <3>4 DEF SignInTypeOK, Session
      <3> QED BY <1>0, <2>1, <3>4, <3>5 DEF OneCeremony
    <2>5. SharedIsNewest' /\ shared' = Fresh(a)'
      BY <1>0, <2>1 DEF SignInTypeOK, SharedIsNewest, Fresh
    <2>6. \A m \in Logins : m # l => login'[m] = login[m] /\ login[m].ph \in {"new", "over"}
      BY <1>0, <2>1 DEF SignInTypeOK, OneCeremony
    <2>7. LoginKeepsOld'
      BY <1>0, <2>1, <2>6 DEF SignInTypeOK, LoginKeepsOld
    <2>8. LoginKeepsOld /\ Kept => Kept'
      <3> SUFFICES ASSUME LoginKeepsOld, Kept, NEW b \in Known' PROVE Fresh(b)' \in {shared', snap[b]}
        BY <2>1 DEF Kept
      <3>1. b \in Known /\ Fresh(b) # shared
        BY <2>1, <1>0, FilesDiffer DEF LoginKeepsOld, Known, Missing
      <3>2. CASE b # a
        <4>1. Fresh(b)' = Fresh(b) /\ Fresh(b) \in {shared, snap[b]}
          BY <3>1, <3>2, <1>0, <2>1 DEF SignInTypeOK, Known, Fresh, Kept
        <4> QED BY <4>1, <3>1
      <3> QED BY <3>2, <2>5
    <2> QED BY <2>1, <2>4, <2>5, <2>7, <2>8 DEF CredentialInv
  <1>10. ASSUME NEW l \in Logins, NEW verified \in BOOLEAN, Probed(l, verified)
         PROVE  CredentialInv'
    <2>1. /\ login[l].ph = "probing" /\ login' = [login EXCEPT ![l].ph = "over"]
          /\ active' = ReleasedBy(l) /\ UNCHANGED <<shared, newest, spoiled>>
      BY <1>10 DEF Probed
    <2>2. /\ snap' \in [Accounts -> Credentials \cup {NoFile}] /\ index' \in Accounts \cup {Nobody}
          /\ SharedIsNewest => SharedIsNewest'
          /\ Kept /\ SharedIsNewest => Kept'
      <3>1. CASE CaptureCurrent
        BY <3>1, <2>1, <1>0, CaptureKeeps
      <3>2. CASE UNCHANGED <<snap, index>>
        BY <3>2, <2>1, <1>0 DEF SignInTypeOK, SharedIsNewest, Kept, Known, Fresh, Missing
      <3> QED BY <1>10, <3>1, <3>2 DEF Probed
    <2>3. codexTurn' \in {"idle", codexTurn} /\ server' \in {server, Nobody}
      BY <1>10 DEF Probed
    <2>4. SignInTypeOK'
      BY <1>0, <2>1, <2>2, <2>3 DEF SignInTypeOK, ReleasedBy
    <2>5. OneCeremony'
      BY <1>0, <2>1 DEF SignInTypeOK, OneCeremony, ReleasedBy
    <2>6. \A m \in Logins : login[m].ph \notin {"resolving", "live"} /\ login'[m].ph \notin {"resolving", "live"}
      BY <1>0, <2>1 DEF SignInTypeOK, OneCeremony
    <2>7. LoginKeepsOld'
      BY <2>6 DEF LoginKeepsOld
    <2> QED BY <2>1, <2>2, <2>4, <2>5, <2>7 DEF CredentialInv
  (* An account route: no ceremony is under way.                             *)
  <1>11. ASSUME active = Nobody PROVE LoginKeepsOld
    BY <1>0, <1>11 DEF OneCeremony, LoginKeepsOld
  <1>12. CASE Capture
    <2>1. CaptureCurrent /\ UNCHANGED <<login, active, codexTurn, shared, newest, server, spoiled>>
          /\ active = Nobody
      BY <1>12 DEF Capture, AccountsFree
    <2>2. LoginKeepsOld'
      BY <1>0, <2>1 DEF OneCeremony, LoginKeepsOld
    <2>3. SignInTypeOK' /\ OneCeremony'
      BY <1>0, <2>1, CaptureKeeps DEF SignInTypeOK, OneCeremony
    <2> QED BY <1>0, <2>1, <2>2, <2>3, CaptureKeeps DEF CredentialInv
  <1>13. ASSUME NEW a \in Accounts, SwitchAccount(a) PROVE CredentialInv'
    <2>1. active = Nobody /\ server' = Nobody /\ UNCHANGED <<login, active, codexTurn, newest>>
      BY <1>13 DEF SwitchAccount, AccountsFree
    <2>2. LoginKeepsOld' /\ OneCeremony'
      BY <1>0, <2>1 DEF OneCeremony, LoginKeepsOld
    <2>3. CASE Switchable(a) /\ CopyAccounts(a, 3)
      <3>1. /\ snap' \in [Accounts -> Credentials \cup {NoFile}]
            /\ shared' \in Credentials \cup {NoFile}
            /\ index' \in Accounts \cup {Nobody} /\ spoiled' \in BOOLEAN
            /\ ~spoiled' => ~spoiled /\ (SharedIsNewest /\ Kept => SharedIsNewest' /\ Kept')
        BY <1>0, <2>1, <2>3, CopyKeeps
      <3>2. SignInTypeOK'
        BY <1>0, <2>1, <3>1 DEF SignInTypeOK
      <3> QED BY <3>1, <3>2, <2>2 DEF CredentialInv
    <2>4. CASE CaptureCurrent /\ UNCHANGED <<shared, spoiled>>
      <3>1. SignInTypeOK'
        BY <1>0, <2>1, <2>4, CaptureKeeps DEF SignInTypeOK
      <3> QED BY <1>0, <2>1, <2>2, <2>4, <3>1, CaptureKeeps DEF CredentialInv
    <2> QED BY <1>13, <2>3, <2>4 DEF SwitchAccount
  <1>14. ASSUME NEW a \in Accounts, RemoveAccount(a) PROVE CredentialInv'
    <2>1. /\ active = Nobody /\ snap' = [snap EXCEPT ![a] = NoFile]
          /\ index' \in {index, Nobody}
          /\ UNCHANGED <<login, active, codexTurn, shared, newest, server, spoiled>>
      BY <1>14 DEF RemoveAccount, AccountsFree
    <2>2. LoginKeepsOld' /\ OneCeremony'
      BY <1>0, <2>1 DEF OneCeremony, LoginKeepsOld
    <2>3. SignInTypeOK'
      BY <1>0, <2>1 DEF SignInTypeOK
    <2>4. (Kept => Kept') /\ (SharedIsNewest => SharedIsNewest')
      BY <1>0, <2>1 DEF SignInTypeOK, Kept, Known, Fresh, Missing, SharedIsNewest
    <2> QED BY <2>1, <2>2, <2>3, <2>4 DEF CredentialInv
  <1>15. CASE CheckSignIn \/ StartTurn \/ EndTurn
    <2>1. /\ UNCHANGED <<login, active, shared, snap, newest, index, spoiled>>
          /\ codexTurn' \in {"idle", "resolving", "early", "running", "beside"}
          /\ server' \in {server, shared.of}
      BY <1>15 DEF CheckSignIn, StartTurn, EndTurn
    <2>2. shared.of \in Accounts \cup {Nobody}
      BY <1>0, FilesDiffer DEF Credentials, NoFile
    <2>3. SignInTypeOK'
      BY <1>0, <2>1, <2>2 DEF SignInTypeOK
    <2> QED BY <2>1, <2>3 DEF CredentialInv, OneCeremony, LoginKeepsOld, SharedIsNewest, Kept, Known, Fresh, Missing
  (* The app-server renews the credential of the account it works for.       *)
  <1>16. CASE Rotate
    <2>1. /\ server \in Accounts /\ newest[server] < MaxVersion
          /\ newest' = [newest EXCEPT ![server] = @ + 1]
          /\ shared' = [of |-> server, v |-> newest[server] + 1]
          /\ spoiled' = (spoiled \/ CodexActive \/ shared.of # server)
          /\ UNCHANGED <<login, active, codexTurn, snap, index, server>>
      BY <1>0, <1>16 DEF Rotate, SignInTypeOK
    <2>2. newest[server] + 1 \in 1..MaxVersion
      BY <1>0, <2>1 DEF SignInTypeOK
    <2>3. newest' \in [Accounts -> 1..MaxVersion] /\ shared' \in Credentials
      BY <1>0, <2>1, <2>2 DEF SignInTypeOK, Credentials
    <2>4. SignInTypeOK' /\ OneCeremony'
      BY <1>0, <2>1, <2>3 DEF SignInTypeOK, OneCeremony, CodexActive
    <2>5. SharedIsNewest' /\ shared' = Fresh(server)'
      BY <1>0, <2>1 DEF SignInTypeOK, SharedIsNewest, Fresh
    <2>6. ~CodexActive => LoginKeepsOld'
      BY <1>0, <2>1 DEF OneCeremony, LoginKeepsOld, CodexActive
    <2>7. shared.of = server /\ Kept => Kept'
      <3> SUFFICES ASSUME shared.of = server, Kept, NEW b \in Known' PROVE Fresh(b)' \in {shared', snap[b]}
        BY <2>1 DEF Kept
      <3>1. CASE b # server
        BY <3>1, <1>0, <2>1 DEF SignInTypeOK, Kept, Known, Fresh, Missing
      <3>2. CASE b = server
        <4>1. Fresh(b)' = [of |-> server, v |-> newest'[server]]
          BY <3>2, <2>1 DEF Fresh
        <4>2. newest'[server] = newest[server] + 1
          BY <1>0, <2>1 DEF SignInTypeOK
        <4> QED BY <4>1, <4>2, <2>1
      <3> QED BY <3>1, <3>2
    <2>8. ~spoiled' => ~spoiled /\ ~CodexActive /\ shared.of = server
      BY <1>0, <2>1 DEF SignInTypeOK, CodexActive
    <2> QED BY <2>4, <2>5, <2>6, <2>7, <2>8 DEF CredentialInv
  (* The end of the server ends every ceremony.                              *)
  <1>17. ASSUME Restarted
         PROVE  /\ UNCHANGED <<shared, snap, newest, index, spoiled>> => CredentialInv'
                /\ LoginKeepsOld' /\ OneCeremony'
                /\ login' \in [Logins -> Session] /\ active' = Nobody
                /\ codexTurn' = "idle" /\ server' = Nobody
    <2>1. /\ active' = Nobody /\ codexTurn' = "idle" /\ server' = Nobody
          /\ \A l \in Logins : login'[l] = IF login[l].ph = "new" THEN login[l]
                                             ELSE [NewLogin EXCEPT !.ph = "over"]
          /\ login' = [l \in Logins |-> login'[l]]
      BY <1>17 DEF Restarted
    <2>2. \A l \in Logins : login'[l] \in Session /\ login'[l].ph \in {"new", "over"}
                            /\ (login'[l].late => login'[l].ph = "over")
      <3> SUFFICES ASSUME NEW l \in Logins
                   PROVE  /\ login'[l] \in Session /\ login'[l].ph \in {"new", "over"}
                          /\ login'[l].late => login'[l].ph = "over"
        OBVIOUS
      <3>1. login[l] \in Session /\ (login[l].late => login[l].ph = "over")
        BY <1>0 DEF SignInTypeOK, OneCeremony, Session
      <3>2. [NewLogin EXCEPT !.ph = "over"] \in Session /\ [NewLogin EXCEPT !.ph = "over"].ph = "over"
        BY DEF NewLogin, Session
      <3> QED BY <3>1, <3>2, <2>1
    <2>3. LoginKeepsOld' /\ OneCeremony' /\ login' \in [Logins -> Session]
      BY <2>1, <2>2 DEF LoginKeepsOld, OneCeremony
    <2>4. ASSUME UNCHANGED <<shared, snap, newest, index, spoiled>> PROVE SignInTypeOK'
      BY <1>0, <2>1, <2>3, <2>4 DEF SignInTypeOK, Session
    <2> QED BY <2>1, <2>3, <2>4 DEF CredentialInv, SharedIsNewest, Kept, Known, Fresh, Missing
  <1>18. CASE Shutdown
    <2>1. Restarted /\ UNCHANGED <<shared, newest, spoiled>>
      BY <1>18 DEF Shutdown
    <2>2. /\ snap' \in [Accounts -> Credentials \cup {NoFile}] /\ index' \in Accounts \cup {Nobody}
          /\ SharedIsNewest => SharedIsNewest'
          /\ Kept /\ SharedIsNewest => Kept'
      <3>1. CASE CaptureCurrent
        BY <3>1, <2>1, <1>0, CaptureKeeps
      <3>2. CASE index' = Nobody /\ UNCHANGED snap
        BY <3>2, <2>1, <1>0 DEF SignInTypeOK, SharedIsNewest, Kept, Known, Fresh, Missing
      <3> QED BY <1>18, <3>1, <3>2 DEF Shutdown, SyncActive
    <2>3. SignInTypeOK'
      BY <1>0, <1>17, <2>1, <2>2 DEF SignInTypeOK, Session
    <2> QED BY <1>17, <2>1, <2>2, <2>3 DEF CredentialInv
  <1>19. CASE Crash
    <2>1. Restarted /\ UNCHANGED newest
      BY <1>19 DEF Crash
    <2>2. CASE UNCHANGED <<shared, snap, index, spoiled>>
      BY <1>17, <2>1, <2>2
    <2>3. ASSUME NEW a \in Accounts, NEW done \in 1..2, Switchable(a), CopyAccounts(a, done)
          PROVE  CredentialInv'
      <3>1. done \in 1..3
        OBVIOUS
      <3>2. /\ snap' \in [Accounts -> Credentials \cup {NoFile}]
            /\ shared' \in Credentials \cup {NoFile}
            /\ index' \in Accounts \cup {Nobody} /\ spoiled' \in BOOLEAN
            /\ ~spoiled' => ~spoiled /\ (SharedIsNewest /\ Kept => SharedIsNewest' /\ Kept')
        BY <1>0, <2>1, <2>3, <3>1, CopyKeeps
      <3>3. SignInTypeOK'
        BY <1>0, <1>17, <2>1, <3>2 DEF SignInTypeOK, Session
      <3> QED BY <1>17, <2>1, <3>2, <3>3 DEF CredentialInv
    <2> QED BY <1>19, <2>2, <2>3 DEF Crash
  <1>20. CASE UNCHANGED signInVars
    BY <1>20 DEF signInVars, CredentialInv, SignInTypeOK, OneCeremony, LoginKeepsOld,
                 SharedIsNewest, Kept, Known, Fresh, Missing
  <1> QED
    BY <1>1, <1>2, <1>4, <1>5, <1>6, <1>7, <1>8, <1>9, <1>10, <1>12, <1>13, <1>14,
       <1>15, <1>16, <1>18, <1>19, <1>20 DEF SignInNext

(* As long as nobody else wrote to the shared file, no account is without    *)
(* its newest credentials: they are in the shared file or in its snapshot,   *)
(* through any number of sign-ins, switches, refreshed tokens and crashes    *)
(* (startCodexLogin, switchCodexAccount, captureCurrent).                    *)
THEOREM CredentialsAreKept == SignInSpec => []CredentialsKept
  <1>1. CredentialInv => CredentialsKept
    BY DEF CredentialInv, CredentialsKept, Kept, Fresh
  <1> QED BY SignInInitInv, CredentialStep, <1>1, PTL DEF SignInSpec

(* Every variable of the sign-in has its type.                               *)
THEOREM SignInTypes == SignInSpec => []SignInTypeOK
  <1>1. CredentialInv => SignInTypeOK
    BY DEF CredentialInv
  <1> QED BY SignInInitInv, CredentialStep, <1>1, PTL DEF SignInSpec

-----------------------------------------------------------------------------
(* Whose end it is. A turn that still waits for an answer of beginTurn runs, *)
(* or the turn before it was finished in its place and nobody begins in its  *)
(* session before it is told; a slow app-server is another matter.           *)
Passed(t) == turn[t].ph = "open" \/ (turn[t].ph \in {"start", "restart"} /\ turn[t].rq = "ok")

Rested(p, s) ==
    /\ rt.cur # p \/ \A i \in DOMAIN rt.waits : turn[rt.waits[i]].pair \notin Resolved(rt)
    /\ ses[p][s].block = None => \A i \in DOMAIN ses[p][s].queue : ses[p][s].queue[i] = None

Orphan(t) ==
    /\ turn[t].rq = "error" \/ Passed(t)
    /\ ses[turn[t].pair][SessionOf[t]].running = None /\ Rested(turn[t].pair, SessionOf[t])

Asker(t) ==
    turn[t].rq # "none" =>
      /\ turn[t].ph # "open"
      /\ conn[turn[t].pair].slow \/ RunsNow(t) \/ Orphan(t)
Askers == \A t \in Turns : Asker(t)

(* The child speaks of turns that were started and that run, or that are     *)
(* remembered as stale; of the end of a turn it speaks last. A turn that     *)
(* runs is the active one as soon as it was started, is called by no other   *)
(* name, and can be interrupted.                                             *)
Told1(l, t) == l.kind = "reply" /\ l.for = t /\ l.what = "turn" /\ l.answer = "ok"
Started(p, t, n) ==
    \/ Passed(t)
    \/ turn[t].rq = "sent" /\ \E i \in DOMAIN wire[p].out : i < n /\ Told1(wire[p].out[i], t)
Own(p, t) == RunsNow(t) \/ t \in stale[p]
End1(p)   == Len(wire[p].out) + 1

Stopping(m) == m.what = "interrupt" /\ RunsNow(m.for)
LineSigns(p) == \A m \in wire[p].in : m.open /\ (Stopping(m) => m.on = m.for)
ActiveSigns(p) ==
    \A s \in Sessions : child[p][s].active # None =>
      Own(p, child[p][s].active) /\ Started(p, child[p][s].active, End1(p))
LastSign(p, j) ==
    LET x == wire[p].out[j].for IN
    /\ child[p][SessionOf[x]].active # x
    /\ \A i \in DOMAIN wire[p].out : i > j /\ wire[p].out[i].kind # "reply" => wire[p].out[i].for # x
EventSigns(p) ==
    \A j \in DOMAIN wire[p].out : wire[p].out[j].kind # "reply" =>
      /\ Own(p, wire[p].out[j].for) /\ Started(p, wire[p].out[j].for, j)
      /\ wire[p].out[j].kind # "started" => LastSign(p, j)
RunSign(t) == /\ turn[t].lid \in {None, t} /\ (turn[t].lid # None => Passed(t))
              /\ (turn[t].settle /\ turn[t].drv = "none" => IdKnown(turn, t))
              /\ turn[t].dq \notin Turns
RunSigns(p) ==
    \A t \in Turns : Begun(turn, t, p) /\ RunsNow(t) =>
      /\ RunSign(t)
      /\ Started(p, t, End1(p)) => child[p][SessionOf[t]].active \in {None, t}
FoundSigns(p) ==
    \A i \in DOMAIN wire[p].out :
      /\ wire[p].out[i].kind = "reply" /\ wire[p].out[i].what = "interrupt"
      /\ wire[p].out[i].answer \in Turns
      => ~RunsNow(wire[p].out[i].for)
Signed(p) == LineSigns(p) /\ ActiveSigns(p) /\ EventSigns(p) /\ RunSigns(p) /\ FoundSigns(p)
Signs == \A p \in Pairs : conn[p].slow \/ Signed(p)

(* What Turning and Wires say of the lines of a pair.                        *)
LEMMA LineOf ==
    ASSUME Basis, Turning, NEW p \in Pairs
    PROVE  /\ \A m \in wire[p].in : /\ m.for \in Turns /\ Begun(turn, m.for, p) /\ m.on \in Turns
                                    /\ (m.what = "interrupt" => IdKnown(turn, m.for))
           /\ \A i \in DOMAIN wire[p].out :
                wire[p].out[i].for \in Turns /\ Begun(turn, wire[p].out[i].for, p)
           /\ \A s \in Sessions : child[p][s].active # None =>
                Begun(turn, child[p][s].active, p) /\ SessionOf[child[p][s].active] = s
           /\ \A s \in Sessions : child[p][s].active \in Turns \cup {None}
<1>1. wire[p].in \subseteq Questions /\ \A i \in DOMAIN wire[p].out : wire[p].out[i] \in Answers
  BY WireParts
<1>2. \A s \in Sessions : child[p][s].active \in Turns \cup {None}
  BY BasisParts DEF KidTable
<1> QED
  BY <1>1, <1>2 DEF Turning, Heard, Speaks, Begun, Questions, Answers

LEMMA ToldSent ==
    ASSUME Basis, Wires, NEW p \in Pairs, NEW i \in DOMAIN wire[p].out,
           IsAnswer(wire[p].out[i])
    PROVE  /\ Wants(turn, p, wire[p].out[i].for, wire[p].out[i].what)
           /\ \A j \in DOMAIN wire[p].out :
                IsAnswer(wire[p].out[j]) /\ wire[p].out[j].for = wire[p].out[i].for => i = j
           /\ \A m \in wire[p].in : IsOpen(m) => m.for # wire[p].out[i].for
BY DEF Wires, Told, ToldAt

LEMMA ToldPassed ==
    ASSUME Basis, Wires, NEW p \in Pairs, NEW i \in DOMAIN wire[p].out, NEW t \in Turns,
           Told1(wire[p].out[i], t)
    PROVE  turn[t].rq = "sent" /\ turn[t].pair = p /\ turn[t].ph \notin Early /\ turn[t].ph \notin Loading
<1>1. IsAnswer(wire[p].out[i]) /\ wire[p].out[i].for = t /\ wire[p].out[i].what = "turn"
  BY DEF Told1, IsAnswer
<1>2. Wants(turn, p, t, "turn")
  BY <1>1, ToldSent
<1>3. turn[t].ph \notin Early
  BY <1>2, BasisParts DEF TurnsKnown, Wants, Early
<1> QED
  BY <1>2, <1>3 DEF Wants

(* A step that leaves the output of pair p and the active turns alone: what  *)
(* it may do to the turns that have begun there, and to those that run.      *)
StepOf(p, t) ==
    /\ turn'[t].ph \notin Early /\ turn'[t].pair = p
    /\ Passed(t) => Passed(t)'
    /\ turn[t].rq = "sent" => turn'[t].rq = "sent"
    /\ Own(p, t) /\ (Passed(t) \/ turn[t].rq = "sent") => Own(p, t)'
RunOf(p, t) ==
    /\ \/ Begun(turn, t, p) /\ RunsNow(t) /\ (Passed(t)' => Passed(t))
       \/ turn[t].ph \in Early /\ ~Passed(t)'
    /\ RunSign(t)'
SignsStay(p) ==
    /\ wire'[p].out = wire[p].out
    /\ \A s \in Sessions : child'[p][s].active = child[p][s].active
    /\ \A m \in wire'[p].in : m \in wire[p].in \/ (m.open /\ (Stopping(m)' => m.on = m.for))
    /\ \A t \in Turns : Begun(turn, t, p) => StepOf(p, t)
    /\ \A t \in Turns : Begun(turn', t, p) /\ RunsNow(t)' => RunOf(p, t)

LEMMA SignsKept ==
    ASSUME Basis, Wires, Turning, NEW p \in Pairs, Signed(p), SignsStay(p)
    PROVE  Signed(p)'
<1> DEFINE out == wire[p].out
<1>1. /\ wire'[p].out = out /\ End1(p)' = End1(p)
      /\ \A s \in Sessions : child'[p][s].active = child[p][s].active
  BY DEF SignsStay, End1
<1>2. ASSUME NEW t \in Turns, Begun(turn, t, p) PROVE StepOf(p, t)
  BY <1>2 DEF SignsStay
<1>3. ASSUME NEW t \in Turns, Begun(turn', t, p), RunsNow(t)' PROVE RunOf(p, t)
  BY <1>3 DEF SignsStay
<1>4. ASSUME NEW t \in Turns, Begun(turn, t, p), RunsNow(t)' PROVE RunsNow(t) /\ RunOf(p, t)
  <2>1. Begun(turn', t, p)
    BY <1>2, <1>4 DEF StepOf, Begun
  <2> QED
    BY <1>3, <1>4, <2>1 DEF RunOf, Begun
<1>5. ASSUME NEW t \in Turns, NEW n, Begun(turn, t, p), Started(p, t, n), Own(p, t)
      PROVE  Started(p, t, n)' /\ Own(p, t)'
  <2>1. StepOf(p, t)
    BY <1>2, <1>5
  <2>2. Own(p, t)'
    BY <1>5, <2>1 DEF StepOf, Started
  <2>3. Started(p, t, n)'
    BY <1>1, <1>5, <2>1 DEF StepOf, Started
  <2> QED
    BY <2>2, <2>3
<1>6. LineSigns(p)'
  <2> SUFFICES ASSUME NEW m \in wire'[p].in PROVE m.open /\ (Stopping(m)' => m.on = m.for)
    BY DEF LineSigns
  <2>1. CASE m \in wire[p].in
    <3>1. m.open /\ (Stopping(m) => m.on = m.for) /\ m.for \in Turns /\ Begun(turn, m.for, p)
      BY <2>1, LineOf DEF Signed, LineSigns
    <3>2. RunsNow(m.for)' => RunsNow(m.for)
      BY <1>4, <3>1
    <3> QED
      BY <3>1, <3>2 DEF Stopping
  <2> QED
    BY <2>1 DEF SignsStay
<1>7. ActiveSigns(p)'
  <2> SUFFICES ASSUME NEW s \in Sessions, child[p][s].active # None
               PROVE  Own(p, child[p][s].active)' /\ Started(p, child[p][s].active, End1(p))'
    BY <1>1 DEF ActiveSigns
  <2> PICK x \in Turns : x = child[p][s].active
    BY LineOf
  <2>1. Begun(turn, x, p) /\ Own(p, x) /\ Started(p, x, End1(p))
    BY LineOf DEF Signed, ActiveSigns
  <2> PICK n : n = End1(p)
    OBVIOUS
  <2>2. Own(p, x)' /\ Started(p, x, n)'
    BY <1>5, <2>1
  <2>3. child'[p][s].active = x /\ End1(p)' = n
    BY <1>1
  <2> QED
    BY <2>2, <2>3
<1>8. EventSigns(p)'
  <2> SUFFICES ASSUME NEW j \in DOMAIN out, out[j].kind # "reply"
               PROVE  /\ Own(p, out[j].for)' /\ Started(p, out[j].for, j)'
                      /\ out[j].kind # "started" => LastSign(p, j)'
    BY <1>1 DEF EventSigns
  <2> PICK x \in Turns : x = out[j].for
    BY LineOf
  <2>1. Begun(turn, x, p) /\ Own(p, x) /\ Started(p, x, j)
    BY LineOf DEF Signed, EventSigns
  <2>2. Own(p, x)' /\ Started(p, x, j)'
    BY <1>5, <2>1
  <2>3. out'[j].for = x
    BY <1>1
  <2>4. out[j].kind # "started" => LastSign(p, j)
    BY DEF Signed, EventSigns
  <2>5. LastSign(p, j) => LastSign(p, j)'
    BY <1>1, CodexAssumption DEF LastSign
  <2> QED
    BY <1>1, <2>2, <2>3, <2>4, <2>5
<1>9. RunSigns(p)'
  <2> SUFFICES ASSUME NEW t \in Turns, Begun(turn', t, p), RunsNow(t)'
               PROVE  /\ RunSign(t)'
                      /\ Started(p, t, End1(p))' => child'[p][SessionOf[t]].active \in {None, t}
    BY DEF RunSigns
  <2>1. RunOf(p, t)
    BY <1>3
  <2>2. ASSUME Started(p, t, End1(p))' PROVE Begun(turn, t, p) /\ RunsNow(t) /\ Started(p, t, End1(p))
    <3>1. Passed(t)' \/ \E i \in DOMAIN out : i < End1(p) /\ Told1(out[i], t)
      BY <1>1, <2>2 DEF Started
    <3>2. CASE Passed(t)'
      BY <2>1, <3>2 DEF RunOf, Started
    <3>3. CASE \E i \in DOMAIN out : i < End1(p) /\ Told1(out[i], t)
      <4>1. turn[t].rq = "sent" /\ turn[t].ph \notin Early
        BY <3>3, ToldPassed
      <4> QED
        BY <2>1, <3>3, <4>1 DEF RunOf, Started
    <3> QED
      BY <3>1, <3>2, <3>3
  <2>3. Started(p, t, End1(p))' => child[p][SessionOf[t]].active \in {None, t}
    BY <2>2 DEF Signed, RunSigns
  <2> QED
    BY <1>1, <2>1, <2>3, CodexAssumption DEF RunOf
<1>10. FoundSigns(p)'
  <2>1. ASSUME NEW i \in DOMAIN out, out[i].kind = "reply", out[i].what = "interrupt",
               out[i].answer \in Turns
        PROVE  ~RunsNow(wire[p].out[i].for)'
    <3> PICK x \in Turns : x = out[i].for
      BY LineOf
    <3>1. Begun(turn, x, p)
      BY LineOf
    <3>2. ~RunsNow(x)
      BY <2>1 DEF Signed, FoundSigns
    <3>3. ~RunsNow(x)'
      BY <1>4, <3>1, <3>2
    <3>4. wire'[p].out[i].for = x
      BY <1>1
    <3> QED
      BY <3>3, <3>4
  <2> QED
    BY <1>1, <2>1 DEF FoundSigns
<1> QED
  BY <1>6, <1>7, <1>8, <1>9, <1>10 DEF Signed

(* A turn that is left alone.                                                *)
TurnLeft(p, t) == /\ Only(turn[t], turn'[t], {}) /\ (RunsNow(t)' <=> RunsNow(t))
                  /\ stale[p] \subseteq stale'[p]

LEMMA LeftSame ==
    ASSUME NEW t, Only(turn[t], turn'[t], {})
    PROVE  /\ Passed(t)' <=> Passed(t)
           /\ RunSign(t) => RunSign(t)'
           /\ \A p : Begun(turn', t, p) <=> Begun(turn, t, p)
BY DEF Only, Passed, RunSign, IdKnown, Begun

LEMMA LeftStays ==
    ASSUME NEW p \in Pairs, NEW t \in Turns, Signed(p), TurnLeft(p, t)
    PROVE  /\ Begun(turn, t, p) => StepOf(p, t)
           /\ Begun(turn', t, p) /\ RunsNow(t)' => RunOf(p, t)
<1>1. /\ Only(turn[t], turn'[t], {}) /\ (RunsNow(t)' <=> RunsNow(t)) /\ stale[p] \subseteq stale'[p]
      /\ (Passed(t)' <=> Passed(t)) /\ (Begun(turn', t, p) <=> Begun(turn, t, p))
      /\ (RunSign(t) => RunSign(t)')
  BY LeftSame DEF TurnLeft
<1>2. Own(p, t) => Own(p, t)'
  BY <1>1 DEF Own
<1>3. Begun(turn, t, p) => StepOf(p, t)
  BY <1>1, <1>2 DEF StepOf, Begun, Only
<1>4. Begun(turn, t, p) /\ RunsNow(t) => RunSign(t)
  BY DEF Signed, RunSigns
<1> QED
  BY <1>1, <1>3, <1>4 DEF RunOf

(* Where nothing happens to the turns of pair p, and where it does to one.   *)
Stirs(p, t)  == Begun(turn, t, p) \/ (Begun(turn', t, p) /\ RunsNow(t)')
SameLines(p) == wire'[p] = wire[p] /\ \A s \in Sessions : child'[p][s].active = child[p][s].active

LEMMA AloneSigns ==
    ASSUME Basis, Wires, Turning, NEW p \in Pairs, Signed(p), SameLines(p),
           \A t \in Turns : Stirs(p, t) => TurnLeft(p, t)
    PROVE  Signed(p)'
<1>1. \A t \in Turns : Begun(turn, t, p) => StepOf(p, t)
  BY LeftStays DEF Stirs
<1>2. \A t \in Turns : Begun(turn', t, p) /\ RunsNow(t)' => RunOf(p, t)
  BY LeftStays DEF Stirs
<1>3. SignsStay(p)
  BY <1>1, <1>2 DEF SignsStay, SameLines
<1> QED
  BY <1>3, SignsKept

Joins(p) == \A m \in wire'[p].in : m \in wire[p].in \/ (m.open /\ (Stopping(m)' => m.on = m.for))

LEMMA OneSigns ==
    ASSUME Basis, Wires, Turning, NEW p \in Pairs, Signed(p), wire'[p].out = wire[p].out,
           \A s \in Sessions : child'[p][s].active = child[p][s].active, Joins(p), NEW t \in Turns,
           \A u \in Turns : u # t /\ Stirs(p, u) => TurnLeft(p, u),
           Begun(turn, t, p) => StepOf(p, t),
           Begun(turn', t, p) /\ RunsNow(t)' => RunOf(p, t)
    PROVE  Signed(p)'
<1>1. \A u \in Turns : Begun(turn, u, p) => StepOf(p, u)
  BY LeftStays DEF Stirs
<1>2. \A u \in Turns : Begun(turn', u, p) /\ RunsNow(u)' => RunOf(p, u)
  BY LeftStays DEF Stirs
<1>3. SignsStay(p)
  BY <1>1, <1>2 DEF SignsStay, Joins
<1> QED
  BY <1>3, SignsKept

LEMMA SlowSigns ==
    ASSUME Basis, Signs, SameSlow,
           \A p \in Pairs : ~conn[p].slow /\ Signed(p) => Signed(p)'
    PROVE  Signs'
BY BasisParts DEF Signs, SameSlow, ConnTable

LEMMA SamesLines == ASSUME NEW p, wire' = wire, child' = child PROVE SameLines(p) /\ Joins(p)
BY DEF SameLines, Joins

(* A turn none of whose fields moves is left alone when it runs as before.   *)
LEMMA SameTurnLeft ==
    ASSUME Basis, NEW p, NEW t \in Turns, turn' \in TurnTable, turn'[t] = turn[t],
           RunsNow(t)' <=> RunsNow(t), stale[p] \subseteq stale'[p]
    PROVE  TurnLeft(p, t)
BY DEF TurnLeft, Only, TurnTable

LEMMA EarlySigns ==
    ASSUME Basis, Wires, Turning, Signs, EarlyMoves PROVE Signs'
<1>1. SameSlow /\ SameRunning /\ wire' = wire /\ child' = child /\ stale' = stale
  BY DEF EarlyMoves
<1> SUFFICES ASSUME NEW p \in Pairs, Signed(p) PROVE Signed(p)'
  BY <1>1, SlowSigns
<1> SUFFICES ASSUME NEW t \in Turns, Stirs(p, t) PROVE TurnLeft(p, t)
  BY <1>1, SamesLines, AloneSigns
<1>2. turn[t].ph \notin Early
  <2> SUFFICES ASSUME Begun(turn', t, p), RunsNow(t)' PROVE turn[t].ph \notin Early
    BY DEF Stirs, Begun
  <2>1. turn'[t].pair = p /\ SessionOf[t] \in Sessions
    BY CodexAssumption DEF Begun
  <2>2. ses[p][SessionOf[t]].running = t
    BY <1>1, <2>1 DEF RunsNow, SameRunning
  <2> QED
    BY <2>1, <2>2, RunsKnown
<1>3. Only(turn[t], turn'[t], {})
  BY <1>2 DEF EarlyMoves
<1>4. RunsNow(t)' <=> RunsNow(t)
  BY <1>1, <1>2, <1>3, RunsSame DEF Only
<1> QED
  BY <1>1, <1>3, <1>4 DEF TurnLeft

LEMMA LostSigns ==
    ASSUME Basis, Wires, Turning, Signs, NEW p \in Pairs, Lost(p) PROVE Signs'
<1>0. /\ wire'[p] = NoLines /\ child'[p] = NewChild /\ turn' \in TurnTable
      /\ \A s \in Sessions : ses'[p][s].running = None
      /\ \A o \in Pairs \ {p}, s \in Sessions : ses'[o][s].running = ses[o][s].running
  BY DEF Lost
<1>1. Signed(p)'
  <2>1. wire'[p].in = {} /\ DOMAIN wire'[p].out = {} /\ \A s \in Sessions : child'[p][s].active = None
    BY <1>0 DEF NoLines, NewChild
  <2>2. \A t \in Turns : Begun(turn', t, p) => ~RunsNow(t)'
    BY <1>0, CodexAssumption DEF Begun, RunsNow
  <2> QED
    BY <2>1, <2>2 DEF Signed, LineSigns, ActiveSigns, EventSigns, RunSigns, FoundSigns
<1>2. ASSUME NEW o \in Pairs, o # p, ~conn'[o].slow PROVE Signed(o)'
  <2>1. Signed(o) /\ SameLines(o) /\ stale'[o] = stale[o]
    BY <1>2 DEF Lost, SameLines, Signs
  <2> SUFFICES ASSUME NEW t \in Turns, Stirs(o, t) PROVE TurnLeft(o, t)
    BY <2>1, AloneSigns
  <2>2. LostTurn(p, turn[t], turn'[t], t \in RunningIn(p))
    BY DEF Lost
  <2>3. turn[t].pair = o /\ turn'[t].pair = o
    BY <2>2 DEF Stirs, Begun, LostTurn
  <2>4. t \notin RunningIn(p)
    BY <1>2, <2>3, RunsKnown
  <2>5. Only(turn[t], turn'[t], {})
    BY <1>2, <2>2, <2>3, <2>4 DEF LostTurn, Dropped, Only
  <2>6. RunsNow(t)' <=> RunsNow(t)
    BY <1>0, <1>2, <2>3, CodexAssumption DEF RunsNow
  <2> QED
    BY <2>1, <2>5, <2>6 DEF TurnLeft
<1> QED
  BY <1>1, <1>2 DEF Signs

(* beginTurn goes on: with its next request, with an open turn, or not.      *)
LEMMA OnlyOthers ==
    ASSUME Basis, NEW p, NEW t \in Turns, NEW S, OnlyOf(turn, turn', t, S), NEW u \in Turns, u # t,
           RunsNow(u)' <=> RunsNow(u), stale[p] \subseteq stale'[p]
    PROVE  TurnLeft(p, u)
BY SameTurnLeft DEF OnlyOf

LEMMA SameRuns ==
    ASSUME Basis, SameRunning, NEW t \in Turns, turn[t].pair \in Pairs, turn'[t].pair = turn[t].pair
    PROVE  RunsNow(t)' <=> RunsNow(t)
BY CodexAssumption DEF RunsNow, SameRunning

(* A step of turns that stay on their pair, and of nobody who runs.          *)
LEMMA StirsRuns ==
    ASSUME Basis, SameRunning, \A u \in Turns : turn'[u].pair = turn[u].pair, NEW p \in Pairs,
           NEW t \in Turns, Stirs(p, t)
    PROVE  turn[t].pair = p /\ (RunsNow(t)' <=> RunsNow(t))
BY SameRuns DEF Stirs, Begun

LEMMA OnlyLeft ==
    ASSUME Basis, SameRunning, NEW t \in Turns, NEW S, OnlyOf(turn, turn', t, S), "pair" \notin S,
           NEW p \in Pairs, stale[p] \subseteq stale'[p], NEW u \in Turns, u # t, Stirs(p, u)
    PROVE  TurnLeft(p, u)
<1>1. \A v \in Turns : turn'[v].pair = turn[v].pair
  BY OnlyOfPairs
<1> QED
  BY <1>1, StirsRuns, OnlyOthers

LEMMA PairSigns ==
    ASSUME Basis, Wires, Turning, Signs, SameSlow, NEW o \in Pairs, NEW t \in Turns,
           turn[t].pair = o, turn'[t].pair = o, child' = child,
           \A q \in Pairs \ {o} : wire'[q] = wire[q],
           \A q \in Pairs \ {o}, u \in Turns : u # t /\ Stirs(q, u) => TurnLeft(q, u),
           ~conn[o].slow /\ Signed(o) =>
             /\ wire'[o].out = wire[o].out /\ Joins(o)
             /\ \A u \in Turns : u # t /\ Stirs(o, u) => TurnLeft(o, u)
             /\ Begun(turn, t, o) => StepOf(o, t)
             /\ Begun(turn', t, o) /\ RunsNow(t)' => RunOf(o, t)
    PROVE  Signs'
<1> SUFFICES ASSUME NEW p \in Pairs, Signed(p), ~conn[p].slow PROVE Signed(p)'
  BY SlowSigns
<1>1. CASE p = o
  BY <1>1, OneSigns
<1>2. CASE p # o
  <2>1. SameLines(p)
    BY <1>2 DEF SameLines
  <2>2. ~Stirs(p, t)
    BY <1>2 DEF Stirs, Begun
  <2>3. \A u \in Turns : Stirs(p, u) => TurnLeft(p, u)
    BY <1>2, <2>2
  <2> QED
    BY <2>1, <2>3, AloneSigns
<1> QED
  BY <1>1, <1>2

LEMMA AsksSigns ==
    ASSUME Basis, Wires, Turning, Signs, NEW t \in Turns, Asks1(t) PROVE Signs'
<1> DEFINE o == turn[t].pair
<1>1. /\ Sends(o, t) /\ SameSessions /\ stale' = stale
      /\ \/ turn[t].rq = "ok" /\ turn[t].ph \in Loading
         \/ turn[t].rq = "missing" /\ turn[t].ph = "start"
  BY DEF Asks1
<1>2. SameRunning /\ SameSlow /\ child' = child /\ o \in Pairs /\ turn[t].ph \notin Early
  <2>1. SameRunning
    BY <1>1 DEF SameSessions, SameSession, SameRunning
  <2>2. o \in Pairs /\ turn[t].ph \notin Early
    BY <1>1, BasisParts DEF TurnsKnown, Early, Loading
  <2> QED
    BY <1>1, <2>1, <2>2 DEF Sends, SameSlow
<1>3. PICK ph \in {"load", "start", "reload", "restart"}, x \in {"sent", "joined", "error"} :
      /\ OnlyOf(turn, turn', t, {"ph", "rq"}) /\ turn'[t].ph = ph /\ turn'[t].rq = x
      /\ IF x = "sent" THEN wire'[o].in = wire[o].in \cup {LineFor(t, ph)}
                       ELSE wire'[o].in = wire[o].in
      /\ wire'[o].out = wire[o].out /\ \A q \in Pairs \ {o} : wire'[q] = wire[q]
  BY <1>1 DEF Sends
<1>4. turn'[t].pair = o /\ ~Passed(t)' /\ ~Passed(t) /\ turn[t].rq # "sent" /\ turn'[t].ph \notin Early
  BY <1>1, <1>3 DEF OnlyOf, Only, Passed, Early, Loading
<1>5. RunsNow(t)' <=> RunsNow(t)
  BY <1>2, <1>4, SameRuns
<1>6. \A p \in Pairs, u \in Turns : u # t /\ Stirs(p, u) => TurnLeft(p, u)
  BY <1>1, <1>2, <1>3, OnlyLeft
<1>7. Joins(o)
  <2>1. LineFor(t, ph).open /\ LineFor(t, ph).what # "interrupt"
    BY DEF LineFor, LoadLine, StartLine, Line
  <2> QED
    BY <1>3, <2>1 DEF Joins, Stopping
<1>8. StepOf(o, t)
  <2>1. Own(o, t) => Own(o, t)'
    BY <1>1, <1>4, <1>5 DEF Own
  <2> QED
    BY <1>4, <2>1 DEF StepOf
<1>9. ASSUME Signed(o), RunsNow(t)' PROVE RunOf(o, t)
  <2>1. Begun(turn, t, o) /\ RunsNow(t)
    BY <1>2, <1>5, <1>9 DEF Begun
  <2>2. RunSign(t)
    BY <1>2, <1>9, <2>1 DEF Signed, RunSigns
  <2>3. RunSign(t)'
    BY <1>3, <1>4, <2>2 DEF RunSign, OnlyOf, Only, IdKnown
  <2> QED
    BY <1>4, <2>1, <2>3 DEF RunOf
<1> QED
  BY <1>2, <1>3, <1>4, <1>6, <1>7, <1>8, <1>9, PairSigns

LEMMA AskerRuns ==
    ASSUME Basis, Askers, NEW t \in Turns, turn[t].rq # "none"
    PROVE  /\ turn[t].ph # "open" /\ turn[t].pair \in Pairs /\ turn[t].ph \notin Early
           /\ ~conn[turn[t].pair].slow => ses[turn[t].pair][SessionOf[t]].running \in {t, None}
BY BasisParts DEF Askers, Asker, RunsNow, Orphan, TurnsKnown, Early

LEMMA OpensSigns ==
    ASSUME Basis, Wires, Turning, Askers, Signs, NEW t \in Turns, Opens(t) PROVE Signs'
<1> PICK o \in Pairs : o = turn[t].pair
  BY AskerRuns DEF Opens
<1> DEFINE r == ses[o][SessionOf[t]].running
<1>1. /\ turn[t].rq = "ok" /\ turn[t].ph \in {"start", "restart"}
      /\ turn' \in TurnTable /\ turn'[t].ph = "open" /\ turn'[t].rq = "none" /\ turn'[t].pid
      /\ Only(turn[t], turn'[t], {"ph", "rq", "pid", "drv", "settle"})
      /\ ses' = ses /\ stale' = stale /\ wire' = wire /\ child' = child /\ SameSlow
  BY DEF Opens
<1>2. \A u \in Turns : /\ u # t => Only(turn[u], turn'[u], {"drv", "settle"})
                       /\ u # r => Idle(turn[u], turn'[u])
  BY Zenon DEF Opens
<1>3. o \in Pairs /\ turn'[t].pair = o /\ (~conn[o].slow => r \in {t, None})
  BY <1>1, AskerRuns DEF Only
<1>4. \A u \in Turns : RunsNow(u)' <=> ses[turn'[u].pair][SessionOf[u]].running = u
  BY <1>1 DEF RunsNow
<1> HIDE DEF r
<1>5. ASSUME NEW p \in Pairs, NEW u \in Turns, u # t, u # r, Stirs(p, u)
      PROVE  TurnLeft(p, u)
  <2>1. Only(turn[u], turn'[u], {})
    BY <1>2, <1>5 DEF Only, Idle
  <2>2. RunsNow(u)' <=> RunsNow(u)
    BY <1>4, <2>1 DEF RunsNow, Only
  <2> QED
    BY <1>1, <2>1, <2>2 DEF TurnLeft
<1>6. \A p \in Pairs \ {o}, u \in Turns : u # t /\ Stirs(p, u) => TurnLeft(p, u)
  <2> SUFFICES ASSUME NEW p \in Pairs \ {o}, NEW u \in Turns, u # t, Stirs(p, u) PROVE u # r
    BY <1>5
  <2>1. turn[u].pair = p
    BY <1>2 DEF Stirs, Begun, Only
  <2>2. u = r => turn[u].pair = o
    BY <1>3, RunsKnown, CodexAssumption DEF r
  <2> QED
    BY <2>1, <2>2
<1>7. ~conn[o].slow => \A u \in Turns : u # t /\ Stirs(o, u) => TurnLeft(o, u)
  BY <1>3, <1>5, CodexAssumption
<1>8. Passed(t) /\ Passed(t)' /\ turn'[t].ph \notin Early /\ Begun(turn, t, o)
      /\ (RunsNow(t)' <=> RunsNow(t))
  <2>1. Passed(t) /\ Passed(t)' /\ turn'[t].ph \notin Early /\ Begun(turn, t, o)
    BY <1>1 DEF Passed, Early, Begun
  <2>2. RunsNow(t)' <=> RunsNow(t)
    BY <1>3, <1>4 DEF RunsNow
  <2> QED
    BY <2>1, <2>2
<1>9. StepOf(o, t)
  <2>1. Own(o, t) => Own(o, t)'
    BY <1>1, <1>8 DEF Own
  <2> QED
    BY <1>1, <1>3, <1>8, <2>1 DEF StepOf
<1>10. ASSUME Signed(o), RunsNow(t)' PROVE RunOf(o, t)
  <2>1. RunSign(t)
    BY <1>8, <1>10 DEF Signed, RunSigns
  <2>2. RunSign(t)'
    BY <1>1, <1>8, <2>1 DEF RunSign, Only, IdKnown
  <2> QED
    BY <1>8, <1>10, <2>2 DEF RunOf
<1> QED
  BY <1>1, <1>3, <1>6, <1>7, <1>9, <1>10, SamesLines, PairSigns

LEMMA FailsSigns ==
    ASSUME Basis, Wires, Turning, Askers, Signs, NEW t \in Turns, Fails(t) PROVE Signs'
<1> DEFINE o == turn[t].pair
           s == SessionOf[t]
           r == ses[o][s].running
<1>1. /\ turn[t].rq \in {"error", "missing"}
      /\ turn' \in TurnTable /\ turn'[t].ph = "open" /\ turn'[t].rq = "none"
      /\ Only(turn[t], turn'[t], {"ph", "rq", "out", "settle"})
      /\ RunsThen(o, s, None)
      /\ stale' = stale /\ wire' = wire /\ child' = child /\ SameSlow
  BY DEF Fails
<1>2. \A u \in Turns : /\ u # t => Only(turn[u], turn'[u], {"out", "settle"})
                       /\ u # r => turn'[u].out = turn[u].out /\ turn'[u].settle = turn[u].settle
  BY DEF Fails
<1>3. /\ o \in Pairs /\ turn'[t].pair = o /\ (~conn[o].slow => r \in {t, None})
      /\ turn[t].ph # "open" /\ s \in Sessions
  BY <1>1, AskerRuns, CodexAssumption DEF Only
<1> HIDE DEF o, r, s
<1>4. ASSUME NEW p \in Pairs, NEW u \in Turns, u # t, u # r, Stirs(p, u)
      PROVE  TurnLeft(p, u)
  <2>1. Only(turn[u], turn'[u], {})
    BY <1>2, <1>4 DEF Only
  <2>2. turn'[u].pair = turn[u].pair /\ turn[u].ph \notin Early
    BY <1>4, <2>1 DEF Stirs, Begun, Only
  <2>3. (ses'[o][s].running = u) <=> (ses[o][s].running = u)
    BY <1>1, <1>4, CodexAssumption DEF RunsThen, r
  <2>4. OtherSessions(o, s)
    BY <1>1 DEF RunsThen
  <2>5. RunsNow(u)' <=> RunsNow(u)
    BY <1>3, <2>2, <2>3, <2>4, OthersRun
  <2> QED
    BY <1>1, <2>1, <2>5 DEF TurnLeft
<1>5. \A p \in Pairs \ {o}, u \in Turns : u # t /\ Stirs(p, u) => TurnLeft(p, u)
  <2> SUFFICES ASSUME NEW p \in Pairs \ {o}, NEW u \in Turns, u # t, Stirs(p, u) PROVE u # r
    BY <1>4
  <2>1. turn[u].pair = p
    BY <1>2 DEF Stirs, Begun, Only
  <2>2. u = r => turn[u].pair = o
    BY <1>3, RunsKnown, CodexAssumption DEF r, o
  <2> QED
    BY <2>1, <2>2
<1>6. ~conn[o].slow => \A u \in Turns : u # t /\ Stirs(o, u) => TurnLeft(o, u)
  BY <1>3, <1>4, CodexAssumption
<1>7. StepOf(o, t)
  BY <1>1, <1>3 DEF StepOf, Passed, Early
<1>8. ~RunsNow(t)'
  BY <1>1, <1>3, CodexAssumption DEF RunsNow, RunsThen, s
<1> QED
  BY <1>1, <1>3, <1>5, <1>6, <1>7, <1>8, SamesLines, PairSigns DEF o

(* The driver of turn t goes on, or its settle wait ends.                    *)
LEMMA DrivesSigns ==
    ASSUME Basis, Wires, Turning, Signs, NEW t \in Turns, Drives1(t) PROVE Signs'
<1>1. /\ AsksFor(t) \/ Found(t) \/ Again(t) \/ Leaves(t)
      /\ UNCHANGED <<ses, stale, child>> /\ SameSlow
  BY DEF Drives1
<1>2. turn[t].ph \notin Early
  <2>1. turn[t].ph \in Early => turn[t].dq = "none" /\ turn[t].drv = "none"
    BY DEF Turning, TurnsRun, Unbegun
  <2>2. "none" \notin Turns
    BY NoTurns DEF Requests
  <2> QED
    BY <1>1, <2>1, <2>2 DEF AsksFor, Found, Again, Leaves
<1> PICK o \in Pairs : o = turn[t].pair
  BY <1>2, RunsKnown
<1>3. OnlyOf(turn, turn', t, {"dq", "drv", "lid", "settle"})
  <2>1. \/ OnlyOf(turn, turn', t, {"dq", "drv"}) \/ OnlyOf(turn, turn', t, {"dq", "lid"})
        \/ OnlyOf(turn, turn', t, {"dq", "drv", "settle"})
    BY <1>1 DEF AsksFor, Found, Again, Leaves
  <2> QED
    BY <2>1, OnlyMore
<1>4. turn'[t].pair = o /\ turn'[t].ph = turn[t].ph /\ turn'[t].rq = turn[t].rq
      /\ turn'[t].pid = turn[t].pid
  BY <1>3 DEF OnlyOf, Only
<1>5. SameRunning /\ (RunsNow(t)' <=> RunsNow(t)) /\ (Passed(t)' <=> Passed(t))
  <2>1. SameRunning
    BY <1>1, SessionsSame
  <2> QED
    BY <1>4, <2>1, SameRuns DEF Passed
<1>6. \A p \in Pairs, u \in Turns : u # t /\ Stirs(p, u) => TurnLeft(p, u)
  <2>1. "pair" \notin {"dq", "drv", "lid", "settle"} /\ \A p \in Pairs : stale[p] \subseteq stale'[p]
    BY <1>1
  <2> QED
    BY <1>3, <1>5, <2>1, OnlyLeft
<1>7. StepOf(o, t)
  <2>1. Own(o, t) => Own(o, t)'
    BY <1>1, <1>5 DEF Own
  <2> QED
    BY <1>2, <1>4, <1>5, <2>1 DEF StepOf
<1>8. \A q \in Pairs \ {o} : wire'[q] = wire[q]
  BY <1>1 DEF AsksFor, Found, Again, Leaves, Requests1
<1>9. wire'[o].out = wire[o].out
  BY <1>1 DEF AsksFor, Found, Again, Leaves, Requests1
<1>10. ASSUME Signed(o), ~conn[o].slow PROVE Joins(o) /\ (RunsNow(t)' => RunOf(o, t))
  <2>1. RunsNow(t) => RunSign(t) /\ turn[t].out = "none"
    BY <1>2, <1>10, RunsKnown DEF Signed, RunSigns, Begun
  <2>2. ~Found(t)
    <3> SUFFICES ASSUME Found(t) PROVE FALSE
      OBVIOUS
    <3>1. turn[t].out = "none" /\ turn[t].dq \in Turns
      BY DEF Found
    <3>2. RunsNow(t)
      BY <1>2, <3>1, RunsKnown
    <3> QED
      BY <2>1, <3>1, <3>2 DEF RunSign
  <2>3. Joins(o)
    <3>1. CASE AsksFor(t)
      <4>1. Requests1(o, t, WireId(t))
        BY <3>1 DEF AsksFor
      <4>2. \A m \in wire'[o].in : m \in wire[o].in \/ m = Line(t, "interrupt", WireId(t))
        BY <4>1 DEF Requests1
      <4> DEFINE y == Line(t, "interrupt", WireId(t))
      <4>3. y.open /\ y.for = t /\ y.on = WireId(t)
        BY DEF Line
      <4>4. RunsNow(t)' => WireId(t) = t
        BY <1>5, <2>1 DEF RunSign, WireId
      <4> PICK z : z = y
        OBVIOUS
      <4>5. z.open /\ (Stopping(z)' => z.on = z.for)
        BY <4>3, <4>4 DEF Stopping
      <4> QED
        BY <4>2, <4>5 DEF Joins
    <3>2. CASE Again(t) \/ Leaves(t)
      BY <3>2 DEF Again, Leaves, Joins
    <3> QED
      BY <1>1, <2>2, <3>1, <3>2
  <2>4. ASSUME RunsNow(t)' PROVE RunOf(o, t)
    <3>1. RunsNow(t) /\ Begun(turn, t, o)
      BY <1>2, <1>5, <2>4 DEF Begun
    <3>2. turn'[t].lid = turn[t].lid /\ turn'[t].dq \notin Turns
      <4>1. "none" \notin Turns /\ "sent" \notin Turns /\ "joined" \notin Turns /\ "error" \notin Turns
        BY NoTurns DEF Requests
      <4>2. turn'[t].dq \in {"none", "sent", "joined", "error"}
        BY <1>1, <2>2 DEF AsksFor, Again, Leaves, Requests1
      <4>3. turn'[t].lid = turn[t].lid
        BY <1>1, <2>2 DEF AsksFor, Again, Leaves, OnlyOf, Only
      <4> QED
        BY <4>1, <4>2, <4>3
    <3>3. turn'[t].settle /\ turn'[t].drv = "none" => IdKnown(turn, t)
      <4>1. CASE AsksFor(t) \/ Again(t)
        BY <4>1 DEF AsksFor, Again
      <4>2. CASE Leaves(t)
        BY <1>10, <2>1, <3>1, <4>2 DEF Leaves
      <4> QED
        BY <1>1, <2>2, <4>1, <4>2
    <3>4. RunSign(t)'
      BY <1>4, <1>5, <2>1, <3>1, <3>2, <3>3 DEF RunSign, IdKnown
    <3> QED
      BY <1>5, <3>1, <3>4 DEF RunOf
  <2> QED
    BY <2>3, <2>4
<1> QED
  BY <1>1, <1>4, <1>6, <1>7, <1>8, <1>9, <1>10, PairSigns

LEMMA GivesUpSigns ==
    ASSUME Basis, Wires, Turning, Signs, NEW t \in Turns, GivesUp(t) PROVE Signs'
<1> PICK o \in Pairs : o = turn[t].pair
  BY DEF GivesUp, Finishes
<1>1. /\ ses[o][SessionOf[t]].running = t /\ OnlyOf(turn, turn', t, {"out", "settle"})
      /\ RunsThen(o, SessionOf[t], None) /\ stale'[o] = StaleAfter(o, t, "interrupted")
      /\ (\A q \in Pairs \ {o} : stale'[q] = stale[q]) /\ child' = child /\ SameSlow /\ wire' = wire
      /\ turn[t].settle /\ (turn[t].drv = "none" \/ conn[o].slow)
  BY DEF GivesUp, Finishes
<1>2. /\ turn'[t].pair = o /\ turn'[t].ph = turn[t].ph /\ turn'[t].rq = turn[t].rq
      /\ turn[t].ph \notin Early /\ RunsNow(t)
  BY <1>1, RunsKnown, CodexAssumption DEF OnlyOf, Only
<1>3. \A p \in Pairs : stale[p] \subseteq stale'[p]
  BY <1>1 DEF StaleAfter
<1>4. ASSUME NEW p \in Pairs, NEW u \in Turns, u # t, Stirs(p, u) PROVE TurnLeft(p, u)
  <2>1. turn'[u] = turn[u]
    BY <1>1, <1>4 DEF OnlyOf
  <2>2. turn[u].ph \notin Early
    BY <1>4, <2>1 DEF Stirs, Begun
  <2>3. (ses'[o][SessionOf[t]].running = u) <=> (ses[o][SessionOf[t]].running = u)
    BY <1>1, <1>4, CodexAssumption DEF RunsThen
  <2>4. OtherSessions(o, SessionOf[t])
    BY <1>1 DEF RunsThen
  <2>5. RunsNow(u)' <=> RunsNow(u)
    BY <2>1, <2>2, <2>3, <2>4, OthersRun, CodexAssumption
  <2> QED
    BY <1>1, <1>3, <1>4, <2>5, OnlyOthers
<1>5. ~RunsNow(t)'
  BY <1>1, <1>2, CodexAssumption DEF RunsNow, RunsThen
<1>6. ASSUME Signed(o), ~conn[o].slow PROVE StepOf(o, t)
  <2>1. RunSign(t) /\ IdKnown(turn, t)
    BY <1>1, <1>2, <1>6 DEF Signed, RunSigns, Begun, RunSign
  <2>2. t \in stale'[o]
    BY <1>1, <2>1 DEF StaleAfter, RunSign, IdKnown
  <2> QED
    BY <1>2, <2>2 DEF StepOf, Passed, Own
<1> QED
  BY <1>1, <1>2, <1>4, <1>5, <1>6, SamesLines, PairSigns

(* A step that moves no turn, and that makes nobody run.                     *)
LEMMA StillSigns ==
    ASSUME Basis, Wires, Turning, Signs, turn' = turn, wire' = wire, child' = child, stale' = stale,
           \A p \in Pairs, s \in Sessions : ses'[p][s].running = ses[p][s].running,
           \A p \in Pairs : conn[p].slow => conn'[p].slow
    PROVE  Signs'
<1> SUFFICES ASSUME NEW p \in Pairs, Signed(p) PROVE Signed(p)'
  BY DEF Signs
<1> SUFFICES ASSUME NEW t \in Turns, Stirs(p, t) PROVE TurnLeft(p, t)
  BY SamesLines, AloneSigns
<1>1. turn[t].pair = p /\ SessionOf[t] \in Sessions
  BY CodexAssumption DEF Stirs, Begun
<1>2. RunsNow(t)' <=> RunsNow(t)
  BY <1>1 DEF RunsNow
<1> QED
  BY <1>2, SameTurnLeft, BasisParts

LEMMA SlowsSigns == ASSUME Basis, Wires, Turning, Signs, Slows PROVE Signs'
BY StillSigns DEF Slows

LEMMA PopsSigns ==
    ASSUME Basis, Wires, Turning, Signs, NEW p \in Pairs, NEW s \in Sessions, Pops(p, s) PROVE Signs'
<1>1. \A o \in Pairs, z \in Sessions : ses'[o][z].running = ses[o][z].running
  BY DEF Pops, QueueGoes, OtherSessions, SameSession
<1>2. \A o \in Pairs : conn[o].slow => conn'[o].slow
  BY DEF Pops, SameSlow
<1> QED
  BY <1>1, <1>2, StillSigns DEF Pops, QueueGoes

LEMMA BeginsSigns ==
    ASSUME Basis, Wires, Turning, Signs, NEW p \in Pairs, NEW s \in Sessions, NEW h \in Turns,
           Begins(p, s, h)
    PROVE  Signs'
<1>1. /\ ses[p][s].running = None /\ ses'[p][s].running = h /\ OtherSessions(p, s) /\ stale' = stale
      /\ turn[h].ph = "queued" /\ turn[h].pair = p /\ SessionOf[h] = s
  BY DEF Begins, QueueGoes
<1>2. PICK ph \in {"load", "start", "reload", "restart"}, x \in {"sent", "joined", "error"} :
      /\ OnlyOf(turn, turn', h, {"ph", "rq"}) /\ turn'[h].ph = ph /\ turn'[h].rq = x
      /\ IF x = "sent" THEN wire'[p].in = wire[p].in \cup {LineFor(h, ph)}
                       ELSE wire'[p].in = wire[p].in
      /\ wire'[p].out = wire[p].out /\ (\A q \in Pairs \ {p} : wire'[q] = wire[q])
      /\ SameSlow /\ child' = child
  BY DEF Begins, Sends, SameSlow
<1>3. ASSUME NEW o \in Pairs, NEW u \in Turns, u # h, Stirs(o, u) PROVE TurnLeft(o, u)
  <2>1. turn'[u] = turn[u]
    BY <1>2, <1>3 DEF OnlyOf
  <2>2. turn[u].ph \notin Early
    BY <1>3, <2>1 DEF Stirs, Begun
  <2>3. (ses'[p][s].running = u) <=> (ses[p][s].running = u)
    BY <1>1, <1>3, CodexAssumption
  <2>4. RunsNow(u)' <=> RunsNow(u)
    BY <1>1, <2>1, <2>2, <2>3, OthersRun
  <2> QED
    BY <1>1, <1>2, <1>3, <2>4, OnlyOthers
<1>4. Joins(p)
  <2>1. LineFor(h, ph).open /\ LineFor(h, ph).what # "interrupt"
    BY DEF LineFor, LoadLine, StartLine, Line
  <2> QED
    BY <1>2, <2>1 DEF Joins, Stopping
<1>5. turn[h].ph \in Early /\ ~Begun(turn, h, p)
  BY <1>1 DEF Early, Begun
<1>6. RunOf(p, h)
  <2>1. Unbegun(h)
    BY <1>5 DEF Turning, TurnsRun
  <2>2. "none" \notin Turns
    BY NoTurns DEF Requests
  <2>3. RunSign(h)'
    BY <1>2, <2>1, <2>2 DEF RunSign, OnlyOf, Only, Unbegun
  <2>4. ~Passed(h)'
    BY <1>2 DEF Passed
  <2> QED
    BY <1>5, <2>3, <2>4 DEF RunOf
<1>7. turn'[h].pair = p
  BY <1>1, <1>2 DEF OnlyOf, Only
<1> QED
  BY <1>1, <1>2, <1>3, <1>4, <1>5, <1>6, <1>7, PairSigns

LEMMA StopsSigns ==
    ASSUME Basis, Wires, Turning, Signs, NEW p \in Pairs, NEW s \in Sessions, NEW r \in Turns,
           Stops(p, s, r)
    PROVE  Signs'
<1>1. /\ r = ses[p][s].running /\ OnlyOf(turn, turn', r, {"drv", "settle"})
      /\ IF turn[r].drv = "none"
           THEN turn'[r].drv = "live" /\ turn'[r].settle = turn[r].settle
           ELSE turn'[r].drv = turn[r].drv
      /\ ses'[p][s].running = r /\ OtherSessions(p, s) /\ UNCHANGED <<wire, child, stale>> /\ SameSlow
  BY DEF Stops
<1>2. turn[r].pair = p /\ SessionOf[r] = s /\ turn[r].ph \notin Early /\ RunsNow(r)
  BY <1>1, RunsKnown
<1>3. ASSUME NEW o \in Pairs, NEW u \in Turns, Stirs(o, u) PROVE RunsNow(u)' <=> RunsNow(u)
  <2>1. turn'[u].pair = turn[u].pair /\ turn'[u].ph = turn[u].ph
    BY <1>1 DEF OnlyOf, Only
  <2>2. turn[u].ph \notin Early
    BY <1>3, <2>1 DEF Stirs, Begun
  <2> QED
    BY <1>1, <2>1, <2>2, OthersRun
<1>4. \A o \in Pairs, u \in Turns : u # r /\ Stirs(o, u) => TurnLeft(o, u)
  BY <1>1, <1>3, OnlyOthers
<1>5. /\ turn'[r].pair = p /\ turn'[r].ph = turn[r].ph /\ turn'[r].rq = turn[r].rq
      /\ (Passed(r)' <=> Passed(r)) /\ Begun(turn, r, p) /\ RunsNow(r)'
  <2>1. turn'[r].pair = p /\ turn'[r].ph = turn[r].ph /\ turn'[r].rq = turn[r].rq
    BY <1>1, <1>2 DEF OnlyOf, Only
  <2>2. Begun(turn, r, p) /\ Stirs(p, r)
    BY <1>2 DEF Begun, Stirs
  <2> QED
    BY <1>2, <1>3, <2>1, <2>2 DEF Passed
<1>6. StepOf(p, r)
  BY <1>2, <1>5 DEF StepOf, Own
<1>7. Signed(p) => RunOf(p, r)
  <2> SUFFICES ASSUME Signed(p) PROVE RunOf(p, r)
    OBVIOUS
  <2>1. RunSign(r)
    BY <1>2, <1>5 DEF Signed, RunSigns
  <2>2. RunSign(r)'
    BY <1>1, <1>5, <2>1 DEF RunSign, OnlyOf, Only, IdKnown
  <2> QED
    BY <1>2, <1>5, <2>2 DEF RunOf
<1> QED
  BY <1>1, <1>2, <1>4, <1>5, <1>6, <1>7, SamesLines, PairSigns

LEMMA RunsOutSigns ==
    ASSUME Basis, Wires, Turning, Signs, NEW t \in Turns, RunsOut(t) PROVE Signs'
<1> PICK o \in Pairs : o = turn[t].pair
  BY DEF RunsOut
<1>1. /\ conn[o].slow /\ (\A q \in Pairs \ {o} : wire'[q] = wire[q])
      /\ UNCHANGED <<ses, stale, child>> /\ SameSlow
  BY DEF RunsOut
<1>2. OnlyOf(turn, turn', t, {"rq"}) \/ OnlyOf(turn, turn', t, {"dq"})
  BY DEF RunsOut
<1>3. SameRunning
  BY <1>1, SessionsSame
<1>4. \A p \in Pairs, u \in Turns : u # t /\ Stirs(p, u) => TurnLeft(p, u)
  <2>1. \A p \in Pairs : stale[p] \subseteq stale'[p]
    BY <1>1
  <2>2. "pair" \notin {"rq"} /\ "pair" \notin {"dq"}
    OBVIOUS
  <2> QED
    BY <1>2, <1>3, <2>1, <2>2, OnlyLeft
<1>5. turn'[t].pair = o
  BY <1>2 DEF OnlyOf, Only
<1> QED
  BY <1>1, <1>4, <1>5, PairSigns

LEMMA HandshakenSigns ==
    ASSUME Basis, Wires, Turning, Signs, NEW p \in Pairs, Handshaken(p) PROVE Signs'
<1>1. /\ turn' \in TurnTable /\ (\A u \in Turns : Only(turn[u], turn'[u], {"rq", "dq"}))
      /\ wire'[p].in = wire[p].in \cup JoinedLines(p) /\ wire'[p].out = wire[p].out
      /\ (\A o \in Pairs \ {p} : wire'[o] = wire[o])
      /\ UNCHANGED <<ses, stale, child>> /\ SameSlow
  BY DEF Handshaken
<1>2. \A u \in Turns : IF turn[u].pair = p
                         THEN turn'[u].rq = Sent(turn[u].rq) /\ turn'[u].dq = Sent(turn[u].dq)
                         ELSE turn'[u].rq = turn[u].rq /\ turn'[u].dq = turn[u].dq
  BY DEF Handshaken
<1>3. \A u \in Turns : turn'[u].pair = turn[u].pair /\ turn'[u].ph = turn[u].ph
                       /\ (RunsNow(u)' <=> RunsNow(u))
  BY <1>1 DEF Only, RunsNow
<1> SUFFICES ASSUME NEW o \in Pairs, Signed(o) PROVE Signed(o)'
  BY <1>1, SlowSigns
<1>4. CASE o # p
  <2>1. SameLines(o)
    BY <1>1, <1>4 DEF SameLines
  <2> SUFFICES ASSUME NEW u \in Turns, Stirs(o, u) PROVE TurnLeft(o, u)
    BY <2>1, AloneSigns
  <2>2. turn[u].pair # p
    BY <1>3, <1>4 DEF Stirs, Begun
  <2>3. turn'[u].rq = turn[u].rq /\ turn'[u].dq = turn[u].dq
    BY <1>2, <2>2
  <2>4. Only(turn[u], turn'[u], {})
    BY <1>1, <2>3 DEF Only
  <2> QED
    BY <1>1, <1>3, <2>4 DEF TurnLeft
<1>5. CASE o = p
  <2>1. Joins(o)
    <3> SUFFICES ASSUME NEW m \in JoinedLines(p) PROVE m.open /\ (Stopping(m)' => m.on = m.for)
      BY <1>1, <1>5 DEF Joins
    <3>1. \/ \E u \in Turns : m = LoadLine(u) \/ m = StartLine(u)
          \/ \E u \in Turns : /\ turn[u].pair = p /\ turn[u].dq = "joined"
                              /\ m = Line(u, "interrupt", IF turn[u].lid # None THEN turn[u].lid ELSE u)
      BY DEF JoinedLines
    <3>2. CASE \E u \in Turns : m = LoadLine(u) \/ m = StartLine(u)
      BY <3>2 DEF Line, LoadLine, StartLine, Stopping
    <3>3. ASSUME NEW u \in Turns, turn[u].pair = p, turn[u].dq = "joined",
                 m = Line(u, "interrupt", IF turn[u].lid # None THEN turn[u].lid ELSE u)
          PROVE  m.open /\ (Stopping(m)' => m.on = m.for)
      <4>1. m.open /\ m.for = u /\ m.on = IF turn[u].lid # None THEN turn[u].lid ELSE u
        BY <3>3 DEF Line
      <4>2. turn[u].ph \notin Early
        BY <3>3 DEF Turning, TurnsRun, Unbegun
      <4>3. RunsNow(u) => turn[u].lid \in {None, u}
        BY <1>5, <3>3, <4>2 DEF Signed, RunSigns, RunSign, Begun
      <4> QED
        BY <1>3, <4>1, <4>3 DEF Stopping
    <3> QED
      BY <3>1, <3>2, <3>3
  <2>2. ASSUME NEW u \in Turns, turn[u].pair = p
        PROVE  /\ (Passed(u)' <=> Passed(u)) /\ (turn[u].rq = "sent" => turn'[u].rq = "sent")
               /\ (RunSign(u) => RunSign(u)') /\ (Own(o, u) => Own(o, u)')
    <3>1. turn'[u].rq = Sent(turn[u].rq) /\ turn'[u].dq = Sent(turn[u].dq)
      BY <1>2, <2>2
    <3>2. Passed(u)' <=> Passed(u)
      BY <1>3, <3>1 DEF Passed, Sent
    <3>3. turn[u].rq = "sent" => turn'[u].rq = "sent"
      BY <3>1 DEF Sent
    <3>4. turn[u].dq \notin Turns => turn'[u].dq \notin Turns
      BY <3>1, NoTurns DEF Sent, Requests
    <3>5. RunSign(u) => RunSign(u)'
      <4>1. Only(turn[u], turn'[u], {"rq", "dq"})
        BY <1>1
      <4> QED
        BY <3>2, <3>4, <4>1 DEF RunSign, Only, IdKnown
    <3>6. Own(o, u) => Own(o, u)'
      BY <1>1, <1>3 DEF Own
    <3> QED
      BY <3>2, <3>3, <3>5, <3>6
  <2>3. ASSUME NEW u \in Turns, Begun(turn, u, o) PROVE StepOf(o, u)
    BY <1>3, <1>5, <2>2, <2>3 DEF StepOf, Begun
  <2>4. ASSUME NEW u \in Turns, Begun(turn', u, o), RunsNow(u)' PROVE RunOf(o, u)
    <3>1. Begun(turn, u, o) /\ RunsNow(u)
      BY <1>3, <2>4 DEF Begun
    <3>2. RunSign(u)
      BY <3>1 DEF Signed, RunSigns
    <3>3. turn[u].pair = p
      BY <1>5, <3>1 DEF Begun
    <3> QED
      BY <2>2, <3>1, <3>2, <3>3 DEF RunOf
  <2>5. SignsStay(o)
    BY <1>1, <1>5, <2>1, <2>3, <2>4 DEF SignsStay, Joins
  <2> QED
    BY <2>5, SignsKept
<1> QED
  BY <1>4, <1>5

(* The child writes: the lines before are there still.                       *)
LEMMA SameState ==
    ASSUME UNCHANGED <<turn, ses, stale>>
    PROVE  /\ \A t : /\ Passed(t)' <=> Passed(t)
                     /\ RunsNow(t)' <=> RunsNow(t)
                     /\ RunSign(t)' <=> RunSign(t)
                     /\ \A p : (Own(p, t)' <=> Own(p, t)) /\ (Begun(turn', t, p) <=> Begun(turn, t, p))
           /\ \A m : Stopping(m)' <=> Stopping(m)
BY DEF Passed, RunsNow, RunSign, IdKnown, Own, Begun, Stopping

(* Who has been started, by the lines the child has written by now.          *)
EndNow(p) == Len(wire'[p].out) + 1
StartedNow(p, t, n) ==
    \/ Passed(t)
    \/ turn[t].rq = "sent" /\ \E i \in DOMAIN wire'[p].out : i < n /\ Told1(wire'[p].out[i], t)

LEMMA GrownStarted ==
    ASSUME Basis, Basis', NEW p \in Pairs, Grown(p), NEW t
    PROVE  /\ \A n : Started(p, t, n) => StartedNow(p, t, n)
           /\ \A n \in Nat : Started(p, t, End1(p)) /\ n >= End1(p) => StartedNow(p, t, n)
           /\ Started(p, t, End1(p)) => StartedNow(p, t, EndNow(p))
           /\ StartedNow(p, t, EndNow(p)) =>
                (Started(p, t, End1(p))
                  \/ (turn[t].rq = "sent" /\ \E i \in New(p) : Told1(wire'[p].out[i], t)))
<1>0. wire[p].out \in Seq(Answers) /\ wire'[p].out \in Seq(Answers)
  BY DEF Basis, WireTable
<1>1. PICK k \in Nat, n \in Nat : k = Len(wire[p].out) /\ n = Len(wire'[p].out)
  BY <1>0, LenProperties
<1>2. DOMAIN wire[p].out = 1..k /\ DOMAIN wire'[p].out = 1..n
  BY <1>0, <1>1, LenProperties
<1>3. /\ End1(p) = k + 1 /\ EndNow(p) = n + 1 /\ k <= n
      /\ \A i \in 1..k : i \in 1..n /\ wire'[p].out[i] = wire[p].out[i]
  BY <1>1, <1>2 DEF End1, EndNow, Grown
<1>4. \A x : Started(p, t, x) => StartedNow(p, t, x)
  BY <1>2, <1>3 DEF Started, StartedNow
<1>5. ASSUME NEW x \in Nat, Started(p, t, k + 1), x >= k + 1 PROVE StartedNow(p, t, x)
  BY <1>2, <1>3, <1>5 DEF Started, StartedNow
<1>6. ASSUME StartedNow(p, t, n + 1)
      PROVE  Started(p, t, k + 1) \/ (turn[t].rq = "sent" /\ \E i \in New(p) : Told1(wire'[p].out[i], t))
  <2>1. CASE Passed(t)
    BY <2>1 DEF Started
  <2>2. CASE ~Passed(t)
    <3>1. PICK i \in 1..n : Told1(wire'[p].out[i], t)
      BY <1>2, <1>6, <2>2 DEF StartedNow
    <3>2. turn[t].rq = "sent"
      BY <1>6, <2>2 DEF StartedNow
    <3>3. CASE i \in 1..k
      BY <1>2, <1>3, <3>1, <3>2, <3>3 DEF Started
    <3>4. CASE i \notin 1..k
      BY <1>2, <3>1, <3>2, <3>4 DEF New
    <3> QED
      BY <3>3, <3>4
  <2> QED
    BY <2>1, <2>2
<1>7. \A x \in Nat : Started(p, t, k + 1) /\ x >= k + 1 => StartedNow(p, t, x)
  BY <1>5
<1>8. Started(p, t, k + 1) => StartedNow(p, t, n + 1)
  BY <1>3, <1>7
<1> QED
  BY <1>3, <1>4, <1>6, <1>7, <1>8

Wrote(p) == /\ UNCHANGED <<turn, ses, stale>> /\ wire'[p].in \subseteq wire[p].in /\ Grown(p)
LastNow(p, j) ==
    LET x == wire'[p].out[j].for IN
    /\ child'[p][SessionOf[x]].active # x
    /\ \A i \in DOMAIN wire'[p].out : i > j /\ wire'[p].out[i].kind # "reply" => wire'[p].out[i].for # x

LEMMA WroteSigns ==
    ASSUME Basis, Basis', Wires, Turning, NEW p \in Pairs, Signed(p), Wrote(p),
           \A s \in Sessions : child'[p][s].active \notin {None, child[p][s].active} =>
             Own(p, child'[p][s].active) /\ StartedNow(p, child'[p][s].active, EndNow(p)),
           \A j \in New(p) : wire'[p].out[j].kind # "reply" =>
             /\ Own(p, wire'[p].out[j].for) /\ StartedNow(p, wire'[p].out[j].for, j)
             /\ wire'[p].out[j].kind # "started" => LastNow(p, j),
           \A j \in DOMAIN wire[p].out : wire[p].out[j].kind \notin {"reply", "started"} =>
             /\ child'[p][SessionOf[wire[p].out[j].for]].active # wire[p].out[j].for
             /\ \A i \in New(p) : wire'[p].out[i].kind # "reply" => wire'[p].out[i].for # wire[p].out[j].for,
           \A t \in Turns : Begun(turn, t, p) /\ RunsNow(t) /\ StartedNow(p, t, EndNow(p)) =>
             child'[p][SessionOf[t]].active \in {None, t},
           \A i \in New(p) : /\ wire'[p].out[i].kind = "reply" /\ wire'[p].out[i].what = "interrupt"
                             /\ wire'[p].out[i].answer \in Turns
                             => ~RunsNow(wire'[p].out[i].for)
    PROVE  Signed(p)'
<1> DEFINE out == wire[p].out
           now == wire'[p].out
<1>0. UNCHANGED <<turn, ses, stale>> /\ wire'[p].in \subseteq wire[p].in /\ Grown(p)
  BY DEF Wrote
<1>1. /\ \A t : /\ Passed(t)' <=> Passed(t)
                /\ RunsNow(t)' <=> RunsNow(t)
                /\ RunSign(t)' <=> RunSign(t)
                /\ Own(p, t)' <=> Own(p, t)
                /\ Begun(turn', t, p) <=> Begun(turn, t, p)
      /\ \A m : Stopping(m)' <=> Stopping(m)
  BY <1>0, SameState
<1>2. \A i \in DOMAIN now : (i \in DOMAIN out /\ now[i] = out[i]) \/ i \in New(p)
  BY <1>0 DEF Grown, New
<1>3. \A t, n : StartedNow(p, t, n) <=> Started(p, t, n)'
  BY <1>0, <1>1 DEF Started, StartedNow
<1>9. /\ \A t, n : Started(p, t, n) => StartedNow(p, t, n)
      /\ \A t : Started(p, t, End1(p)) => StartedNow(p, t, EndNow(p))
  BY <1>0, GrownStarted
<1>10. \A t : Started(p, t, End1(p))' <=> StartedNow(p, t, EndNow(p))
  BY <1>0, <1>1 DEF Started, StartedNow, EndNow, End1
<1>4. LineSigns(p)'
  BY <1>0, <1>1 DEF Signed, LineSigns
<1>5. ActiveSigns(p)'
  <2> SUFFICES ASSUME NEW s \in Sessions, NEW x, x = child'[p][s].active, x # None
               PROVE  Own(p, x) /\ StartedNow(p, x, EndNow(p))
    BY <1>1, <1>10 DEF ActiveSigns
  <2>1. CASE x = child[p][s].active
    <3>1. Own(p, x) /\ Started(p, x, End1(p))
      BY <2>1 DEF Signed, ActiveSigns
    <3> QED
      BY <1>9, <3>1
  <2>2. CASE x # child[p][s].active
    BY <2>2
  <2> QED
    BY <2>1, <2>2
<1>6. EventSigns(p)'
  <2> SUFFICES ASSUME NEW j \in DOMAIN now, now[j].kind # "reply"
               PROVE  /\ Own(p, now[j].for) /\ StartedNow(p, now[j].for, j)
                      /\ now[j].kind # "started" => LastNow(p, j)
    BY <1>1, <1>3 DEF EventSigns, LastSign, LastNow
  <2> PICK x : x = now[j].for
    OBVIOUS
  <2>1. CASE j \in DOMAIN out /\ now[j] = out[j]
    <3>1. Own(p, x) /\ Started(p, x, j) /\ (now[j].kind # "started" => LastSign(p, j))
      BY <2>1 DEF Signed, EventSigns
    <3>2. now[j].kind # "started" => LastNow(p, j)
      <4> SUFFICES ASSUME now[j].kind # "started" PROVE LastNow(p, j)
        OBVIOUS
      <4>1. child'[p][SessionOf[x]].active # x
        BY <2>1
      <4>2. ASSUME NEW i \in DOMAIN now, i > j, now[i].kind # "reply" PROVE now[i].for # x
        <5>1. CASE i \in New(p)
          BY <2>1, <4>2, <5>1
        <5>2. CASE i \in DOMAIN out /\ now[i] = out[i]
          BY <2>1, <3>1, <4>2, <5>2 DEF LastSign
        <5> QED
          BY <1>2, <5>1, <5>2
      <4> QED
        BY <4>1, <4>2 DEF LastNow
    <3> QED
      BY <1>9, <3>1, <3>2
  <2>2. CASE j \in New(p)
    BY <2>2
  <2> QED
    BY <1>2, <2>1, <2>2
<1>7. RunSigns(p)'
  <2> SUFFICES ASSUME NEW t \in Turns, Begun(turn, t, p), RunsNow(t)
               PROVE  RunSign(t) /\ (StartedNow(p, t, EndNow(p)) => child'[p][SessionOf[t]].active \in {None, t})
    BY <1>1, <1>10 DEF RunSigns
  <2> QED
    BY DEF Signed, RunSigns
<1>8. FoundSigns(p)'
  <2> SUFFICES ASSUME NEW i \in DOMAIN now, now[i].kind = "reply", now[i].what = "interrupt",
                      now[i].answer \in Turns
               PROVE  ~RunsNow(now[i].for)
    BY <1>1 DEF FoundSigns
  <2> QED
    BY <1>2 DEF Signed, FoundSigns
<1> QED
  BY <1>4, <1>5, <1>6, <1>7, <1>8 DEF Signed

(* Where the child writes an answer, a turn that was named by its answer is  *)
(* started, and the active turn is started or ends.                          *)
LEMMA NowLast ==
    ASSUME Basis, Basis', NEW p \in Pairs, NEW k, NEW x, Tells(p, k, x)
    PROVE  \E n \in New(p) : /\ n = Len(wire'[p].out) /\ IsEvent(wire'[p].out[n], k, x)
                             /\ n \in Nat /\ EndNow(p) = n + 1 /\ n >= End1(p) /\ End1(p) \in Nat
                             /\ DOMAIN wire'[p].out = 1..n
                             /\ \A i \in DOMAIN wire'[p].out : ~(i > n)
<1>0. wire[p].out \in Seq(Answers) /\ wire'[p].out \in Seq(Answers)
  BY DEF Basis, WireTable
<1>1. PICK j \in Nat, n \in Nat : j = Len(wire[p].out) /\ n = Len(wire'[p].out)
  BY <1>0, LenProperties
<1>2. DOMAIN wire[p].out = 1..j /\ DOMAIN wire'[p].out = 1..n
  BY <1>0, <1>1, LenProperties
<1>3. j < n /\ IsEvent(wire'[p].out[n], k, x)
  BY <1>1 DEF Tells
<1>4. n \in New(p)
  BY <1>2, <1>3 DEF New
<1>5. End1(p) = j + 1 /\ EndNow(p) = n + 1
  BY <1>1 DEF End1, EndNow
<1>6. n >= End1(p) /\ End1(p) \in Nat
  BY <1>3, <1>5
<1>7. \A i \in DOMAIN wire'[p].out : ~(i > n)
  BY <1>2
<1> WITNESS n \in New(p)
<1>8. /\ n = Len(wire'[p].out) /\ IsEvent(wire'[p].out[n], k, x)
      /\ n \in Nat /\ EndNow(p) = n + 1
  BY <1>1, <1>3, <1>5
<1> QED
  BY <1>2, <1>6, <1>7, <1>8, Zenon

LEMMA KnownActive ==
    ASSUME NEW p, Turning, NEW y \in Turns, RunSigns(p), Begun(turn, y, p), RunsNow(y), IdKnown(turn, y)
    PROVE  child[p][SessionOf[y]].active \in {None, y}
<1>1. RunSign(y) /\ (Started(p, y, End1(p)) => child[p][SessionOf[y]].active \in {None, y})
  BY DEF RunSigns
<1>2. Drivable(y)
  BY DEF Turning, TurnsRun
<1>3. Passed(y)
  BY <1>1, <1>2 DEF RunSign, IdKnown, Drivable, Passed
<1> QED
  BY <1>1, <1>3 DEF Started

LEMMA AnswersSigns ==
    ASSUME Basis, Basis', Wires, Turning, NEW p \in Pairs, Signed(p), UNCHANGED <<turn, ses, stale>>,
           NEW m \in wire[p].in, NEW a, Answers1(p, m, a)
    PROVE  Signed(p)'
<1>1. /\ wire'[p].in \subseteq wire[p].in /\ Grown(p)
      /\ \A i \in New(p) : IsReply(wire'[p].out[i], m, a)
      /\ \A s \in Sessions : child'[p][s].active = child[p][s].active
      /\ a \in Turns => m.what = "interrupt" /\ a = child[p][SessionOf[m.for]].active /\ a # m.on
      /\ m.what = "turn" => a # "ok"
  BY DEF Answers1
<1>2. Wrote(p)
  BY <1>1 DEF Wrote
<1>3. \A i \in New(p) : wire'[p].out[i].kind = "reply"
  BY <1>1 DEF IsReply
<1>4. \A j \in DOMAIN wire[p].out : wire[p].out[j].kind \notin {"reply", "started"} =>
        child[p][SessionOf[wire[p].out[j].for]].active # wire[p].out[j].for
  BY DEF Signed, EventSigns, LastSign
<1>5. \A j \in DOMAIN wire[p].out : SessionOf[wire[p].out[j].for] \in Sessions
  BY LineOf, CodexAssumption
<1>6. ASSUME NEW t \in Turns, Begun(turn, t, p), RunsNow(t), StartedNow(p, t, EndNow(p))
      PROVE  child'[p][SessionOf[t]].active \in {None, t}
  <2>1. ~\E i \in New(p) : Told1(wire'[p].out[i], t)
    BY <1>1 DEF IsReply, Told1
  <2>2. Started(p, t, End1(p))
    BY <1>1, <1>6, <2>1, GrownStarted
  <2>3. SessionOf[t] \in Sessions
    BY CodexAssumption
  <2> QED
    BY <1>1, <1>6, <2>2, <2>3 DEF Signed, RunSigns
<1>7. ASSUME NEW i \in New(p), wire'[p].out[i].what = "interrupt", wire'[p].out[i].answer \in Turns
      PROVE  ~RunsNow(wire'[p].out[i].for)
  <2>1. a \in Turns /\ m.what = "interrupt" /\ wire'[p].out[i].for = m.for
    BY <1>1, <1>7 DEF IsReply
  <2>2. SUFFICES ASSUME RunsNow(m.for) PROVE FALSE
    BY <2>1
  <2>3. m.for \in Turns /\ Begun(turn, m.for, p) /\ IdKnown(turn, m.for)
    BY <2>1, LineOf
  <2>4. m.on = m.for
    BY <2>1, <2>2 DEF Signed, LineSigns, Stopping
  <2>5. child[p][SessionOf[m.for]].active \in {None, m.for}
    BY <2>2, <2>3, KnownActive DEF Signed
  <2> QED
    BY <1>1, <2>1, <2>4, <2>5, CodexAssumption
<1> QED
  BY <1>1, <1>2, <1>3, <1>4, <1>5, <1>6, <1>7, WroteSigns

Ceases(p, s, x) ==
    /\ x \in Turns /\ Becomes(p, s, x, None) /\ \E k : k \notin {"reply", "started"} /\ Tells(p, k, x)
    /\ wire'[p].in \subseteq wire[p].in
    /\ \A i \in New(p) :
         i = Len(wire'[p].out) \/ (/\ wire'[p].out[i].kind = "reply" /\ wire'[p].out[i].what # "turn"
                                   /\ wire'[p].out[i].answer = "ok")

LEMMA CeasesSigns ==
    ASSUME Basis, Basis', Wires, Turning, NEW p \in Pairs, Signed(p), UNCHANGED <<turn, ses, stale>>,
           NEW s \in Sessions, NEW x, Ceases(p, s, x)
    PROVE  Signed(p)'
<1>1. x \in Turns /\ Becomes(p, s, x, None) /\ wire'[p].in \subseteq wire[p].in
  BY DEF Ceases
<1>2. PICK k : k \notin {"reply", "started"} /\ Tells(p, k, x)
  BY DEF Ceases
<1>3. PICK n \in New(p) : /\ n = Len(wire'[p].out) /\ IsEvent(wire'[p].out[n], k, x)
                          /\ n \in Nat /\ EndNow(p) = n + 1 /\ n >= End1(p) /\ End1(p) \in Nat
                          /\ \A i \in DOMAIN wire'[p].out : ~(i > n)
  BY <1>2, NowLast
<1>4. Grown(p) /\ wire'[p].out[n].kind = k /\ wire'[p].out[n].for = x
  BY <1>2, <1>3 DEF Tells, IsEvent
<1>5. Wrote(p)
  BY <1>1, <1>4 DEF Wrote
<1>6. \A i \in New(p) : i = n \/ (/\ wire'[p].out[i].kind = "reply" /\ wire'[p].out[i].what # "turn"
                                  /\ wire'[p].out[i].answer = "ok")
  BY <1>3 DEF Ceases
<1>7. /\ child[p][s].active = x /\ child'[p][s].active = None /\ x # None
      /\ \A z \in Sessions \ {s} : child'[p][z].active = child[p][z].active
  BY <1>1, CodexAssumption DEF Becomes
<1>8. SessionOf[x] = s
  BY <1>7, LineOf
<1>9. \A t \in Turns : SessionOf[t] \in Sessions
  BY CodexAssumption
<1>10. Own(p, x) /\ Started(p, x, End1(p))
  BY <1>7 DEF Signed, ActiveSigns
<1>11. StartedNow(p, x, n)
  BY <1>3, <1>4, <1>10, GrownStarted
<1>12. \A z \in Sessions : child'[p][z].active \in {None, child[p][z].active}
  BY <1>7
<1>13. LastNow(p, n)
  BY <1>3, <1>4, <1>7, <1>8 DEF LastNow
<1>14. ASSUME NEW j \in DOMAIN wire[p].out, wire[p].out[j].kind \notin {"reply", "started"}
       PROVE  /\ child'[p][SessionOf[wire[p].out[j].for]].active # wire[p].out[j].for
              /\ wire[p].out[j].for # x
  <2>1. child[p][SessionOf[wire[p].out[j].for]].active # wire[p].out[j].for
    BY <1>14 DEF Signed, EventSigns, LastSign
  <2>2. wire[p].out[j].for \in Turns
    BY LineOf
  <2> QED
    BY <1>7, <1>8, <1>9, <1>12, <2>1, <2>2, CodexAssumption
<1>15. ASSUME NEW t \in Turns, Begun(turn, t, p), RunsNow(t), StartedNow(p, t, EndNow(p))
       PROVE  child'[p][SessionOf[t]].active \in {None, t}
  <2>1. ~\E i \in New(p) : Told1(wire'[p].out[i], t)
    BY <1>2, <1>4, <1>6 DEF Told1
  <2>2. Started(p, t, End1(p))
    BY <1>4, <1>15, <2>1, GrownStarted
  <2> QED
    BY <1>9, <1>12, <1>15, <2>2 DEF Signed, RunSigns
<1>16. \A i \in New(p) : wire'[p].out[i].kind = "reply" => wire'[p].out[i].answer \notin Turns
  <2>1. "ok" \notin Turns
    BY TurnsAssumption DEF Requests
  <2> QED
    BY <1>2, <1>4, <1>6, <2>1
<1>17. \A j \in New(p) : wire'[p].out[j].kind # "reply" =>
         /\ Own(p, wire'[p].out[j].for) /\ StartedNow(p, wire'[p].out[j].for, j)
         /\ wire'[p].out[j].kind # "started" => LastNow(p, j)
  BY <1>4, <1>6, <1>10, <1>11, <1>13
<1>18. \A j \in DOMAIN wire[p].out : wire[p].out[j].kind \notin {"reply", "started"} =>
         /\ child'[p][SessionOf[wire[p].out[j].for]].active # wire[p].out[j].for
         /\ \A i \in New(p) : wire'[p].out[i].kind # "reply" => wire'[p].out[i].for # wire[p].out[j].for
  BY <1>4, <1>6, <1>14
<1> QED
  BY <1>5, <1>12, <1>15, <1>16, <1>17, <1>18, WroteSigns

(* A turn that is started was asked for, and no line named it before.        *)
LEMMA SentRuns ==
    ASSUME Askers, NEW t \in Turns, turn[t].rq = "sent", ~conn[turn[t].pair].slow
    PROVE  RunsNow(t) /\ ~Passed(t)
BY DEF Askers, Asker, Orphan, Passed

LEMMA StartsSigns ==
    ASSUME Basis, Basis', Wires, Turning, Askers, NEW p \in Pairs, Signed(p), ~conn[p].slow,
           UNCHANGED <<turn, ses, stale>>, NEW m \in wire[p].in, Starts1(p, m)
    PROVE  Signed(p)'
<1>1. /\ m.what = "turn" /\ Becomes(p, SessionOf[m.for], None, m.for)
      /\ wire'[p].in = wire[p].in \ {m} /\ Tells(p, "started", m.for)
      /\ \A i \in New(p) : i = Len(wire'[p].out) \/ IsReply(wire'[p].out[i], m, "ok")
      /\ m.open => Len(wire[p].out) + 1 \in New(p) \ {Len(wire'[p].out)}
  BY DEF Starts1, TellsToo
<1>2. m.open /\ IsOpen(m) /\ m.for \in Turns
  BY <1>1, LineOf DEF Signed, LineSigns, IsOpen
<1> PICK x \in Turns : x = m.for
  BY <1>2
<1> PICK s \in Sessions : s = SessionOf[x]
  BY CodexAssumption
<1>3. turn[x].rq = "sent" /\ turn[x].pair = p
  BY <1>1, <1>2 DEF Wires, Asked, AskedAt, Wants
<1>4. RunsNow(x) /\ ~Passed(x)
  BY <1>3, SentRuns
<1>5. PICK n \in New(p) : /\ n = Len(wire'[p].out) /\ IsEvent(wire'[p].out[n], "started", x)
                          /\ n \in Nat /\ EndNow(p) = n + 1 /\ n >= End1(p) /\ End1(p) \in Nat
                          /\ DOMAIN wire'[p].out = 1..n
  BY <1>1, NowLast
<1>6. Grown(p) /\ wire'[p].out[n].kind = "started" /\ wire'[p].out[n].for = x
  BY <1>1, <1>5 DEF Tells, IsEvent
<1>7. Wrote(p)
  BY <1>1, <1>6 DEF Wrote
<1>8. \A i \in New(p) : i = n \/ (/\ wire'[p].out[i].kind = "reply" /\ wire'[p].out[i].for = x
                                  /\ wire'[p].out[i].what = "turn" /\ wire'[p].out[i].answer = "ok")
  BY <1>1, <1>5 DEF IsReply
<1>9. PICK k : k \in New(p) /\ k # n
  BY <1>1, <1>2, <1>5
<1>10. k \in 1..n /\ k < n /\ k < n + 1 /\ Told1(wire'[p].out[k], x)
  <2>1. k \in 1..n
    BY <1>5, <1>9 DEF New
  <2>2. Told1(wire'[p].out[k], x)
    BY <1>8, <1>9 DEF Told1
  <2>3. k < n /\ k < n + 1
    BY <1>5, <1>9, <2>1
  <2> QED
    BY <2>1, <2>2, <2>3
<1>11. StartedNow(p, x, n) /\ StartedNow(p, x, EndNow(p))
  BY <1>3, <1>5, <1>10 DEF StartedNow
<1>12. ASSUME NEW j, Started(p, x, j) PROVE FALSE
  <2>1. PICK i \in DOMAIN wire[p].out : Told1(wire[p].out[i], x)
    BY <1>4, <1>12 DEF Started
  <2>2. IsAnswer(wire[p].out[i]) /\ wire[p].out[i].for = x
    BY <2>1 DEF Told1, IsAnswer
  <2> QED
    BY <1>2, <2>2, ToldSent
<1>13. /\ child[p][s].active = None /\ child'[p][s].active = x /\ x # None
       /\ \A z \in Sessions \ {s} : child'[p][z].active = child[p][z].active
  BY <1>1, CodexAssumption DEF Becomes
<1>14. Own(p, x)
  BY <1>4 DEF Own
<1>15. \A z \in Sessions : child'[p][z].active \notin {None, child[p][z].active} =>
         Own(p, child'[p][z].active) /\ StartedNow(p, child'[p][z].active, EndNow(p))
  BY <1>11, <1>13, <1>14
<1>16. \A j \in New(p) : wire'[p].out[j].kind # "reply" =>
         /\ Own(p, wire'[p].out[j].for) /\ StartedNow(p, wire'[p].out[j].for, j)
         /\ wire'[p].out[j].kind # "started" => LastNow(p, j)
  BY <1>6, <1>8, <1>11, <1>14
<1>17. ASSUME NEW j \in DOMAIN wire[p].out, wire[p].out[j].kind \notin {"reply", "started"}
       PROVE  /\ child'[p][SessionOf[wire[p].out[j].for]].active # wire[p].out[j].for
              /\ \A i \in New(p) : wire'[p].out[i].kind # "reply" => wire'[p].out[i].for # wire[p].out[j].for
  <2> PICK y : y = wire[p].out[j].for
    OBVIOUS
  <2>1. y \in Turns
    BY LineOf
  <2>2. child[p][SessionOf[y]].active # y /\ Started(p, y, j)
    BY <1>17 DEF Signed, EventSigns, LastSign
  <2>3. y # x
    BY <1>12, <2>2
  <2>4. SessionOf[y] \in Sessions
    BY <2>1, CodexAssumption
  <2> QED
    BY <1>6, <1>8, <1>13, <2>2, <2>3, <2>4
<1>18. ASSUME NEW t \in Turns, Begun(turn, t, p), RunsNow(t), StartedNow(p, t, EndNow(p))
       PROVE  child'[p][SessionOf[t]].active \in {None, t}
  <2>1. CASE SessionOf[t] = s
    <3>1. t = x
      BY <1>3, <1>4, <1>18, <2>1 DEF RunsNow, Begun
    <3> QED
      BY <1>13, <2>1, <3>1
  <2>2. CASE SessionOf[t] # s
    <3>1. t # x
      BY <2>2
    <3>2. ~\E i \in New(p) : Told1(wire'[p].out[i], t)
      BY <1>6, <1>8, <3>1 DEF Told1
    <3>3. Started(p, t, End1(p))
      BY <1>6, <1>18, <3>2, GrownStarted
    <3>4. SessionOf[t] \in Sessions
      BY CodexAssumption
    <3> QED
      BY <1>13, <1>18, <2>2, <3>3, <3>4 DEF Signed, RunSigns
  <2> QED
    BY <2>1, <2>2
<1>19. \A i \in New(p) : wire'[p].out[i].kind = "reply" => wire'[p].out[i].what # "interrupt"
  BY <1>6, <1>8
<1> QED
  BY <1>7, <1>15, <1>16, <1>17, <1>18, <1>19, WroteSigns

LEMMA WorksSigns ==
    ASSUME Basis, Basis', Wires, Turning, Askers, Signs, NEW p \in Pairs, Works(p)
    PROVE  Signs'
<1>1. UNCHANGED <<turn, ses, stale>> /\ SameSlow /\ OtherWires(p)
  BY DEF Works
<1> SUFFICES ASSUME NEW q \in Pairs, ~conn[q].slow, Signed(q) PROVE Signed(q)'
  BY <1>1, SlowSigns
<1>2. CASE q # p
  <2>1. SameLines(q)
    BY <1>1, <1>2 DEF OtherWires, SameLines
  <2>2. \A t \in Turns : TurnLeft(q, t)
    <3> SUFFICES ASSUME NEW t \in Turns PROVE TurnLeft(q, t)
      OBVIOUS
    <3>1. turn' \in TurnTable
      BY <1>1, BasisParts
    <3> QED
      BY <1>1, <3>1, SameTurnLeft DEF RunsNow
  <2> QED
    BY <2>1, <2>2, AloneSigns
<1>3. ASSUME q = p, NEW m \in wire[p].in, Starts1(p, m) PROVE Signed(q)'
  BY <1>1, <1>3, StartsSigns
<1>4. ASSUME q = p, NEW m \in wire[p].in, NEW a, Answers1(p, m, a) PROVE Signed(q)'
  BY <1>1, <1>4, AnswersSigns
<1>5. ASSUME q = p, NEW m \in wire[p].in, Stops1(p, m) PROVE Signed(q)'
  <2>1. m.for \in Turns /\ m.on \in Turns
    BY LineOf
  <2>2. PICK s \in Sessions, x \in Turns : s = SessionOf[m.for] /\ x = m.on
    BY <2>1, CodexAssumption
  <2>3. Ceases(p, s, x)
    BY <1>5, <2>2 DEF Ceases, Stops1, TellsToo, IsReply
  <2> QED
    BY <1>1, <1>5, <2>3, CeasesSigns
<1>6. ASSUME q = p, NEW s \in Sessions, NEW x \in Turns, NEW k \in Ends, EndsSo(p, s, x, k)
      PROVE  Signed(q)'
  <2>1. k \notin {"reply", "started"}
    BY DEF Ends
  <2>2. Ceases(p, s, x)
    BY <1>6, <2>1 DEF Ceases, EndsSo
  <2> QED
    BY <1>1, <1>6, <2>2, CeasesSigns
<1> QED
  BY <1>2, <1>3, <1>4, <1>5, <1>6 DEF Works

(* The first line of pair p is read: what it may do to a turn that has begun *)
(* there, and to one that runs.                                              *)
FirstOut(p) == Head(wire[p].out)
NoMore(p, t) ==
    /\ child[p][SessionOf[t]].active # t
    /\ \A j \in DOMAIN wire[p].out : j > 1 /\ wire[p].out[j].kind # "reply" => wire[p].out[j].for # t
ReadOf(p, t) ==
    /\ Begun(turn', t, p)
    /\ Passed(t) => Passed(t)'
    /\ Told1(FirstOut(p), t) => Passed(t)'
    /\ turn[t].rq = "sent" /\ ~(IsAnswer(FirstOut(p)) /\ FirstOut(p).for = t) => turn'[t].rq = "sent"
    /\ Own(p, t) => Own(p, t)' \/ NoMore(p, t)
RunsOn(p, t) ==
    /\ Begun(turn, t, p) /\ RunsNow(t) /\ RunSign(t)'
    /\ Passed(t)' => Passed(t) \/ (turn[t].rq = "sent" /\ Told1(FirstOut(p), t))
    /\ turn'[t].rq = "sent" => turn[t].rq = "sent"
Reading(p) ==
    /\ wire[p].out # <<>> /\ wire'[p].out = Tail(wire[p].out) /\ wire'[p].in = wire[p].in
    /\ \A s \in Sessions : child'[p][s].active = child[p][s].active
    /\ \A t \in Turns : Begun(turn, t, p) => ReadOf(p, t)
    /\ \A t \in Turns : Begun(turn', t, p) /\ RunsNow(t)' => RunsOn(p, t)

LEMMA ReadIndex ==
    ASSUME Basis, NEW p \in Pairs, wire[p].out # <<>>, wire'[p].out = Tail(wire[p].out)
    PROVE  \E n \in Nat :
             /\ n > 0 /\ DOMAIN wire[p].out = 1..n /\ DOMAIN wire'[p].out = 1..(n - 1)
             /\ End1(p) = n + 1 /\ End1(p)' = n /\ FirstOut(p) = wire[p].out[1]
             /\ \A i \in 1..(n - 1) : wire'[p].out[i] = wire[p].out[i + 1]
<1>1. wire[p].out \in Seq(Answers)
  BY WireParts
<1>2. PICK n \in Nat : n = Len(wire[p].out)
  BY <1>1, LenProperties
<1>3. DOMAIN wire[p].out = 1..n /\ n > 0
  BY <1>1, <1>2, LenProperties, EmptySeq
<1>4. /\ wire'[p].out \in Seq(Answers) /\ Len(wire'[p].out) = n - 1
      /\ \A i \in 1..(n - 1) : wire'[p].out[i] = wire[p].out[i + 1]
  BY <1>1, <1>2, HeadTailProperties
<1>5. DOMAIN wire'[p].out = 1..(n - 1)
  BY <1>4, LenProperties
<1>6. FirstOut(p) = wire[p].out[1]
  BY DEF FirstOut
<1> QED
  BY <1>2, <1>3, <1>4, <1>5, <1>6 DEF End1

LEMMA ReadStarted ==
    ASSUME Basis, Wires, NEW p \in Pairs, Reading(p), NEW t \in Turns, Begun(turn, t, p)
    PROVE  \A n \in Nat : Started(p, t, n + 1) => Started(p, t, n)'
<1> SUFFICES ASSUME NEW n \in Nat, Started(p, t, n + 1) PROVE Started(p, t, n)'
  OBVIOUS
<1>1. PICK k \in Nat :
        /\ k > 0 /\ DOMAIN wire[p].out = 1..k /\ DOMAIN wire'[p].out = 1..(k - 1)
        /\ FirstOut(p) = wire[p].out[1]
        /\ \A i \in 1..(k - 1) : wire'[p].out[i] = wire[p].out[i + 1]
  BY ReadIndex DEF Reading
<1>2. ReadOf(p, t)
  BY DEF Reading
<1>3. CASE Passed(t)
  BY <1>2, <1>3 DEF ReadOf, Started
<1>4. CASE ~Passed(t)
  <2>1. PICK i \in 1..k : i < n + 1 /\ Told1(wire[p].out[i], t)
    BY <1>1, <1>4 DEF Started
  <2>2. turn[t].rq = "sent"
    BY <1>4 DEF Started
  <2>3. CASE i = 1
    BY <1>1, <1>2, <2>1, <2>3 DEF ReadOf, Started
  <2>4. CASE i # 1
    <3>0. i - 1 \in 1..(k - 1) /\ i = (i - 1) + 1
      BY <2>1, <2>4, <1>1
    <3>1. PICK j \in 1..(k - 1) : i = j + 1
      BY <3>0
    <3>2. Told1(wire'[p].out[j], t) /\ j < n
      BY <1>1, <2>1, <3>1
    <3>3. ~(IsAnswer(FirstOut(p)) /\ FirstOut(p).for = t)
      <4>1. IsAnswer(wire[p].out[i]) /\ wire[p].out[i].for = t
        BY <2>1 DEF Told1, IsAnswer
      <4>2. 1 \in DOMAIN wire[p].out /\ i \in DOMAIN wire[p].out
        BY <1>1
      <4> QED
        BY <1>1, <2>4, <4>1, <4>2, ToldSent
    <3>4. turn'[t].rq = "sent"
      BY <1>2, <2>2, <3>3 DEF ReadOf
    <3> QED
      BY <1>1, <3>2, <3>4 DEF Started
  <2> QED
    BY <2>3, <2>4
<1> QED
  BY <1>3, <1>4

LEMMA ReadingSigns ==
    ASSUME Basis, Wires, Turning, NEW p \in Pairs, Signed(p), Reading(p)
    PROVE  Signed(p)'
<1> DEFINE out == wire[p].out
<1>0. PICK k \in Nat :
        /\ k > 0 /\ DOMAIN wire[p].out = 1..k /\ DOMAIN wire'[p].out = 1..(k - 1)
        /\ End1(p) = k + 1 /\ End1(p)' = k /\ FirstOut(p) = wire[p].out[1]
        /\ \A i \in 1..(k - 1) : wire'[p].out[i] = wire[p].out[i + 1]
  BY ReadIndex DEF Reading
<1>1. /\ wire'[p].in = wire[p].in
      /\ \A s \in Sessions : child'[p][s].active = child[p][s].active
  BY DEF Reading
<1>2. ASSUME NEW t \in Turns, Begun(turn, t, p) PROVE ReadOf(p, t)
  BY <1>2 DEF Reading
<1>3. ASSUME NEW t \in Turns, Begun(turn', t, p), RunsNow(t)' PROVE RunsOn(p, t)
  BY <1>3 DEF Reading
<1>4. ASSUME NEW t \in Turns, Begun(turn, t, p), RunsNow(t)' PROVE RunsNow(t)
  BY <1>2, <1>3, <1>4 DEF ReadOf, RunsOn
<1>5. ASSUME NEW t \in Turns, NEW n \in Nat, Begun(turn, t, p), Started(p, t, n + 1), Own(p, t), ~NoMore(p, t)
      PROVE  Started(p, t, n)' /\ Own(p, t)'
  <2>1. Own(p, t)'
    BY <1>2, <1>5 DEF ReadOf
  <2>2. Started(p, t, n)'
    BY <1>5, ReadStarted
  <2> QED
    BY <2>1, <2>2
<1>6. LineSigns(p)'
  <2> SUFFICES ASSUME NEW m \in wire[p].in PROVE m.open /\ (Stopping(m)' => m.on = m.for)
    BY <1>1 DEF LineSigns
  <2>1. m.open /\ (Stopping(m) => m.on = m.for) /\ m.for \in Turns /\ Begun(turn, m.for, p)
    BY LineOf DEF Signed, LineSigns
  <2>2. RunsNow(m.for)' => RunsNow(m.for)
    BY <1>4, <2>1
  <2> QED
    BY <2>1, <2>2 DEF Stopping
<1>7. ActiveSigns(p)'
  <2> SUFFICES ASSUME NEW s \in Sessions, child[p][s].active # None
               PROVE  Own(p, child[p][s].active)' /\ Started(p, child[p][s].active, End1(p))'
    BY <1>1 DEF ActiveSigns
  <2> PICK x \in Turns : x = child[p][s].active
    BY LineOf
  <2>1. Begun(turn, x, p) /\ Own(p, x) /\ Started(p, x, k + 1) /\ SessionOf[x] = s
    BY <1>0, LineOf DEF Signed, ActiveSigns
  <2>2. ~NoMore(p, x)
    BY <2>1 DEF NoMore
  <2>3. Own(p, x)' /\ Started(p, x, k)'
    BY <1>0, <1>5, <2>1, <2>2
  <2>4. child'[p][s].active = x /\ End1(p)' = k
    BY <1>0, <1>1
  <2> QED
    BY <2>3, <2>4
<1>8. EventSigns(p)'
  <2> SUFFICES ASSUME NEW j \in 1..(k - 1), NEW x, x = wire'[p].out[j].for,
                      wire'[p].out[j].kind # "reply"
               PROVE  /\ Own(p, x)' /\ Started(p, x, j)'
                      /\ wire'[p].out[j].kind # "started" => LastSign(p, j)'
    BY <1>0 DEF EventSigns
  <2>0. /\ j + 1 \in DOMAIN wire[p].out /\ j + 1 > 1 /\ j \in Nat
        /\ wire'[p].out[j] = wire[p].out[j + 1]
    BY <1>0
  <2>1. x \in Turns /\ Begun(turn, x, p) /\ Own(p, x) /\ Started(p, x, j + 1)
    BY <2>0, LineOf DEF Signed, EventSigns
  <2>2. ~NoMore(p, x)
    BY <2>0 DEF NoMore
  <2>3. Own(p, x)' /\ Started(p, x, j)'
    BY <1>5, <2>0, <2>1, <2>2
  <2>4. ASSUME wire'[p].out[j].kind # "started" PROVE LastSign(p, j)'
    <3>1. LastSign(p, j + 1)
      BY <2>0, <2>4 DEF Signed, EventSigns
    <3>2. child[p][SessionOf[x]].active # x
      BY <2>0, <3>1 DEF LastSign
    <3>3. child'[p][SessionOf[x]].active # x
      BY <1>1, <2>1, <3>2, CodexAssumption
    <3>4. ASSUME NEW i \in 1..(k - 1), i > j, wire'[p].out[i].kind # "reply"
          PROVE  wire'[p].out[i].for # x
      <4>1. i + 1 \in 1..k /\ i + 1 > j + 1
        BY <1>0, <2>0, <3>4
      <4> QED
        BY <1>0, <2>0, <3>1, <3>4, <4>1 DEF LastSign
    <3>5. DOMAIN wire'[p].out = 1..(k - 1)
      BY <1>0
    <3> QED
      BY <3>3, <3>4, <3>5 DEF LastSign
  <2> QED
    BY <2>3, <2>4
<1>9. RunSigns(p)'
  <2> SUFFICES ASSUME NEW t \in Turns, Begun(turn', t, p), RunsNow(t)'
               PROVE  /\ RunSign(t)'
                      /\ Started(p, t, End1(p))' => child'[p][SessionOf[t]].active \in {None, t}
    BY DEF RunSigns
  <2>1. RunsOn(p, t)
    BY <1>3
  <2>2. ASSUME Started(p, t, End1(p))' PROVE Started(p, t, End1(p))
    <3>0. 1 \in DOMAIN wire[p].out /\ 1 < k + 1
      BY <1>0
    <3>1. CASE Passed(t)'
      BY <1>0, <2>1, <3>0, <3>1 DEF RunsOn, Started
    <3>2. CASE ~Passed(t)'
      <4>1. PICK i \in 1..(k - 1) : Told1(wire'[p].out[i], t)
        BY <1>0, <2>2, <3>2 DEF Started
      <4>2. turn'[t].rq = "sent"
        BY <2>2, <3>2 DEF Started
      <4>3. i + 1 \in DOMAIN wire[p].out /\ i + 1 < k + 1 /\ Told1(wire[p].out[i + 1], t)
        BY <1>0, <4>1
      <4> QED
        BY <1>0, <2>1, <4>2, <4>3 DEF RunsOn, Started
    <3> QED
      BY <3>1, <3>2
  <2>3. Started(p, t, End1(p))' => child[p][SessionOf[t]].active \in {None, t}
    BY <2>1, <2>2 DEF Signed, RunSigns, RunsOn
  <2> QED
    BY <1>1, <2>1, <2>3, CodexAssumption DEF RunsOn
<1>10. FoundSigns(p)'
  <2> SUFFICES ASSUME NEW i \in 1..(k - 1), NEW x, x = wire'[p].out[i].for,
                      wire'[p].out[i].kind = "reply", wire'[p].out[i].what = "interrupt",
                      wire'[p].out[i].answer \in Turns
               PROVE  ~RunsNow(x)'
    BY <1>0 DEF FoundSigns
  <2>0. i + 1 \in DOMAIN wire[p].out /\ wire'[p].out[i] = wire[p].out[i + 1]
    BY <1>0
  <2>1. x \in Turns /\ Begun(turn, x, p) /\ ~RunsNow(x)
    BY <2>0, LineOf DEF Signed, FoundSigns
  <2> QED
    BY <1>4, <2>1
<1> QED
  BY <1>6, <1>7, <1>8, <1>9, <1>10 DEF Signed

(* One turn is touched by the line that is read.                             *)
LEMMA OneReads ==
    ASSUME Basis, Wires, Turning, NEW p \in Pairs, Signed(p),
           wire[p].out # <<>>, wire'[p].out = Tail(wire[p].out), wire'[p].in = wire[p].in,
           child' = child, NEW x \in Turns, \A t \in Turns \ {x} : Stirs(p, t) => TurnLeft(p, t),
           FirstOut(p).kind = "reply" => FirstOut(p).for = x,
           ReadOf(p, x), RunsNow(x)' => RunsOn(p, x)
    PROVE  Signed(p)'
<1>1. ASSUME NEW t \in Turns, t # x PROVE /\ Begun(turn, t, p) => ReadOf(p, t)
                                          /\ Begun(turn', t, p) /\ RunsNow(t)' => RunsOn(p, t)
  <2> SUFFICES ASSUME Stirs(p, t)
               PROVE  /\ Begun(turn, t, p) => ReadOf(p, t)
                      /\ Begun(turn', t, p) /\ RunsNow(t)' => RunsOn(p, t)
    BY DEF Stirs
  <2>1. /\ TurnLeft(p, t) /\ Only(turn[t], turn'[t], {}) /\ (RunsNow(t)' <=> RunsNow(t))
        /\ (Passed(t)' <=> Passed(t)) /\ (Begun(turn', t, p) <=> Begun(turn, t, p))
        /\ (RunSign(t) => RunSign(t)') /\ stale[p] \subseteq stale'[p]
    BY <1>1, LeftSame DEF TurnLeft
  <2>2. ~Told1(FirstOut(p), t)
    BY <1>1 DEF Told1
  <2>3. turn'[t].rq = turn[t].rq
    BY <2>1 DEF Only
  <2>4. Begun(turn, t, p) => ReadOf(p, t)
    BY <2>1, <2>2, <2>3 DEF ReadOf, Own
  <2>5. Begun(turn, t, p) /\ RunsNow(t) => RunSign(t)
    BY DEF Signed, RunSigns
  <2>6. Begun(turn', t, p) /\ RunsNow(t)' => RunsOn(p, t)
    BY <2>1, <2>3, <2>5 DEF RunsOn
  <2> QED
    BY <2>4, <2>6
<1>2. Reading(p)
  BY <1>1 DEF Reading
<1> QED
  BY <1>2, ReadingSigns

LEMMA FirstLine ==
    ASSUME Basis, Turning, NEW p \in Pairs, wire[p].out # <<>>
    PROVE  /\ 1 \in DOMAIN wire[p].out /\ FirstOut(p) = wire[p].out[1] /\ FirstOut(p) \in Answers
           /\ FirstOut(p).for \in Turns /\ Begun(turn, FirstOut(p).for, p)
<1>1. wire[p].out \in Seq(Answers)
  BY WireParts
<1>2. 1 \in DOMAIN wire[p].out /\ wire[p].out[1] \in Answers
  BY <1>1, EmptySeq, LenProperties, WireParts
<1> QED
  BY <1>2, LineOf DEF FirstOut

(* Who is spoken of is the turn that runs, and was started.                  *)
LEMMA FirstRuns ==
    ASSUME Basis, Turning, NEW p \in Pairs, Signed(p), wire[p].out # <<>>,
           FirstOut(p).kind # "reply", FirstOut(p).for \notin stale[p]
    PROVE  /\ RunsNow(FirstOut(p).for) /\ Passed(FirstOut(p).for) /\ turn[FirstOut(p).for].pair = p
           /\ ses[p][SessionOf[FirstOut(p).for]].running = FirstOut(p).for
           /\ FirstOut(p).kind # "started" => NoMore(p, FirstOut(p).for)
<1>1. /\ 1 \in DOMAIN wire[p].out /\ FirstOut(p) = wire[p].out[1]
      /\ FirstOut(p).for \in Turns /\ Begun(turn, FirstOut(p).for, p)
  BY FirstLine
<1>2. /\ Own(p, FirstOut(p).for) /\ Started(p, FirstOut(p).for, 1)
      /\ FirstOut(p).kind # "started" => LastSign(p, 1)
  BY <1>1 DEF Signed, EventSigns
<1>3. RunsNow(FirstOut(p).for) /\ turn[FirstOut(p).for].pair = p
  BY <1>1, <1>2 DEF Own, Begun
<1>4. Passed(FirstOut(p).for)
  <2>1. DOMAIN wire[p].out \subseteq Nat /\ \A i \in DOMAIN wire[p].out : ~(i < 1)
    BY WireParts
  <2> QED
    BY <1>2, <2>1 DEF Started
<1>5. LastSign(p, 1) => NoMore(p, FirstOut(p).for)
  BY <1>1 DEF LastSign, NoMore
<1> QED
  BY <1>2, <1>3, <1>4, <1>5 DEF RunsNow

LEMMA ReadsOne ==
    ASSUME Basis, Wires, Turning, Signs, NEW p \in Pairs, Reads(p), NEW x \in Turns,
           turn[x].pair = p, turn'[x].pair = p, \A o \in Pairs, t \in Turns \ {x} : Stirs(o, t) => TurnLeft(o, t),
           FirstOut(p).kind = "reply" => FirstOut(p).for = x,
           ~conn[p].slow /\ Signed(p) => ReadOf(p, x) /\ (RunsNow(x)' => RunsOn(p, x))
    PROVE  Signs'
<1>1. /\ wire[p].out # <<>> /\ wire'[p].in = wire[p].in /\ wire'[p].out = Tail(wire[p].out)
      /\ OtherWires(p) /\ child' = child /\ SameSlow
  BY DEF Reads
<1> SUFFICES ASSUME NEW q \in Pairs, ~conn[q].slow, Signed(q) PROVE Signed(q)'
  BY <1>1, SlowSigns
<1>2. CASE q = p
  BY <1>1, <1>2, OneReads
<1>3. CASE q # p
  <2>1. SameLines(q)
    BY <1>1, <1>3 DEF OtherWires, SameLines
  <2>2. \A t \in Turns : Stirs(q, t) => TurnLeft(q, t)
    BY <1>3 DEF Stirs, Begun
  <2> QED
    BY <2>1, <2>2, AloneSigns
<1> QED
  BY <1>2, <1>3

LEMMA OthersLeft ==
    ASSUME Basis, turn' \in TurnTable, UNCHANGED <<ses, stale>>, NEW x,
           \A t \in Turns : t # x => turn'[t] = turn[t]
    PROVE  \A o \in Pairs, t \in Turns \ {x} : TurnLeft(o, t)
<1> SUFFICES ASSUME NEW o \in Pairs, NEW t \in Turns \ {x} PROVE TurnLeft(o, t)
  OBVIOUS
<1>1. RunsNow(t)' <=> RunsNow(t)
  BY DEF RunsNow
<1> QED
  BY <1>1, SameTurnLeft

LEMMA AnsweredSigns ==
    ASSUME Basis, Wires, Turning, Signs, NEW p \in Pairs, Reads(p), Answered1(FirstOut(p))
    PROVE  Signs'
<1>1. /\ 1 \in DOMAIN wire[p].out /\ FirstOut(p) = wire[p].out[1] /\ FirstOut(p) \in Answers
      /\ FirstOut(p).for \in Turns /\ Begun(turn, FirstOut(p).for, p)
  BY FirstLine DEF Reads
<1> PICK l : l = wire[p].out[1]
  OBVIOUS
<1> PICK x \in Turns : x = l.for
  BY <1>1
<1> PICK S : S = IF l.what = "interrupt" THEN {"dq"} ELSE {"rq"}
  OBVIOUS
<1>2. /\ l.kind = "reply" /\ UNCHANGED <<ses, stale>> /\ OnlyOf(turn, turn', x, S)
      /\ IF l.what = "interrupt" THEN turn'[x].dq = l.answer ELSE turn'[x].rq = l.answer
  BY <1>1 DEF Answered1
<1>3. /\ turn[x].pair = p /\ turn'[x].pair = p /\ turn'[x].ph = turn[x].ph /\ turn[x].ph \notin Early
      /\ turn'[x].lid = turn[x].lid /\ turn'[x].settle = turn[x].settle /\ turn'[x].drv = turn[x].drv
      /\ turn'[x].pid = turn[x].pid
  BY <1>1, <1>2 DEF OnlyOf, Only, Begun
<1>4. \A o \in Pairs, t \in Turns \ {x} : TurnLeft(o, t)
  BY <1>2, OthersLeft DEF OnlyOf
<1>5. /\ Begun(turn', x, p) /\ (RunsNow(x)' <=> RunsNow(x))
      /\ (Own(p, x)' <=> Own(p, x)) /\ (IdKnown(turn', x) <=> IdKnown(turn, x))
  BY <1>1, <1>2, <1>3 DEF Begun, RunsNow, Own, IdKnown
<1> SUFFICES ASSUME ~conn[p].slow, Signed(p)
             PROVE  ReadOf(p, x) /\ (RunsNow(x)' => RunsOn(p, x))
  BY <1>1, <1>3, <1>4, ReadsOne
<1>6. RunsNow(x) => RunSign(x)
  BY <1>1 DEF Signed, RunSigns
<1>7. CASE l.what = "interrupt"
  <2>1. turn'[x].rq = turn[x].rq /\ turn'[x].dq = l.answer
    BY <1>2, <1>7 DEF OnlyOf, Only
  <2>2. Passed(x)' <=> Passed(x)
    BY <1>3, <2>1 DEF Passed
  <2>3. ~Told1(l, x)
    BY <1>7 DEF Told1
  <2>4. l.answer \in Turns => ~RunsNow(x)
    BY <1>1, <1>2, <1>7 DEF Signed, FoundSigns
  <2>5. ReadOf(p, x)
    BY <1>1, <1>5, <2>1, <2>2, <2>3 DEF ReadOf
  <2>6. RunsNow(x) => RunSign(x)'
    BY <1>3, <1>5, <1>6, <2>1, <2>2, <2>4 DEF RunSign
  <2> QED
    BY <1>1, <1>5, <2>1, <2>2, <2>5, <2>6 DEF RunsOn
<1>8. CASE l.what # "interrupt"
  <2>1. turn'[x].rq = l.answer /\ turn'[x].dq = turn[x].dq
    BY <1>2, <1>8 DEF OnlyOf, Only
  <2>2. IsAnswer(l)
    BY <1>2, <1>8 DEF IsAnswer
  <2>3. turn[x].rq = "sent" /\ (l.what = "load" <=> turn[x].ph \in Loading)
    BY <1>1, <2>2, ToldSent DEF Wants
  <2>4. l.what \in {"load", "turn"}
    BY <1>1, <1>2, <1>8 DEF Answers
  <2>5. turn[x].ph \in {"load", "start", "reload", "restart", "open"}
    BY <1>3, BasisParts DEF Early, TurnTable, TurnState
  <2>6. Passed(x) => Passed(x)'
    BY <1>3, <2>3 DEF Passed
  <2>7. Told1(l, x) => Passed(x)'
    BY <1>3, <2>1, <2>3, <2>5 DEF Passed, Told1, Loading
  <2>8. Passed(x)' => Passed(x) \/ (turn[x].rq = "sent" /\ Told1(l, x))
    BY <1>2, <1>3, <2>1, <2>3, <2>4 DEF Passed, Told1, Loading
  <2>9. RunsNow(x) => RunSign(x)'
    BY <1>3, <1>5, <1>6, <2>1, <2>6 DEF RunSign
  <2>10. ReadOf(p, x)
    BY <1>1, <1>5, <2>2, <2>6, <2>7 DEF ReadOf
  <2> QED
    BY <1>1, <1>5, <2>3, <2>8, <2>9, <2>10 DEF RunsOn
<1> QED
  BY <1>7, <1>8

LEMMA UnheardSigns ==
    ASSUME Basis, Wires, Turning, Signs, NEW p \in Pairs, Reads(p), Unheard(p, FirstOut(p))
    PROVE  Signs'
<1> PICK x \in Turns : x = FirstOut(p).for /\ Begun(turn, x, p)
  BY FirstLine DEF Reads
<1>1. UNCHANGED <<turn, ses, stale>> /\ FirstOut(p).kind # "reply" /\ turn' \in TurnTable
  BY BasisParts DEF Unheard
<1>2. \A o \in Pairs, t \in Turns \ {x} : TurnLeft(o, t)
  BY <1>1, OthersLeft
<1>3. turn[x].pair = p /\ turn'[x].pair = p
  BY <1>1 DEF Begun
<1> SUFFICES ASSUME Signed(p)
             PROVE  ReadOf(p, x) /\ (RunsNow(x)' => RunsOn(p, x))
  BY <1>2, <1>3, ReadsOne
<1>4. /\ Passed(x)' <=> Passed(x)
      /\ RunsNow(x)' <=> RunsNow(x)
      /\ RunSign(x)' <=> RunSign(x)
      /\ Own(p, x)' <=> Own(p, x)
      /\ Begun(turn', x, p) <=> Begun(turn, x, p)
  BY <1>1, SameState
<1>5. ~Told1(FirstOut(p), x)
  BY <1>1 DEF Told1
<1>6. RunsNow(x) => RunSign(x)
  BY DEF Signed, RunSigns
<1> QED
  BY <1>1, <1>4, <1>5, <1>6 DEF ReadOf, RunsOn

LEMMA NamedSigns ==
    ASSUME Basis, Wires, Turning, Signs, NEW p \in Pairs, Reads(p), Named(p, FirstOut(p))
    PROVE  Signs'
<1>0. FirstOut(p).for \in Turns /\ wire[p].out # <<>>
  BY FirstLine DEF Reads
<1> PICK r : r = ses[p][SessionOf[FirstOut(p).for]].running
  OBVIOUS
<1>1. /\ FirstOut(p).kind = "started" /\ r \in Turns /\ FirstOut(p).for \notin stale[p] /\ UNCHANGED <<ses, stale>>
      /\ OnlyOf(turn, turn', r, {"lid", "drv", "settle"}) /\ turn'[r].lid = FirstOut(p).for
      /\ Prodded(turn[r], turn'[r])
  BY DEF Named
<1>2. turn[r].pair = p
  BY <1>0, <1>1, CodexAssumption DEF Turning, RunningKnown
<1>3. /\ turn'[r].pair = p /\ turn'[r].ph = turn[r].ph /\ turn'[r].rq = turn[r].rq
      /\ turn'[r].dq = turn[r].dq /\ turn'[r].pid = turn[r].pid
  BY <1>1, <1>2 DEF OnlyOf, Only
<1>4. \A o \in Pairs, t \in Turns \ {r} : TurnLeft(o, t)
  BY <1>1, OthersLeft DEF OnlyOf
<1> SUFFICES ASSUME ~conn[p].slow, Signed(p)
             PROVE  ReadOf(p, r) /\ (RunsNow(r)' => RunsOn(p, r))
  BY <1>1, <1>2, <1>3, <1>4, ReadsOne
<1>5. r = FirstOut(p).for /\ RunsNow(r) /\ Passed(r) /\ Begun(turn, r, p)
  BY <1>0, <1>1, FirstRuns, FirstLine
<1>6. /\ Begun(turn', r, p) /\ (RunsNow(r)' <=> RunsNow(r)) /\ (Passed(r)' <=> Passed(r))
      /\ (Own(p, r)' <=> Own(p, r))
  BY <1>1, <1>2, <1>3, <1>5 DEF Begun, RunsNow, Passed, Own
<1>7. RunSign(r)'
  <2>1. RunSign(r)
    BY <1>1, <1>5 DEF Signed, RunSigns
  <2>2. r # None
    BY <1>1, CodexAssumption
  <2> QED
    BY <1>1, <1>3, <1>5, <1>6, <2>1, <2>2 DEF RunSign, IdKnown
<1>8. ~Told1(FirstOut(p), r)
  BY <1>1 DEF Told1
<1> QED
  BY <1>3, <1>5, <1>6, <1>7, <1>8 DEF ReadOf, RunsOn

LEMMA EndedSigns ==
    ASSUME Basis, Wires, Turning, Signs, NEW p \in Pairs, Reads(p), EndRead(p, FirstOut(p))
    PROVE  Signs'
<1>0. FirstOut(p).for \in Turns /\ wire[p].out # <<>>
  BY FirstLine DEF Reads
<1> PICK r : r = ses[p][SessionOf[FirstOut(p).for]].running
  OBVIOUS
<1>1. FirstOut(p).kind \in {"completed", "interrupted", "broken"} /\ FirstOut(p).for \notin stale[p]
  BY DEF EndRead
<1>2. PICK out \in Outcomes : Finishes(p, r, out)
  BY DEF EndRead
<1>3. /\ r \in Turns /\ ses[p][SessionOf[r]].running = r
      /\ OnlyOf(turn, turn', r, {"out", "settle"})
      /\ RunsThen(p, SessionOf[r], None)
      /\ stale'[p] = StaleAfter(p, r, out) /\ \A o \in Pairs \ {p} : stale'[o] = stale[o]
  BY <1>2 DEF Finishes
<1>4. turn[r].pair = p
  BY <1>0, <1>3, CodexAssumption DEF Turning, RunningKnown
<1>5. /\ turn'[r].pair = p /\ turn'[r].ph = turn[r].ph /\ turn'[r].rq = turn[r].rq
  BY <1>3, <1>4 DEF OnlyOf, Only
<1>6. ASSUME NEW o \in Pairs, NEW t \in Turns \ {r}, Stirs(o, t) PROVE TurnLeft(o, t)
  <2>1. turn'[t] = turn[t] /\ turn' \in TurnTable /\ turn[t].pair = o
    BY <1>3, <1>6 DEF OnlyOf, Stirs, Begun
  <2>2. stale[o] \subseteq stale'[o]
    BY <1>3 DEF StaleAfter
  <2>3. RunsNow(t)' <=> RunsNow(t)
    <3> PICK s \in Sessions, z \in Sessions : s = SessionOf[t] /\ z = SessionOf[r]
      BY <1>3, CodexAssumption
    <3>1. t # None /\ t # r
      BY CodexAssumption
    <3>2. ses'[o][s].running = t <=> ses[o][s].running = t
      BY <1>3, <3>1 DEF RunsThen, OtherSessions, SameSession
    <3> QED
      BY <2>1, <3>2 DEF RunsNow
  <2> QED
    BY <2>1, <2>2, <2>3, SameTurnLeft
<1> SUFFICES ASSUME ~conn[p].slow, Signed(p)
             PROVE  ReadOf(p, r) /\ (RunsNow(r)' => RunsOn(p, r))
  BY <1>1, <1>3, <1>4, <1>5, <1>6, ReadsOne
<1>7. r = FirstOut(p).for /\ Passed(r) /\ Begun(turn, r, p) /\ NoMore(p, r)
  BY <1>0, <1>1, FirstRuns, FirstLine
<1>8. ~RunsNow(r)'
  <2>1. SessionOf[r] \in Sessions /\ r # None
    BY <1>3, CodexAssumption
  <2> QED
    BY <1>3, <1>5, <2>1 DEF RunsThen, RunsNow
<1>9. Begun(turn', r, p) /\ Passed(r)'
  BY <1>5, <1>7 DEF Begun, Passed
<1>10. ~Told1(FirstOut(p), r)
  BY <1>1 DEF Told1
<1> QED
  BY <1>5, <1>7, <1>8, <1>9, <1>10 DEF ReadOf

LEMMA ReadsSigns ==
    ASSUME Basis, Wires, Turning, Signs, NEW p \in Pairs, Reads(p) PROVE Signs'
<1>1. \/ Answered1(FirstOut(p)) \/ Unheard(p, FirstOut(p)) \/ Named(p, FirstOut(p)) \/ EndRead(p, FirstOut(p))
  BY DEF Reads, FirstOut
<1> QED
  BY <1>1, AnsweredSigns, UnheardSigns, NamedSigns, EndedSigns

-----------------------------------------------------------------------------
(* A turn that waits for an answer, and a step that is none of its business. *)
NoBegins == \A t \in Turns : ~BeginDue(t)
OrphanIn(p, s) == \E t \in Turns : /\ turn[t].pair = p /\ SessionOf[t] = s
                                   /\ turn[t].rq # "none" /\ Orphan(t)
RestedKept == \A p \in Pairs, s \in Sessions : OrphanIn(p, s) => Rested(p, s)'
SlowStays  == \A p \in Pairs : conn[p].slow => conn'[p].slow
SameAsk(t) == turn'[t].ph = turn[t].ph /\ turn'[t].pair = turn[t].pair /\ turn'[t].rq = turn[t].rq

LEMMA AskerPlace ==
    ASSUME Basis, Askers, NEW t \in Turns, turn[t].rq # "none"
    PROVE  \E p \in Pairs, s \in Sessions :
             /\ turn[t].pair = p /\ SessionOf[t] = s /\ turn[t].ph # "open" /\ turn[t].ph \notin Early
             /\ conn[p].slow \/ ses[p][s].running = t
                  \/ (/\ turn[t].rq = "error" \/ Passed(t)
                      /\ ses[p][s].running = None /\ Rested(p, s))
<1>1. turn[t].pair \in Pairs /\ SessionOf[t] \in Sessions /\ turn[t].ph # "open" /\ turn[t].ph \notin Early
  BY AskerRuns, CodexAssumption
<1> QED
  BY <1>1 DEF Askers, Asker, RunsNow, Orphan

LEMMA OrphanDue ==
    ASSUME Askers, NEW t \in Turns, turn[t].rq # "none", turn[t].rq = "error" \/ Passed(t)
    PROVE  BeginDue(t)
BY DEF Askers, Asker, Passed, BeginDue, Answered

LEMMA QuietBegins == ASSUME Quiet PROVE NoBegins
BY DEF Quiet, NoBegins

LEMMA NoOrphans ==
    ASSUME Askers, NoBegins
    PROVE  RestedKept /\ \A t \in Turns : turn[t].rq # "none" => ~Orphan(t)
<1>1. \A t \in Turns : turn[t].rq # "none" => ~Orphan(t)
  BY OrphanDue DEF NoBegins, Orphan
<1> QED
  BY <1>1 DEF RestedKept, OrphanIn

(* A turn that still runs, or whose app-server is slow, may be told.         *)
LEMMA AskerRunning ==
    ASSUME NEW t \in Turns, NEW p, NEW s, turn'[t].pair = p, SessionOf[t] = s,
           turn'[t].ph # "open", conn'[p].slow \/ ses'[p][s].running = t
    PROVE  Asker(t)'
BY DEF Asker, RunsNow

LEMMA AskerKept ==
    ASSUME Basis, Askers, NEW t \in Turns, SameAsk(t), NEW p, NEW s,
           turn[t].pair = p, SessionOf[t] = s, conn[p].slow => conn'[p].slow,
           ses[p][s].running = t => ses'[p][s].running = t,
           turn[t].rq # "none" /\ Orphan(t) => ses'[p][s].running = None /\ Rested(p, s)'
    PROVE  Asker(t)'
<1> SUFFICES ASSUME turn[t].rq # "none" PROVE Asker(t)'
  BY DEF Asker, SameAsk
<1>1. /\ p \in Pairs /\ turn[t].ph # "open"
      /\ conn[p].slow \/ RunsNow(t) \/ Orphan(t)
  BY AskerRuns DEF Askers, Asker
<1>2. turn'[t].pair = p /\ turn'[t].ph # "open" /\ SessionOf[t] = s
  BY <1>1 DEF SameAsk
<1>3. CASE conn[p].slow \/ RunsNow(t)
  BY <1>1, <1>2, <1>3, AskerRunning DEF RunsNow
<1>4. CASE Orphan(t)
  <2>1. turn'[t].rq = "error" \/ Passed(t)'
    BY <1>4 DEF Orphan, Passed, SameAsk
  <2>2. ses'[p][s].running = None /\ Rested(p, s)'
    BY <1>4
  <2>3. Orphan(t)'
    BY <1>2, <2>1, <2>2 DEF Orphan
  <2> QED
    BY <1>2, <2>3 DEF Asker
<1> QED
  BY <1>1, <1>3, <1>4

(* A step that leaves the sessions alone and touches the request of turn x.  *)
LEMMA KeptAskers ==
    ASSUME Basis, Askers, SlowStays, RestedKept, NEW x,
           \A p \in Pairs, s \in Sessions : ses'[p][s].running = ses[p][s].running,
           \A t \in Turns : t # x /\ turn'[t].rq # "none" => SameAsk(t),
           x \in Turns /\ turn'[x].rq # "none" => Asker(x)'
    PROVE  Askers'
<1> SUFFICES ASSUME NEW t \in Turns, t # x, turn'[t].rq # "none" PROVE Asker(t)'
  BY DEF Askers, Asker
<1>1. SameAsk(t) /\ turn[t].rq # "none"
  BY DEF SameAsk
<1> PICK p \in Pairs, s \in Sessions : p = turn[t].pair /\ s = SessionOf[t]
  BY <1>1, AskerPlace
<1>2. Orphan(t) => ses'[p][s].running = None /\ Rested(p, s)'
  BY <1>1 DEF Orphan, RestedKept, OrphanIn
<1>3. ses'[p][s].running = ses[p][s].running
  OBVIOUS
<1> QED
  BY <1>1, <1>2, <1>3, AskerKept DEF SlowStays

LEMMA ApartRested == ASSUME Basis, RtLike, Apart PROVE RestedKept
<1> SUFFICES ASSUME NEW p \in Pairs, NEW s \in Sessions, Rested(p, s) PROVE Rested(p, s)'
  BY DEF RestedKept, OrphanIn, Orphan
<1>1. \A i \in DOMAIN rt.waits : rt.waits[i] \in Turns
  BY RunsFacts
<1>2. /\ ses'[p][s].block = ses[p][s].block /\ ses'[p][s].queue = ses[p][s].queue
      /\ rt'.cur = rt.cur /\ rt'.waits = rt.waits /\ Resolved(rt') = Resolved(rt)
  BY DEF Apart, QueuesSame, RtLike, Resolved
<1>3. \A i \in DOMAIN rt.waits : turn'[rt.waits[i]].pair = turn[rt.waits[i]].pair
  BY <1>1 DEF Apart, PairsStay
<1> QED
  BY <1>2, <1>3 DEF Rested, Resolved

LEMMA EarlyAskers == ASSUME Basis, Askers, EarlyMoves, RestedKept PROVE Askers'
<1>1. /\ SlowStays
      /\ \A p \in Pairs, s \in Sessions : ses'[p][s].running = ses[p][s].running
  BY DEF EarlyMoves, SameRunning, SameSlow, SlowStays
<1>2. ASSUME NEW t \in Turns, turn'[t].rq # "none" PROVE SameAsk(t)
  <2>1. turn'[t].rq = turn[t].rq
    BY DEF EarlyMoves, Only
  <2>2. turn[t].ph \notin Early
    BY <1>2, <2>1, AskerPlace
  <2> QED
    BY <2>2 DEF EarlyMoves, Only, SameAsk
<1>3. None \notin Turns
  BY CodexAssumption
<1> QED
  BY <1>1, <1>2, <1>3, KeptAskers

LEMMA EnterRested == ASSUME Basis, NEW t \in Turns, EnterManager(t) PROVE RestedKept
<1> SUFFICES ASSUME NEW p \in Pairs, NEW s \in Sessions, Rested(p, s) PROVE Rested(p, s)'
  BY DEF RestedKept, OrphanIn, Orphan
<1>0. rt \in RtStates /\ ses \in SesTable
  BY BasisParts
<1>1. PICK i \in DOMAIN rt.waits : rt.waits[i] = t /\ rt' = [rt EXCEPT !.waits = RemoveAt(@, i)]
  BY DEF EnterManager
<1>2. turn[t].pair \in Resolved(rt)
  BY DEF EnterManager, EnterDue, Resolved
<1>3. rt.cur # p
  BY <1>1, <1>2 DEF Rested
<1>4. rt'.cur = rt.cur
  BY <1>0, <1>1 DEF RtStates
<1>5. ses'[p] = ses[p]
  BY <1>0, <1>3 DEF EnterManager, SesTable
<1> QED
  BY <1>3, <1>4, <1>5 DEF Rested

LEMMA NoneAppended ==
    ASSUME NEW S, NEW q \in Seq(S), \A j \in DOMAIN q : q[j] = None
    PROVE  \A j \in DOMAIN Append(q, None) : Append(q, None)[j] = None
<1>1. PICK n \in Nat : n = Len(q) /\ DOMAIN q = 1..n
  BY Appended
<1>2. DOMAIN Append(q, None) = 1..(n + 1) /\ Append(q, None)[n + 1] = None
  BY <1>1, Appended
<1>3. \A j \in 1..n : Append(q, None)[j] = q[j]
  BY <1>1, Appended
<1>4. \A j \in 1..(n + 1) : j = n + 1 \/ j \in 1..n
  OBVIOUS
<1> QED
  BY <1>1, <1>2, <1>3, <1>4

LEMMA AbortRested == ASSUME Basis, NEW t \in Turns, AbortAfterSetup(t) PROVE RestedKept
<1> SUFFICES ASSUME NEW p \in Pairs, NEW s \in Sessions, Rested(p, s) PROVE Rested(p, s)'
  BY DEF RestedKept, OrphanIn, Orphan
<1>0. ses \in SesTable /\ turn \in TurnTable /\ SessionOf[t] \in Sessions
  BY BasisParts, CodexAssumption
<1>1. rt' = rt /\ \A i \in DOMAIN rt.waits : turn'[rt.waits[i]].pair = turn[rt.waits[i]].pair
  <2>1. \A i \in DOMAIN rt.waits : rt.waits[i] \in Turns
    BY RunsFacts
  <2>2. \A u \in Turns : turn'[u].pair = turn[u].pair
    BY <1>0 DEF AbortAfterSetup, TurnTable, TurnState
  <2> QED
    BY <2>1, <2>2 DEF AbortAfterSetup
<1>2. /\ ses'[p][s].block = ses[p][s].block
      /\ ses'[p][s].queue = ses[p][s].queue \/ ses'[p][s].queue = Append(ses[p][s].queue, None)
  <2>1. ses' = ses \/ Queues(rt.cur, SessionOf[t], None)
    BY AbortQueues
  <2> QED
    BY <2>1 DEF Queues, OtherSessions, SameSession, SameRunning
<1>3. ses[p][s].queue \in Seq(Turns \cup {None})
  BY <1>0 DEF SesTable, SessionState
<1>4. ASSUME ses[p][s].block = None, NEW i \in DOMAIN ses'[p][s].queue
      PROVE  ses'[p][s].queue[i] = None
  BY <1>2, <1>3, <1>4, NoneAppended DEF Rested
<1> QED
  BY <1>1, <1>2, <1>4 DEF Rested

(* The child of a pair is lost: who waits for an answer there is refused,    *)
(* and nobody begins in the sessions of the pair before that is told.        *)
LEMMA LostAskers ==
    ASSUME Basis, Askers, NoBegins, NEW p \in Pairs, Lost(p), \A s \in Sessions : Rested(p, s)'
    PROVE  Askers'
<1> SUFFICES ASSUME NEW t \in Turns, turn'[t].rq # "none" PROVE Asker(t)'
  BY DEF Askers, Asker
<1>1. LostTurn(p, turn[t], turn'[t], t \in RunningIn(p))
  BY DEF Lost
<1>2. turn'[t].ph = turn[t].ph /\ turn'[t].pair = turn[t].pair
      /\ turn'[t].rq = Dropped(p, turn[t].rq, turn[t].pair)
  BY <1>1 DEF LostTurn
<1>3. turn[t].rq # "none"
  BY <1>2 DEF Dropped, Pending
<1> PICK q \in Pairs, s \in Sessions : q = turn[t].pair /\ s = SessionOf[t] /\ turn[t].ph # "open"
  BY <1>3, AskerPlace
<1>4. turn[t].rq \notin Answered /\ ~Orphan(t)
  BY <1>3, NoOrphans DEF NoBegins, BeginDue
<1>5. CASE q = p
  <2>1. turn[t].rq \in Requests
    BY BasisParts DEF TurnTable, TurnState
  <2>2. turn[t].rq \in Pending
    BY <1>3, <1>4, <2>1 DEF Requests, Answered, Pending
  <2>3. turn'[t].rq = "error"
    BY <1>2, <1>5, <2>2 DEF Dropped
  <2>4. ses'[p][s].running = None /\ Rested(p, s)' /\ turn'[t].pair = p
    BY <1>2, <1>5 DEF Lost
  <2>5. Orphan(t)'
    BY <2>3, <2>4 DEF Orphan
  <2> QED
    BY <1>2, <2>5 DEF Asker
<1>6. CASE q # p
  <2>1. SameAsk(t)
    BY <1>2, <1>6 DEF Dropped, SameAsk
  <2>2. conn[q].slow => conn'[q].slow
    BY <1>6 DEF Lost
  <2>3. ses'[q][s].running = ses[q][s].running
    BY <1>6 DEF Lost
  <2> QED
    BY <1>4, <2>1, <2>2, <2>3, AskerKept
<1> QED
  BY <1>5, <1>6

LEMMA LostRests ==
    ASSUME Basis, NEW p \in Pairs, Lost(p),
           rt'.cur = 0 \/ (RtLike /\ \A i \in DOMAIN rt.waits : turn[rt.waits[i]].pair \notin Resolved(rt)),
           \A s \in Sessions : ses[p][s].block = None =>
             \A i \in DOMAIN ses[p][s].queue : ses[p][s].queue[i] = None
    PROVE  \A s \in Sessions : Rested(p, s)'
<1> SUFFICES ASSUME NEW s \in Sessions PROVE Rested(p, s)'
  OBVIOUS
<1>1. ses'[p][s].block = ses[p][s].block /\ ses'[p][s].queue = ses[p][s].queue
  BY DEF Lost
<1>2. p # 0 /\ \A i \in DOMAIN rt.waits : rt.waits[i] \in Turns
  BY RunsFacts
<1>3. \A t \in Turns : turn'[t].pair = turn[t].pair
  BY DEF Lost, LostTurn
<1>4. RtLike => /\ rt'.waits = rt.waits /\ Resolved(rt') = Resolved(rt)
                /\ \A i \in DOMAIN rt.waits : turn'[rt.waits[i]].pair = turn[rt.waits[i]].pair
  BY <1>2, <1>3 DEF RtLike, Resolved
<1>5. rt'.cur # p \/ \A i \in DOMAIN rt'.waits : turn'[rt'.waits[i]].pair \notin Resolved(rt')
  BY <1>2, <1>4
<1> QED
  BY <1>1, <1>5 DEF Rested, Resolved

LEMMA QuietLost ==
    ASSUME Basis, WaitsKnown, Askers, Quiet, NEW p \in Pairs, Lost(p), RtLike \/ rt'.cur = 0
    PROVE  Askers'
<1>1. Steady
  BY QuietSteady
<1>2. \A s \in Sessions : ses[p][s].block = None =>
        \A i \in DOMAIN ses[p][s].queue : ses[p][s].queue[i] = None
  BY <1>1 DEF Steady
<1>3. \A i \in DOMAIN rt.waits : turn[rt.waits[i]].pair \notin Resolved(rt)
  BY <1>1 DEF Steady
<1>4. \A s \in Sessions : Rested(p, s)'
  BY <1>2, <1>3, LostRests
<1> QED
  BY <1>4, QuietBegins, LostAskers

LEMMA ChangeAskers ==
    ASSUME Basis, WaitsKnown, Askers, RuntimeChanged \/ AccountChanged PROVE Askers'
<1>1. Quiet /\ rt \in RtStates
  BY BasisParts DEF RuntimeChanged, AccountChanged
<1>2. CASE EarlyMoves
  BY <1>1, <1>2, QuietBegins, NoOrphans, EarlyAskers
<1>3. CASE rt.cur \in Pairs /\ Lost(rt.cur)
  <2>1. RetirePair(turn, rt) \/ rt' = [rt EXCEPT !.changed = TRUE]
    BY DEF RuntimeChanged, AccountChanged
  <2>2. RetirePair(turn, rt) => rt'.cur = 0
    BY <1>1 DEF RetirePair, RtStates
  <2>3. rt' = [rt EXCEPT !.changed = TRUE] => RtLike
    BY <1>1 DEF RtLike, RtStates
  <2> QED
    BY <1>1, <1>3, <2>1, <2>2, <2>3, QuietLost
<1> QED
  BY <1>2, <1>3, RetiresLost

LEMMA CompleteAskers ==
    ASSUME Basis, Runs, Turning, RunOrder, Askers, NEW t \in Turns, CompleteRun(t) PROVE Askers'
<1> DEFINE f == [turn EXCEPT ![t].gone = TRUE, ![t].by = None]
           r == IF rt.runs[SessionOf[t]] = t THEN [rt EXCEPT !.runs[SessionOf[t]] = None] ELSE rt
<1>0. NoBegins /\ turn[t].out # "none" /\ SessionOf[t] \in Sessions
  BY CodexAssumption DEF CompleteRun, NoBegins, SettleDue
<1>1. RestedKept
  BY <1>0, NoOrphans
<1>2. IF rt.changed /\ \A z \in Sessions : r.runs[z] = None
        THEN RetirePair(f, r) ELSE turn' = f /\ rt' = r /\ KeepPair
  BY DEF CompleteRun
<1>3. /\ r \in RtStates
      /\ \A z \in Sessions : r.runs[z] = None => rt.runs[z] = None \/ rt.runs[z] = t
  <2>1. rt \in RtStates /\ r \in RtStates /\ rt.runs \in [Sessions -> Turns \cup {None}]
    BY BasisParts, RunsKeep, RtFields
  <2>2. \A z \in Sessions : z # SessionOf[t] => r.runs[z] = rt.runs[z]
    BY <2>1 DEF RtStates
  <2> QED
    BY <1>0, <2>1, <2>2
<1>4. OnlyOf(turn, f, t, {})
  BY GoneOnly, BasisParts
<1> HIDE DEF f, r
<1>5. CASE RetirePair(f, r) /\ \A z \in Sessions : r.runs[z] = None
  <2>1. rt'.cur = 0
    BY <1>3, <1>5 DEF RetirePair, RtStates
  <2>2. \A z \in Sessions : rt.runs[z] = None \/ (turn[t].out # "none" /\ rt.runs[z] = t)
    BY <1>0, <1>3, <1>5
  <2>3. rt.cur # 0 => \A s \in Sessions : \A i \in DOMAIN ses[rt.cur][s].queue :
          ses[rt.cur][s].queue[i] = None
    BY <2>2, NoRunWaits DEF RunOrder
  <2>4. CASE EarlyMoves
    BY <1>1, <2>4, EarlyAskers
  <2>5. CASE rt.cur \in Pairs /\ Lost(rt.cur)
    <3> PICK p \in Pairs : p = rt.cur
      BY <2>5
    <3>1. rt.cur # 0 /\ Lost(p)
      BY <2>5, RunsFacts
    <3>2. \A s \in Sessions : ses[p][s].block = None =>
            \A i \in DOMAIN ses[p][s].queue : ses[p][s].queue[i] = None
      BY <2>3, <3>1
    <3>3. \A s \in Sessions : Rested(p, s)'
      BY <2>1, <3>1, <3>2, LostRests
    <3> QED
      BY <1>0, <3>1, <3>3, LostAskers
  <2> QED
    BY <2>4, <2>5, CompleteLost
<1>6. CASE turn' = f /\ KeepPair
  <2>0. /\ SameRunning /\ SameSlow /\ UNCHANGED <<wire, child, stale>> /\ turn' \in TurnTable
        /\ \A u \in Turns : turn'[u] = turn[u] \/ Only(turn[u], turn'[u], {})
    BY <1>4, <1>6, SessionsSame DEF KeepPair, SameSlow, OnlyOf
  <2>1. EarlyMoves
    BY <2>0, SameOnly DEF EarlyMoves
  <2> QED
    BY <1>1, <2>1, EarlyAskers
<1> QED
  BY <1>2, <1>5, <1>6

(* Turns that wait, and an answer of beginTurn, an interrupt or a timer.     *)
LEMMA AsksAskers ==
    ASSUME Basis, Askers, NEW t \in Turns, Asks1(t), rt' = rt PROVE Askers'
<1>1. RestedKept
  BY RtSame, BeginApart, ApartRested
<1>2. SlowStays /\ \A p \in Pairs, s \in Sessions : ses'[p][s].running = ses[p][s].running
  BY DEF Asks1, Sends, SlowStays, SameSessions, SameSession
<1>3. turn[t].rq # "none" /\ turn[t].ph \in {"load", "reload", "start"} /\ ~Passed(t) /\ turn[t].rq # "error"
  BY DEF Asks1, Loading, Passed
<1> PICK p \in Pairs, s \in Sessions :
      /\ turn[t].pair = p /\ SessionOf[t] = s
      /\ conn[p].slow \/ ses[p][s].running = t
  BY <1>3, AskerPlace
<1>4. /\ OnlyOf(turn, turn', t, {"ph", "rq"})
      /\ turn'[t].ph \in {"load", "start", "reload", "restart"}
  BY DEF Asks1, Sends
<1>5. turn'[t].pair = p /\ turn'[t].ph # "open" /\ \A u \in Turns : u # t => SameAsk(u)
  BY <1>4 DEF OnlyOf, Only, SameAsk
<1>6. Asker(t)'
  BY <1>2, <1>5, AskerRunning DEF SlowStays
<1> QED
  BY <1>1, <1>2, <1>5, <1>6, KeptAskers

LEMMA OpensAskers ==
    ASSUME Basis, Askers, NEW t \in Turns, Opens(t), rt' = rt PROVE Askers'
<1>1. RestedKept
  BY RtSame, BeginApart, ApartRested
<1>2. /\ SlowStays /\ turn'[t].rq = "none"
      /\ \A p \in Pairs, s \in Sessions : ses'[p][s].running = ses[p][s].running
  BY DEF Opens, SameSlow, SlowStays
<1>3. \A u \in Turns : u # t => Only(turn[u], turn'[u], {"drv", "settle"})
  BY Zenon DEF Opens
<1>4. \A u \in Turns : u # t => SameAsk(u)
  BY <1>3 DEF Only, SameAsk
<1> QED
  BY <1>1, <1>2, <1>4, KeptAskers

LEMMA FailsAskers ==
    ASSUME Basis, Askers, NEW t \in Turns, Fails(t), rt' = rt PROVE Askers'
<1>1. RestedKept
  BY RtSame, BeginApart, ApartRested
<1>2. turn[t].rq # "none" /\ turn'[t].rq = "none" /\ SlowStays
  BY DEF Fails, SameSlow, SlowStays
<1> PICK p \in Pairs, s \in Sessions :
      /\ turn[t].pair = p /\ SessionOf[t] = s
      /\ conn[p].slow \/ ses[p][s].running \in {t, None}
  BY <1>2, AskerPlace
<1>3. RunsThen(p, s, None) /\ \A u \in Turns : u # t => Only(turn[u], turn'[u], {"out", "settle"})
  BY Zenon DEF Fails
<1> SUFFICES ASSUME NEW u \in Turns, turn'[u].rq # "none" PROVE Asker(u)'
  BY DEF Askers, Asker
<1>4. u # t /\ SameAsk(u) /\ turn[u].rq # "none"
  BY <1>2, <1>3 DEF Only, SameAsk
<1> PICK q \in Pairs, z \in Sessions :
      /\ turn[u].pair = q /\ SessionOf[u] = z /\ turn[u].ph # "open"
  BY <1>4, AskerPlace
<1>5. /\ conn[q].slow => conn'[q].slow
      /\ Orphan(u) => ses[q][z].running = None /\ Rested(q, z)'
  BY <1>1, <1>2, <1>4 DEF SlowStays, Orphan, RestedKept, OrphanIn
<1>6. ses'[q][z].running = ses[q][z].running \/ (q = p /\ z = s /\ ses'[q][z].running = None)
  BY <1>3 DEF RunsThen, OtherSessions, SameSession
<1>7. CASE conn[p].slow /\ q = p
  BY <1>4, <1>5, <1>7, AskerRunning DEF SameAsk
<1>8. CASE ~(conn[p].slow /\ q = p)
  <2>1. u # None
    BY CodexAssumption
  <2>2. ses[q][z].running = u => ses'[q][z].running = u
    BY <1>4, <1>6, <1>8, <2>1
  <2> QED
    BY <1>4, <1>5, <1>6, <2>2, AskerKept
<1> QED
  BY <1>7, <1>8

LEMMA DrivesAskers ==
    ASSUME Basis, Askers, NEW t \in Turns, Drives1(t), rt' = rt PROVE Askers'
<1>1. RestedKept
  BY RtSame, DriveApart, ApartRested
<1>2. /\ SlowStays /\ \A p \in Pairs, s \in Sessions : ses'[p][s].running = ses[p][s].running
  BY DEF Drives1, SameSlow, SlowStays
<1>3. \A u \in Turns : SameAsk(u)
  <2>1. \A u \in Turns : u # t => turn'[u] = turn[u]
    BY DEF Drives1, AsksFor, Found, Again, Leaves, OnlyOf
  <2>2. SameAsk(t)
    BY DEF Drives1, AsksFor, Found, Again, Leaves, OnlyOf, Only, SameAsk
  <2> QED
    BY <2>1, <2>2 DEF SameAsk
<1>4. None \notin Turns
  BY CodexAssumption
<1> QED
  BY <1>1, <1>2, <1>3, <1>4, KeptAskers

LEMMA GivesUpAskers ==
    ASSUME Basis, Turning, Askers, Signs, Quiet, NEW t \in Turns, GivesUp(t), rt' = rt PROVE Askers'
<1>1. RestedKept /\ \A u \in Turns : turn[u].rq # "none" => ~Orphan(u)
  BY QuietBegins, NoOrphans
<1> PICK p : p = turn[t].pair
  OBVIOUS
<1>2. /\ Finishes(p, t, "interrupted") /\ turn[t].settle
      /\ turn[t].drv = "none" \/ conn[p].slow
  BY DEF GivesUp
<1>3. /\ p \in Pairs /\ ses[p][SessionOf[t]].running = t /\ OnlyOf(turn, turn', t, {"out", "settle"})
      /\ RunsThen(p, SessionOf[t], None) /\ SlowStays
  BY <1>2 DEF Finishes, SameSlow, SlowStays
<1> PICK s \in Sessions : s = SessionOf[t]
  BY CodexAssumption
<1> SUFFICES ASSUME NEW u \in Turns, turn'[u].rq # "none" PROVE Asker(u)'
  BY DEF Askers, Asker
<1>4. SameAsk(u) /\ turn[u].rq # "none"
  <2>1. SameAsk(u)
    BY <1>3 DEF OnlyOf, Only, SameAsk
  <2> QED
    BY <2>1 DEF SameAsk
<1> PICK q \in Pairs, z \in Sessions :
      /\ turn[u].pair = q /\ SessionOf[u] = z /\ turn[u].ph # "open" /\ turn[u].ph \notin Early
  BY <1>4, AskerPlace
<1>5. ses'[q][z].running = ses[q][z].running \/ (q = p /\ z = s)
  BY <1>3 DEF RunsThen, OtherSessions, SameSession
<1>6. conn[q].slow => conn'[q].slow
  BY <1>3 DEF SlowStays
<1>7. CASE conn[q].slow
  BY <1>4, <1>6, <1>7, AskerRunning DEF SameAsk
<1>8. ASSUME ~conn[q].slow, q = p, z = s, ses[q][z].running = u PROVE FALSE
  <2>1. u = t /\ RunsNow(t) /\ Begun(turn, t, p)
    BY <1>3, <1>8 DEF RunsNow, Begun
  <2>2. RunSign(t)
    BY <1>3, <1>8, <2>1 DEF Signs, Signed, RunSigns
  <2>3. IdKnown(turn, t)
    BY <1>2, <1>8, <2>2 DEF RunSign
  <2>4. Drivable(t)
    BY DEF Turning, TurnsRun
  <2>5. Passed(t)
    BY <2>2, <2>3, <2>4 DEF RunSign, IdKnown, Drivable, Passed
  <2> QED
    BY <1>4, <2>1, <2>5, OrphanDue DEF Quiet
<1>9. CASE ~conn[q].slow
  BY <1>1, <1>4, <1>5, <1>8, <1>9, AskerKept
<1> QED
  BY <1>7, <1>9

LEMMA RunsOutAskers ==
    ASSUME Basis, Askers, Quiet, NEW t \in Turns, RunsOut(t) PROVE Askers'
<1>1. RestedKept
  BY QuietBegins, NoOrphans
<1> PICK p \in Pairs : p = turn[t].pair /\ conn[p].slow
  BY DEF RunsOut
<1>2. /\ SlowStays /\ \A q \in Pairs, s \in Sessions : ses'[q][s].running = ses[q][s].running
  BY DEF RunsOut, SameSlow, SlowStays
<1>3. OnlyOf(turn, turn', t, {"rq"}) \/ OnlyOf(turn, turn', t, {"dq"})
  BY DEF RunsOut
<1>4. turn'[t].pair = p /\ turn'[t].ph = turn[t].ph /\ \A u \in Turns : u # t => SameAsk(u)
  BY <1>3 DEF OnlyOf, Only, SameAsk
<1>5. turn'[t].rq # "none" => turn[t].rq # "none"
  BY <1>3 DEF RunsOut, OnlyOf, Only
<1>6. turn'[t].rq # "none" => Asker(t)'
  <2> SUFFICES ASSUME turn'[t].rq # "none" PROVE Asker(t)'
    OBVIOUS
  <2>1. turn[t].ph # "open"
    BY <1>5, AskerPlace
  <2>2. conn'[p].slow
    BY <1>2 DEF SlowStays
  <2> QED
    BY <1>4, <2>1, <2>2, AskerRunning
<1> QED
  BY <1>1, <1>2, <1>4, <1>6, KeptAskers

LEMMA TailNone ==
    ASSUME NEW S, NEW q \in Seq(S), q # <<>>, \A i \in DOMAIN q : q[i] = None
    PROVE  Head(q) = None /\ \A i \in DOMAIN Tail(q) : Tail(q)[i] = None
<1>1. 1 \in DOMAIN q /\ \A i \in DOMAIN Tail(q) : Tail(q)[i] = q[i + 1] /\ i + 1 \in DOMAIN q
  BY TailOf
<1> QED
  BY <1>1

(* A queue goes on: by its head, which nobody blocks, or in a quiet moment.  *)
LEMMA GoesRested ==
    ASSUME Basis, NEW p \in Pairs, NEW s \in Sessions, NEW x, QueueGoes(p, s, x), rt' = rt,
           \A u \in Turns : turn'[u].pair = turn[u].pair,
           ses[p][s].block = None \/ ~OrphanIn(p, s)
    PROVE  RestedKept /\ (OrphanIn(p, s) => Head(ses[p][s].queue) = None)
<1>1. /\ ses[p][s].queue # <<>> /\ ses'[p][s].queue = Tail(ses[p][s].queue) /\ OtherSessions(p, s)
  BY DEF QueueGoes
<1>2. ses[p][s].queue \in Seq(Turns \cup {None})
  BY SessionTypes
<1>3. \A i \in DOMAIN rt.waits : rt.waits[i] \in Turns
  BY RunsFacts
<1>4. ASSUME OrphanIn(p, s)
      PROVE  /\ Head(ses[p][s].queue) = None
             /\ \A i \in DOMAIN ses'[p][s].queue : ses'[p][s].queue[i] = None
  <2>1. \A i \in DOMAIN ses[p][s].queue : ses[p][s].queue[i] = None
    BY <1>4 DEF OrphanIn, Orphan, Rested
  <2> QED
    BY <1>1, <1>2, <2>1, TailNone
<1>5. ASSUME NEW q \in Pairs, NEW z \in Sessions, OrphanIn(q, z) PROVE Rested(q, z)'
  <2>1. Rested(q, z)
    BY <1>5 DEF OrphanIn, Orphan
  <2>2. rt'.cur # q \/ \A i \in DOMAIN rt'.waits : turn'[rt'.waits[i]].pair \notin Resolved(rt')
    BY <1>3, <2>1 DEF Rested
  <2>3. ses'[q][z].block = None => \A i \in DOMAIN ses'[q][z].queue : ses'[q][z].queue[i] = None
    <3>1. CASE q = p /\ z = s
      BY <1>4, <1>5, <3>1
    <3>2. CASE q # p \/ z # s
      BY <1>1, <2>1, <3>2 DEF OtherSessions, SameSession, Rested
    <3> QED
      BY <3>1, <3>2
  <2> QED
    BY <2>2, <2>3 DEF Rested, Resolved
<1> QED
  BY <1>4, <1>5 DEF RestedKept

LEMMA PopsAskers ==
    ASSUME Basis, Askers, NEW p \in Pairs, NEW s \in Sessions, Pops(p, s), rt' = rt,
           ses[p][s].block = None \/ ~OrphanIn(p, s)
    PROVE  Askers'
<1>1. QueueGoes(p, s, None) /\ turn' = turn /\ SlowStays
  BY DEF Pops, SameSlow, SlowStays
<1>2. RestedKept
  BY <1>1, GoesRested
<1>3. \A q \in Pairs, z \in Sessions : ses'[q][z].running = ses[q][z].running
  BY <1>1 DEF QueueGoes, OtherSessions, SameSession
<1>4. None \notin Turns /\ \A u \in Turns : SameAsk(u)
  BY <1>1, CodexAssumption DEF SameAsk
<1> QED
  BY <1>1, <1>2, <1>3, <1>4, KeptAskers

LEMMA BeginsAskers ==
    ASSUME Basis, Askers, NEW p \in Pairs, NEW s \in Sessions, NEW h \in Turns, Begins(p, s, h),
           rt' = rt, ses[p][s].block = None \/ ~OrphanIn(p, s)
    PROVE  Askers'
<1>1. /\ QueueGoes(p, s, h) /\ Head(ses[p][s].queue) = h /\ turn[h].pair = p /\ SessionOf[h] = s
      /\ Sends(p, h)
  BY DEF Begins
<1>2. /\ OnlyOf(turn, turn', h, {"ph", "rq"}) /\ SlowStays
      /\ turn'[h].ph \in {"load", "start", "reload", "restart"}
  BY <1>1 DEF Sends, SlowStays
<1>3. turn'[h].pair = p /\ \A u \in Turns : u # h => SameAsk(u)
  BY <1>1, <1>2 DEF OnlyOf, Only, SameAsk
<1>4. RestedKept /\ ~OrphanIn(p, s)
  <2>1. h # None /\ \A u \in Turns : turn'[u].pair = turn[u].pair
    BY <1>1, <1>3, CodexAssumption DEF SameAsk
  <2> QED
    BY <1>1, <2>1, GoesRested
<1>5. /\ ses'[p][s].running = h /\ ses[p][s].running = None /\ OtherSessions(p, s)
  BY <1>1 DEF QueueGoes
<1> SUFFICES ASSUME NEW u \in Turns, turn'[u].rq # "none" PROVE Asker(u)'
  BY DEF Askers, Asker
<1>6. CASE u = h
  BY <1>1, <1>2, <1>3, <1>5, <1>6, AskerRunning
<1>7. CASE u # h
  <2>1. SameAsk(u) /\ turn[u].rq # "none"
    BY <1>3, <1>7 DEF SameAsk
  <2> PICK q \in Pairs, z \in Sessions : turn[u].pair = q /\ SessionOf[u] = z
    BY <2>1, AskerPlace
  <2>2. u # None
    BY CodexAssumption
  <2>3. ses[q][z].running = u => ses'[q][z].running = u
    BY <1>5, <2>2 DEF OtherSessions, SameSession
  <2>4. Orphan(u) => ses'[q][z].running = None /\ Rested(q, z)'
    <3>1. Orphan(u) => OrphanIn(q, z) /\ ses[q][z].running = None
      BY <2>1 DEF OrphanIn, Orphan
    <3> QED
      BY <1>4, <1>5, <3>1 DEF RestedKept, OtherSessions, SameSession
  <2> QED
    BY <1>2, <2>1, <2>3, <2>4, AskerKept DEF SlowStays
<1> QED
  BY <1>6, <1>7

(* A queue that interrupts, a handshake, and an app-server that works.       *)
LEMMA StopsAskers ==
    ASSUME Basis, Askers, NEW p \in Pairs, NEW s \in Sessions, NEW r \in Turns, Stops(p, s, r),
           rt' = rt
    PROVE  Askers'
<1>1. /\ OnlyOf(turn, turn', r, {"drv", "settle"}) /\ SlowStays
      /\ ses[p][s].running = r /\ ses'[p][s].running = r /\ OtherSessions(p, s)
  BY DEF Stops, SameSlow, SlowStays
<1>2. None \notin Turns /\ \A u \in Turns : SameAsk(u)
  BY <1>1, CodexAssumption DEF OnlyOf, Only, SameAsk
<1>3. \A q \in Pairs, z \in Sessions : ses'[q][z].running = ses[q][z].running
  BY <1>1 DEF OtherSessions, SameSession
<1>4. RestedKept
  <2> SUFFICES ASSUME NEW q \in Pairs, NEW z \in Sessions, OrphanIn(q, z) PROVE Rested(q, z)'
    BY DEF RestedKept
  <2>1. ses[q][z].running = None /\ Rested(q, z)
    BY DEF OrphanIn, Orphan
  <2>2. SameSession(q, z)
    BY <1>1, <1>2, <2>1 DEF OtherSessions
  <2>3. \A i \in DOMAIN rt.waits : turn'[rt.waits[i]].pair = turn[rt.waits[i]].pair
    BY <1>2, RunsFacts DEF SameAsk
  <2> QED
    BY <2>1, <2>2, <2>3 DEF SameSession, Rested, Resolved
<1> QED
  BY <1>1, <1>2, <1>3, <1>4, KeptAskers

LEMMA QuietAskers ==
    ASSUME Basis, Askers, Quiet, SlowStays, ses' = ses,
           \A u \in Turns : /\ turn'[u].ph = turn[u].ph /\ turn'[u].pair = turn[u].pair
                            /\ (turn'[u].rq # "none" => turn[u].rq # "none")
    PROVE  Askers'
<1> SUFFICES ASSUME NEW u \in Turns, turn'[u].rq # "none" PROVE Asker(u)'
  BY DEF Askers, Asker
<1>1. turn[u].rq # "none" /\ ~Orphan(u)
  BY QuietBegins, NoOrphans
<1> PICK p \in Pairs, s \in Sessions :
      /\ turn[u].pair = p /\ SessionOf[u] = s /\ turn[u].ph # "open"
      /\ conn[p].slow \/ ses[p][s].running = u
  BY <1>1, AskerPlace DEF Orphan
<1> QED
  BY AskerRunning DEF SlowStays

LEMMA HandshakenAskers ==
    ASSUME Basis, Askers, Quiet, NEW p \in Pairs, Handshaken(p) PROVE Askers'
<1>1. SlowStays /\ ses' = ses
  BY DEF Handshaken, SameSlow, SlowStays
<1>2. ASSUME NEW u \in Turns
      PROVE  /\ turn'[u].ph = turn[u].ph /\ turn'[u].pair = turn[u].pair
             /\ (turn'[u].rq # "none" => turn[u].rq # "none")
  <2>1. /\ Only(turn[u], turn'[u], {"rq", "dq"})
        /\ turn'[u].rq = Sent(turn[u].rq) \/ turn'[u].rq = turn[u].rq
    BY Zenon DEF Handshaken
  <2> QED
    BY <2>1 DEF Only, Sent
<1> QED
  BY <1>1, <1>2, QuietAskers

LEMMA SlowsAskers == ASSUME Basis, Askers, Quiet, Slows PROVE Askers'
BY QuietAskers DEF Slows, SlowStays

LEMMA WorksAskers ==
    ASSUME Basis, Askers, Quiet, NEW p \in Pairs, Works(p) PROVE Askers'
<1>1. SlowStays /\ ses' = ses /\ turn' = turn
  BY DEF Works, SameSlow, SlowStays
<1> QED
  BY <1>1, QuietAskers

(* A line is read: an answer is the turn's own, and the end of a turn is     *)
(* that of the turn that runs.                                               *)
LEMMA SteadyRested ==
    ASSUME Basis, Steady, RtLike, Apart, NEW p \in Pairs, NEW s \in Sessions
    PROVE  Rested(p, s)'
<1>1. \A i \in DOMAIN rt.waits : rt.waits[i] \in Turns
  BY RunsFacts
<1>2. /\ ses'[p][s].block = ses[p][s].block /\ ses'[p][s].queue = ses[p][s].queue
      /\ rt'.cur = rt.cur /\ rt'.waits = rt.waits /\ Resolved(rt') = Resolved(rt)
  BY DEF Apart, QueuesSame, RtLike, Resolved
<1>3. \A i \in DOMAIN rt.waits : turn'[rt.waits[i]].pair = turn[rt.waits[i]].pair
  BY <1>1 DEF Apart, PairsStay
<1> QED
  BY <1>2, <1>3 DEF Steady, Rested, Resolved

LEMMA EndedAskers ==
    ASSUME Basis, Turning, Askers, Signs, NEW p \in Pairs, Reads(p), EndRead(p, FirstOut(p)),
           RtLike, Steady
    PROVE  Askers'
<1>1. /\ wire[p].out # <<>> /\ FirstOut(p).kind # "reply" /\ FirstOut(p).for \notin stale[p]
      /\ Apart /\ SlowStays
  BY WireApart DEF Reads, EndRead, SameSlow, SlowStays
<1> PICK r, s : r = ses[p][SessionOf[FirstOut(p).for]].running /\ s = SessionOf[r]
  OBVIOUS
<1>2. /\ r \in Turns /\ ses[p][s].running = r /\ OnlyOf(turn, turn', r, {"out", "settle"})
      /\ RunsThen(p, s, None)
  BY DEF EndRead, Finishes
<1>3. s \in Sessions /\ r # None /\ \A u \in Turns : SameAsk(u)
  BY <1>2, CodexAssumption DEF OnlyOf, Only, SameAsk
<1>4. ~conn[p].slow => Passed(r)
  <2>1. ~conn[p].slow => FirstOut(p).for = r /\ Passed(FirstOut(p).for)
    BY <1>1, FirstRuns DEF Signs
  <2> QED
    BY <2>1
<1> SUFFICES ASSUME NEW u \in Turns, turn'[u].rq # "none" PROVE Asker(u)'
  BY DEF Askers, Asker
<1>5. SameAsk(u) /\ turn[u].rq # "none" /\ u # None
  BY <1>3, CodexAssumption DEF SameAsk
<1> PICK q \in Pairs, z \in Sessions :
      /\ turn[u].pair = q /\ SessionOf[u] = z /\ turn[u].ph # "open"
      /\ conn[q].slow \/ ses[q][z].running \in {u, None}
  BY <1>5, AskerPlace
<1>7. CASE q = p /\ z = s /\ ~conn[p].slow
  <2>1. u = r /\ Passed(u)
    BY <1>2, <1>3, <1>4, <1>7
  <2>2. Passed(u)'
    BY <1>5, <2>1 DEF Passed, SameAsk
  <2>3. ses'[q][z].running = None /\ Rested(q, z)' /\ turn'[u].pair = q
    BY <1>1, <1>2, <1>5, <1>7, SteadyRested DEF RunsThen, SameAsk
  <2>4. Orphan(u)'
    BY <2>2, <2>3 DEF Orphan
  <2> QED
    BY <1>5, <2>4 DEF Asker, SameAsk
<1>8. CASE q = p /\ conn[p].slow
  <2>1. conn'[q].slow /\ turn'[u].pair = q /\ turn'[u].ph # "open"
    BY <1>1, <1>5, <1>8 DEF SlowStays, SameAsk
  <2> QED
    BY <2>1, AskerRunning
<1>9. CASE q # p \/ z # s
  <2>1. ses'[q][z].running = ses[q][z].running
    BY <1>2, <1>9 DEF RunsThen, OtherSessions, SameSession
  <2>2. Orphan(u) => ses'[q][z].running = None /\ Rested(q, z)'
    BY <1>1, <2>1, SteadyRested DEF Orphan
  <2> QED
    BY <1>1, <1>5, <2>1, <2>2, AskerKept DEF SlowStays
<1> QED
  BY <1>7, <1>8, <1>9

LEMMA AnsweredAskers ==
    ASSUME Basis, Wires, Turning, Askers, NEW p \in Pairs, Reads(p), Answered1(FirstOut(p)), RtLike
    PROVE  Askers'
<1>1. /\ 1 \in DOMAIN wire[p].out /\ FirstOut(p) = wire[p].out[1]
      /\ FirstOut(p).for \in Turns /\ Begun(turn, FirstOut(p).for, p)
  BY FirstLine DEF Reads
<1> PICK l : l = wire[p].out[1]
  OBVIOUS
<1> PICK x \in Turns : x = l.for
  BY <1>1
<1>2. RestedKept /\ SlowStays
  BY WireApart, ApartRested DEF Reads, SameSlow, SlowStays
<1>3. /\ l.kind = "reply" /\ ses' = ses
      /\ OnlyOf(turn, turn', x, IF l.what = "interrupt" THEN {"dq"} ELSE {"rq"})
  BY <1>1 DEF Answered1
<1>4. \A u \in Turns : u # x => SameAsk(u)
  BY <1>3 DEF OnlyOf, SameAsk
<1>5. turn'[x].ph = turn[x].ph /\ turn'[x].pair = turn[x].pair
  BY <1>3 DEF OnlyOf, Only
<1>6. CASE l.what = "interrupt"
  <2>1. SameAsk(x) /\ None \notin Turns
    BY <1>3, <1>5, <1>6, CodexAssumption DEF OnlyOf, Only, SameAsk
  <2> QED
    BY <1>2, <1>3, <1>4, <2>1, KeptAskers
<1>7. CASE l.what # "interrupt"
  <2>1. IsAnswer(wire[p].out[1])
    BY <1>3, <1>7 DEF IsAnswer
  <2>2. turn[x].pair = p /\ turn[x].rq = "sent"
    BY <1>1, <2>1, ToldSent DEF Wants
  <2>3. turn[x].ph # "open" /\ (conn[p].slow \/ ses[p][SessionOf[x]].running = x)
    BY <2>2, AskerPlace DEF Passed
  <2>4. conn'[p].slow \/ ses'[p][SessionOf[x]].running = x
    BY <1>2, <1>3, <2>3 DEF SlowStays
  <2>5. turn'[x].pair = p /\ turn'[x].ph # "open"
    BY <1>5, <2>2, <2>3
  <2>6. Asker(x)'
    BY <2>4, <2>5, AskerRunning
  <2> QED
    BY <1>2, <1>3, <1>4, <2>6, KeptAskers
<1> QED
  BY <1>6, <1>7

LEMMA ReadsAskers ==
    ASSUME Basis, Wires, Turning, Askers, Signs, NEW p \in Pairs, Reads(p), RtLike, Steady
    PROVE  Askers'
<1>1. \/ Answered1(FirstOut(p)) \/ Unheard(p, FirstOut(p)) \/ Named(p, FirstOut(p)) \/ EndRead(p, FirstOut(p))
  BY DEF Reads, FirstOut
<1>2. RestedKept /\ SlowStays
  BY WireApart, ApartRested DEF Reads, SameSlow, SlowStays
<1>3. CASE Unheard(p, FirstOut(p)) \/ Named(p, FirstOut(p))
  <2>1. ses' = ses /\ \A u \in Turns : SameAsk(u)
    <3>1. CASE Unheard(p, FirstOut(p))
      BY <3>1 DEF Unheard, SameAsk
    <3>2. CASE Named(p, FirstOut(p))
      <4> PICK r : r = ses[p][SessionOf[FirstOut(p).for]].running
        OBVIOUS
      <4>1. ses' = ses /\ OnlyOf(turn, turn', r, {"lid", "drv", "settle"})
        BY <3>2 DEF Named
      <4> QED
        BY <4>1 DEF OnlyOf, Only, SameAsk
    <3> QED
      BY <1>3, <3>1, <3>2
  <2> QED
    BY <1>2, <2>1, CodexAssumption, KeptAskers
<1> QED
  BY <1>1, <1>3, AnsweredAskers, EndedAskers

(* Every step, action by action.                                             *)
LEMMA ReactionAskers ==
    ASSUME Basis, Runs, Turning, RunOrder, Askers, Reactions PROVE Askers'
<1>1. ASSUME NEW t \in Turns, EnterManager(t) PROVE Askers'
  BY <1>1, EnterEarly, EnterRested, EarlyAskers
<1>2. ASSUME NEW t \in Turns, CompleteRun(t) PROVE Askers'
  BY <1>2, CompleteAskers
<1>3. ASSUME NEW t \in Turns, AbortAfterSetup(t) PROVE Askers'
  BY <1>3, AbortEarly, AbortRested, EarlyAskers
<1>4. ASSUME NEW t \in Turns, BeginContinues(t) PROVE Askers'
  <2>1. rt' = rt
    BY <1>4 DEF BeginContinues
  <2> QED
    BY <1>4, <2>1, BeginSends, AsksAskers, OpensAskers, FailsAskers
<1>5. ASSUME NEW t \in Turns, DriverContinues(t) PROVE Askers'
  <2>1. rt' = rt
    BY <1>5 DEF DriverContinues
  <2> QED
    BY <1>5, <2>1, ContinuesDrives, DrivesAskers
<1>6. ASSUME NEW p \in Pairs, NEW s \in Sessions, HeadStarts(p, s) PROVE Askers'
  <2>1. rt' = rt /\ ses[p][s].block = None
    BY <1>6 DEF HeadStarts, HeadDue
  <2> QED
    BY <1>6, <2>1, HeadStartsBegins, PopsAskers, BeginsAskers, StopsAskers
<1> QED
  BY <1>1, <1>2, <1>3, <1>4, <1>5, <1>6 DEF Reactions

LEMMA TimerAskers ==
    ASSUME Basis, Runs, Turning, Askers, Signs, Timers PROVE Askers'
<1>1. ASSUME NEW t \in Turns, DriverAsks(t) \/ GiveUp(t) PROVE Askers'
  <2>1. Quiet /\ rt' = rt
    BY <1>1 DEF DriverAsks, GiveUp
  <2> QED
    BY <1>1, <2>1, AsksDrives, DrivesAskers, GiveUpGives, GivesUpAskers
<1>2. ASSUME NEW t \in Turns, NEW f \in {"rq", "dq"}, TimeOut(t, f) PROVE Askers'
  <2>1. Quiet
    BY <1>2 DEF TimeOut
  <2> QED
    BY <1>2, <2>1, TimeOutRuns, RunsOutAskers
<1>3. ASSUME NEW p \in Pairs, NEW s \in Sessions, HeadResumes(p, s) PROVE Askers'
  <2>1. Quiet /\ rt' = rt
    BY <1>3 DEF HeadResumes
  <2>2. ~OrphanIn(p, s)
    BY <2>1, QuietBegins, NoOrphans DEF OrphanIn
  <2> QED
    BY <1>3, <2>1, <2>2, HeadResumesBegins, PopsAskers, BeginsAskers
<1>4. ASSUME NEW p \in Pairs, Reap(p) PROVE Askers'
  <2>1. Quiet /\ rt' = rt
    BY <1>4 DEF Reap
  <2> QED
    BY <1>4, <2>1, LossLost, RtSame, QuietLost DEF Runs
<1> QED
  BY <1>1, <1>2, <1>3, <1>4 DEF Timers

LEMMA DeliverAskers ==
    ASSUME Basis, Wires, Runs, Turning, RunOrder, Askers, Signs, NEW p \in Pairs, Deliver(p)
    PROVE  Askers'
<1>1. PICK more \in 0..MaxPairs : rt' = [rt EXCEPT !.chunk = more]
  BY DeliverDelivers DEF Delivers
<1>2. RtLike
  BY <1>1, BasisParts DEF RtLike, RtStates
<1>3. Steady
  <2>1. CASE Quiet
    BY <2>1, QuietSteady DEF Runs
  <2>2. CASE rt.chunk = p
    BY <2>2, CodexAssumption DEF RunOrder, Pairs
  <2> QED
    BY <2>1, <2>2 DEF Deliver
<1> QED
  BY <1>2, <1>3, DeliverReads, ReadsAskers

LEMMA AppServerAskers ==
    ASSUME Basis, Wires, Runs, Turning, RunOrder, Askers, Signs, AppServer PROVE Askers'
<1>1. ASSUME NEW p \in Pairs, Handshake(p) PROVE Askers'
  BY <1>1, HandshakeDone, HandshakenAskers DEF Handshake
<1>2. ASSUME NEW p \in Pairs, ChildLost(p) PROVE Askers'
  <2>1. Quiet /\ rt' = rt
    BY <1>2 DEF ChildLost
  <2> QED
    BY <1>2, <2>1, LossLost, RtSame, QuietLost DEF Runs
<1>3. ASSUME NEW p \in Pairs, SlowDown(p) PROVE Askers'
  BY <1>3, SlowDownSlows, SlowsAskers DEF SlowDown
<1>4. ASSUME NEW p \in Pairs, Deliver(p) PROVE Askers'
  BY <1>4, DeliverAskers
<1>5. ASSUME NEW p \in Pairs, NEW m \in wire[p].in, Serve(p, m) PROVE Askers'
  <2>1. Quiet
    BY <1>5 DEF Serve
  <2> QED
    BY <1>5, <2>1, ServeWorks, WorksAskers
<1>6. ASSUME NEW p \in Pairs, NEW s \in Sessions, NEW k \in Ends, ServeEnd(p, s, k) PROVE Askers'
  <2>1. Quiet
    BY <1>6 DEF ServeEnd
  <2> QED
    BY <1>6, <2>1, ServeEndWorks, WorksAskers
<1> QED
  BY <1>1, <1>2, <1>3, <1>4, <1>5, <1>6 DEF AppServer

LEMMA RuntimeAskers ==
    ASSUME Basis, Runs, Askers, Runtime PROVE Askers'
<1>1. ASSUME NEW t \in Turns, StartRun(t) \/ Kill(t) PROVE Askers'
  <2>1. EarlyMoves /\ Quiet
    BY <1>1, StartEarly, KillEarly DEF StartRun, Kill
  <2> QED
    BY <2>1, QuietBegins, NoOrphans, EarlyAskers
<1>2. ASSUME NEW p \in Pairs, CreatePair(p) PROVE Askers'
  <2>1. EarlyMoves /\ Quiet
    BY <1>2, CreateEarly DEF CreatePair
  <2> QED
    BY <2>1, QuietBegins, NoOrphans, EarlyAskers
<1> QED
  BY <1>1, <1>2, ChangeAskers DEF Runtime, Runs

LEMMA SameKeeps ==
    ASSUME Basis, UNCHANGED vars PROVE EarlyMoves /\ RestedKept
<1>1. /\ turn' = turn /\ ses' = ses /\ rt' = rt /\ UNCHANGED <<wire, child, stale, conn>>
  BY DEF vars
<1> QED
  BY <1>1, SameEarly, SameApart, RtSame, ApartRested DEF SameRunning, SameSlow

LEMMA SameAskers == ASSUME Basis, Askers, UNCHANGED vars PROVE Askers'
BY SameKeeps, EarlyAskers

LEMMA AskersNext ==
    ASSUME Basis, Wires, Runs, Turning, RunOrder, Askers, Signs, [CodexNext]_vars PROVE Askers'
BY ReactionAskers, TimerAskers, AppServerAskers, RuntimeAskers, SameAskers DEF CodexNext

LEMMA SignsNext ==
    ASSUME Basis, Basis', Wires, Turning, Askers, Signs, [CodexNext]_vars PROVE Signs'
<1>1. CASE Reactions
  BY <1>1, ReactionIs, EarlySigns, LostSigns, AsksSigns, OpensSigns, FailsSigns, DrivesSigns,
     PopsSigns, BeginsSigns, StopsSigns
<1>2. CASE Timers
  BY <1>2, TimerIs, LostSigns, DrivesSigns, GivesUpSigns, RunsOutSigns, PopsSigns, BeginsSigns
<1>3. CASE AppServer
  BY <1>3, AppServerIs, SlowsSigns, LostSigns, HandshakenSigns, ReadsSigns, WorksSigns
<1>4. CASE Runtime
  BY <1>4, RuntimeIs, EarlySigns, LostSigns
<1>5. CASE UNCHANGED vars
  BY <1>5, SameKeeps, EarlySigns
<1> QED
  BY <1>1, <1>2, <1>3, <1>4, <1>5 DEF CodexNext

LEMMA AskersInit == ASSUME CodexInit PROVE Askers /\ Signs
<1>1. Askers
  BY DEF CodexInit, Askers, Asker
<1>2. ASSUME NEW p \in Pairs
      PROVE  /\ wire[p].in = {} /\ DOMAIN wire[p].out = {}
             /\ \A s \in Sessions : child[p][s].active = None
             /\ \A t \in Turns : ~Begun(turn, t, p)
  BY DEF CodexInit, NoLines, NewChild, Begun, Early
<1>3. ASSUME NEW p \in Pairs PROVE Signed(p)
  BY <1>2 DEF Signed, LineSigns, ActiveSigns, EventSigns, RunSigns, FoundSigns
<1> QED
  BY <1>1, <1>3 DEF Signs

-----------------------------------------------------------------------------
(* Who ends a turn in a step.                                                *)
EndsOwn ==
    \A t \in Turns : turn[t].out = "none" /\ turn'[t].out # "none"
      => turn'[t].by = t \/ conn[turn[t].pair].slow
OutStays == \A t \in Turns : turn'[t].out = turn[t].out

LEMMA StaysOwn == ASSUME OutStays PROVE EndsOwn
BY DEF OutStays, EndsOwn

LEMMA OnlyStays ==
    ASSUME NEW S, "out" \notin S, NEW t, OnlyOf(turn, turn', t, S) PROVE EndsOwn
BY StaysOwn DEF OnlyOf, Only, OutStays

LEMMA SettledBy ==
    ASSUME NEW f \in TurnTable, NEW r \in Turns, NEW out, NEW who
    PROVE  /\ Settle(f, r, out, who)[r].by = who
           /\ \A u \in Turns : u # r => Settle(f, r, out, who)[u].out = f[u].out
BY DEF Settle, TurnTable, TurnState

LEMMA SettledOwn ==
    ASSUME turn \in TurnTable, NEW r \in Turns, NEW who, \E out : turn' = Settle(turn, r, out, who),
           who = r \/ conn[turn[r].pair].slow
    PROVE  EndsOwn
<1>1. turn'[r].by = who /\ \A u \in Turns : u # r => turn'[u].out = turn[u].out
  BY DEF Settle, TurnTable, TurnState
<1> QED
  BY <1>1 DEF EndsOwn

LEMMA OrphanedBy ==
    ASSUME NEW f \in TurnTable, NEW p, NEW u \in Turns
    PROVE  Orphaned(p, f)[u].by = u \/ Orphaned(p, f)[u].out = f[u].out
<1>1. f[u] \in TurnState
  BY DEF TurnTable
<1> QED
  BY <1>1 DEF Orphaned, TurnState

LEMMA LoseOwn ==
    ASSUME NEW f \in TurnTable, \A u \in Turns : f[u].out = turn[u].out,
           NEW p, NEW reaps, Lose(p, f, reaps)
    PROVE  EndsOwn
<1>1. turn' = Orphaned(p, f)
  BY DEF Lose
<1> QED
  BY <1>1, OrphanedBy DEF EndsOwn

LEMMA RetireOwn ==
    ASSUME NEW f \in TurnTable, \A u \in Turns : f[u].out = turn[u].out, NEW r, RetirePair(f, r)
    PROVE  EndsOwn
<1>1. Lose(rt.cur, f, FALSE) \/ turn' = f
  BY DEF RetirePair
<1> QED
  BY <1>1, LoseOwn, StaysOwn DEF OutStays

LEMMA EnterOwn == ASSUME Basis, NEW t \in Turns, EnterManager(t) PROVE EndsOwn
<1>1. turn \in TurnTable
  BY BasisParts
<1>2. \/ turn' = [turn EXCEPT ![t].ph = "open", ![t].out = "failed", ![t].by = t]
      \/ turn' = [turn EXCEPT ![t].ph = "queued", ![t].pair = rt.cur]
  BY DEF EnterManager
<1>3. \A u \in Turns : turn'[u].by = u \/ turn'[u].out = turn[u].out
  BY <1>1, <1>2 DEF TurnTable, TurnState
<1> QED
  BY <1>3 DEF EndsOwn

LEMMA CompleteOwn == ASSUME Basis, NEW t \in Turns, CompleteRun(t) PROVE EndsOwn
<1> DEFINE f == [turn EXCEPT ![t].gone = TRUE, ![t].by = None]
<1>0. OnlyOf(turn, f, t, {})
  BY GoneOnly, BasisParts
<1>1. f \in TurnTable /\ \A u \in Turns : f[u].out = turn[u].out
  BY <1>0, Zenon DEF OnlyOf, Only
<1>2. turn' = f \/ \E r : RetirePair(f, r)
  BY DEF CompleteRun
<1> HIDE DEF f
<1> QED
  BY <1>1, <1>2, RetireOwn, StaysOwn DEF OutStays

(* A turn whose request fails ends the turn that runs in its session.        *)
LEMMA FailedOwn ==
    ASSUME Basis, Turning, Askers, NEW t \in Turns, BeginContinues(t),
           turn[t].rq = "error" \/ (turn[t].rq = "missing" /\ turn[t].ph # "start")
    PROVE  EndsOwn
<1> DEFINE p == turn[t].pair
           r == ses[p][SessionOf[t]].running
           g == [[turn EXCEPT ![t].rq = "none"] EXCEPT ![t].ph = "open"]
<1>1. turn' = IF r # None THEN Settle(g, r, "failed", t) ELSE g
  BY DEF BeginContinues
<1>2. turn \in TurnTable /\ p \in Pairs /\ SessionOf[t] \in Sessions
  BY AskerRuns, TurnTypes
<1>3. g \in TurnTable /\ \A u \in Turns : g[u].out = turn[u].out
  <2> DEFINE f == [turn EXCEPT ![t].rq = "none"]
  <2>1. f \in TurnTable /\ \A u \in Turns : f[u].out = turn[u].out
    BY <1>2 DEF TurnTable, TurnState, Requests
  <2> HIDE DEF f
  <2>2. [f EXCEPT ![t].ph = "open"] \in TurnTable
        /\ \A u \in Turns : [f EXCEPT ![t].ph = "open"][u].out = f[u].out
    BY <2>1 DEF TurnTable, TurnState
  <2> QED
    BY <2>1, <2>2 DEF f, g
<1>4. r \in Turns \cup {None} /\ (r # None => turn[r].pair = p)
  BY <1>2, SessionTypes DEF Turning, RunningKnown
<1>5. conn[p].slow \/ r \in {t, None}
  BY AskerRuns
<1> HIDE DEF p, r, g
<1>6. CASE r = None
  BY <1>1, <1>3, <1>6, StaysOwn DEF OutStays
<1>7. CASE r # None
  BY <1>1, <1>3, <1>4, <1>5, <1>7, SettledBy DEF EndsOwn
<1> QED
  BY <1>6, <1>7

LEMMA BeginOwn ==
    ASSUME Basis, Turning, Askers, NEW t \in Turns, BeginContinues(t) PROVE EndsOwn
<1>1. CASE turn[t].rq = "error" \/ (turn[t].rq = "missing" /\ turn[t].ph # "start")
  BY <1>1, FailedOwn
<1>2. CASE turn[t].rq = "missing" /\ turn[t].ph = "start"
  <2> DEFINE f == [[turn EXCEPT ![t].rq = "none"] EXCEPT ![t].ph = "reload"]
  <2>1. Issue(turn[t].pair, f, t, "rq", LoadLine(t))
    BY <1>2 DEF BeginContinues
  <2>2. \E x : turn' = [f EXCEPT ![t]["rq"] = x]
    BY <2>1 DEF Issue
  <2>3. turn \in TurnTable
    BY BasisParts
  <2>4. OutStays
    BY <2>2, <2>3 DEF OutStays, TurnTable, TurnState
  <2> QED
    BY <2>4, StaysOwn
<1>3. CASE turn[t].rq \notin {"error", "missing"}
  <2>1. CASE Asks1(t)
    BY <2>1, OnlyStays DEF Asks1, Sends
  <2>2. CASE Opens(t)
    <3>1. \A u \in Turns : turn'[u].out = turn[u].out
      BY <2>2 DEF Opens, Only
    <3> QED
      BY <3>1, StaysOwn DEF OutStays
  <2>3. ~Fails(t)
    BY <1>3 DEF Fails
  <2> QED
    BY <2>1, <2>2, <2>3, BeginSends
<1> QED
  BY <1>1, <1>2, <1>3

LEMMA DrivesOwn == ASSUME NEW t \in Turns, Drives1(t) PROVE EndsOwn
BY OnlyStays DEF Drives1, AsksFor, Found, Again, Leaves

LEMMA QueueOwn ==
    ASSUME NEW p \in Pairs, NEW s \in Sessions, NEW h \in Turns,
           Pops(p, s) \/ Begins(p, s, h) \/ Stops(p, s, h)
    PROVE  EndsOwn
<1>1. CASE Pops(p, s)
  BY <1>1, StaysOwn DEF Pops, OutStays
<1>2. CASE Begins(p, s, h)
  BY <1>2, OnlyStays DEF Begins, Sends
<1>3. CASE Stops(p, s, h)
  BY <1>3, OnlyStays DEF Stops
<1> QED
  BY <1>1, <1>2, <1>3

LEMMA PopsOwn == ASSUME NEW p \in Pairs, NEW s \in Sessions, Pops(p, s) PROVE EndsOwn
BY StaysOwn DEF Pops, OutStays

LEMMA GiveUpOwn == ASSUME Basis, NEW t \in Turns, GiveUp(t) PROVE EndsOwn
<1>1. turn' = Settle(turn, t, "interrupted", t)
  BY DEF GiveUp
<1> QED
  BY <1>1, BasisParts, SettledBy DEF EndsOwn

LEMMA ReadsOwn ==
    ASSUME Basis, Turning, Signs, NEW p \in Pairs, Reads(p) PROVE EndsOwn
<1>1. \/ Answered1(FirstOut(p)) \/ Unheard(p, FirstOut(p)) \/ Named(p, FirstOut(p)) \/ EndRead(p, FirstOut(p))
  BY DEF Reads, FirstOut
<1>2. CASE Answered1(FirstOut(p))
  BY <1>2, OnlyStays DEF Answered1
<1>3. CASE Unheard(p, FirstOut(p))
  BY <1>3, StaysOwn DEF Unheard, OutStays
<1>4. CASE Named(p, FirstOut(p))
  BY <1>4, OnlyStays DEF Named
<1>5. CASE EndRead(p, FirstOut(p))
  <2> DEFINE x == FirstOut(p).for
             r == ses[p][SessionOf[x]].running
  <2>1. /\ wire[p].out # <<>> /\ FirstOut(p).kind # "reply" /\ x \notin stale[p]
        /\ r \in Turns
    BY <1>5 DEF Reads, EndRead, Finishes
  <2>2. x \in Turns /\ SessionOf[x] \in Sessions
    BY <2>1, FirstLine, CodexAssumption
  <2>3. turn[r].pair = p
    BY <2>1, <2>2, CodexAssumption DEF Turning, RunningKnown
  <2>4. conn[p].slow \/ x = r
    BY <2>1, FirstRuns DEF Signs
  <2>5. \E out : turn' = Settle(turn, r, out, x)
    BY <1>5 DEF EndRead
  <2> HIDE DEF r, x
  <2> QED
    BY <2>1, <2>3, <2>4, <2>5, BasisParts, SettledOwn
<1> QED
  BY <1>1, <1>2, <1>3, <1>4, <1>5

LEMMA ReactionOwn ==
    ASSUME Basis, Turning, Askers, Reactions PROVE EndsOwn
<1>1. CASE \E t \in Turns : EnterManager(t) \/ CompleteRun(t) \/ BeginContinues(t)
  BY <1>1, EnterOwn, CompleteOwn, BeginOwn
<1>2. ASSUME NEW t \in Turns, AbortAfterSetup(t) PROVE EndsOwn
  <2>1. turn' = [turn EXCEPT ![t].killed = -1]
    BY <1>2 DEF AbortAfterSetup
  <2> QED
    BY <2>1, BasisParts, StaysOwn DEF OutStays, TurnTable, TurnState
<1>3. CASE \E t \in Turns : DriverContinues(t)
  BY <1>3, ContinuesDrives, DrivesOwn
<1>4. CASE \E p \in Pairs, s \in Sessions : HeadStarts(p, s)
  BY <1>4, HeadStartsBegins, QueueOwn, PopsOwn
<1> QED
  BY <1>1, <1>2, <1>3, <1>4 DEF Reactions

LEMMA TimerOwn == ASSUME Basis, Turning, Timers PROVE EndsOwn
<1>1. CASE \E t \in Turns : DriverAsks(t) \/ GiveUp(t)
  BY <1>1, AsksDrives, DrivesOwn, GiveUpOwn
<1>2. ASSUME NEW t \in Turns, NEW f \in {"rq", "dq"}, TimeOut(t, f) PROVE EndsOwn
  BY <1>2, TimeOutRuns, OnlyStays DEF RunsOut
<1>3. CASE \E p \in Pairs, s \in Sessions : HeadResumes(p, s)
  BY <1>3, HeadResumesBegins, QueueOwn, PopsOwn
<1>4. ASSUME NEW p \in Pairs, Reap(p) PROVE EndsOwn
  BY <1>4, BasisParts, LoseOwn DEF Reap
<1> QED
  BY <1>1, <1>2, <1>3, <1>4 DEF Timers

LEMMA AppServerOwn == ASSUME Basis, Turning, Signs, AppServer PROVE EndsOwn
<1>1. ASSUME NEW p \in Pairs, ChildLost(p) PROVE EndsOwn
  BY <1>1, BasisParts, LoseOwn DEF ChildLost
<1>2. ASSUME NEW p \in Pairs, Handshaken(p) PROVE EndsOwn
  <2>1. \A u \in Turns : Only(turn[u], turn'[u], {"rq", "dq"})
    BY <1>2, Zenon DEF Handshaken
  <2> QED
    BY <2>1, StaysOwn DEF Only, OutStays
<1>3. CASE Slows \/ \E p \in Pairs : Works(p)
  BY <1>3, StaysOwn DEF Slows, Works, OutStays
<1>4. CASE \E p \in Pairs : Deliver(p)
  BY <1>4, DeliverReads, ReadsOwn
<1>5. CASE \E p \in Pairs : Handshake(p) \/ SlowDown(p)
  BY <1>2, <1>3, <1>5, HandshakeDone, SlowDownSlows
<1>6. CASE \E p \in Pairs : \/ \E m \in wire[p].in : Serve(p, m)
                            \/ \E s \in Sessions, k \in Ends : ServeEnd(p, s, k)
  BY <1>3, <1>6, ServeWorks, ServeEndWorks
<1> QED
  BY <1>1, <1>4, <1>5, <1>6 DEF AppServer

LEMMA RuntimeOwn == ASSUME Basis, Runtime PROVE EndsOwn
<1>0. turn \in TurnTable
  BY BasisParts
<1>1. ASSUME NEW t \in Turns, StartRun(t) PROVE EndsOwn
  <2>1. \E p : turn' = [turn EXCEPT ![t].ph = "setup", ![t].pair = p]
    BY <1>1 DEF StartRun
  <2> QED
    BY <1>0, <2>1, StaysOwn DEF OutStays, TurnTable, TurnState
<1>2. ASSUME NEW t \in Turns, Kill(t) PROVE EndsOwn
  <2>1. \E k : turn' = [turn EXCEPT ![t].killed = k]
    BY <1>2 DEF Kill
  <2> QED
    BY <1>0, <2>1, StaysOwn DEF OutStays, TurnTable, TurnState
<1>3. ASSUME NEW p \in Pairs, CreatePair(p) PROVE EndsOwn
  BY <1>3, StaysOwn DEF CreatePair, OutStays
<1>4. CASE RuntimeChanged
  <2>1. \/ RetirePair(turn, rt) \/ turn' = turn
        \/ Lose(rt.cur, turn, conn[rt.cur].reaper)
    BY <1>4 DEF RuntimeChanged
  <2> QED
    BY <1>0, <2>1, RetireOwn, LoseOwn, StaysOwn DEF OutStays
<1>5. CASE AccountChanged
  BY <1>0, <1>5, RetireOwn DEF AccountChanged
<1> QED
  BY <1>1, <1>2, <1>3, <1>4, <1>5 DEF Runtime

LEMMA NextOwn ==
    ASSUME Basis, Turning, Askers, Signs, [CodexNext]_vars PROVE EndsOwn
<1>1. UNCHANGED vars => EndsOwn
  BY StaysOwn DEF vars, OutStays
<1> QED
  BY <1>1, ReactionOwn, TimerOwn, AppServerOwn, RuntimeOwn DEF CodexNext

(* As long as no account change comes in the middle of a setup, a turn is    *)
(* ended by its own messages, requests and calls only, unless the app-server *)
(* is too slow to answer before the timers (finish, rememberStale,           *)
(* interrupt, handleNotification).                                           *)
THEOREM OwnEndHolds == ~EarlyRetire => (CodexSpec => OwnEnd)
<1> DEFINE Inv == /\ Basis /\ Wires /\ Runs /\ Turning
                  /\ RunOrder /\ Askers /\ Signs
<1>1. CodexInit => Inv
  BY BasisInit, WiresInit, RunsInit, TurningInit, CallsInit, AskersInit
<1>2. ~EarlyRetire /\ Inv /\ [CodexNext]_vars => Inv'
  <2> SUFFICES ASSUME ~EarlyRetire, Inv, [CodexNext]_vars PROVE Inv'
    OBVIOUS
  <2>1. Basis' /\ Wires' /\ Runs'
    BY BasisNext, WiresNext, RunsNext
  <2>2. Turning' /\ RunOrder'
    BY <2>1, TurningNext, CallsNext
  <2>3. Askers' /\ Signs'
    BY <2>1, AskersNext, SignsNext
  <2> QED
    BY <2>1, <2>2, <2>3
<1>3. Inv /\ [CodexNext]_vars =>
        [\A t \in Turns : turn[t].out = "none" /\ turn'[t].out # "none"
           => turn'[t].by = t \/ conn[turn[t].pair].slow]_vars
  BY NextOwn DEF EndsOwn
<1> HIDE DEF Inv
<1> SUFFICES ASSUME ~EarlyRetire PROVE CodexSpec => OwnEnd
  OBVIOUS
<1>4. Inv /\ [CodexNext]_vars => Inv'
  BY <1>2
<1> QED
  BY <1>1, <1>3, <1>4, PTL DEF CodexSpec, OwnEnd
=============================================================================
