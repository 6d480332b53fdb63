---------------------------- MODULE SessionFifo ----------------------------
(* What a queue of one-shot CLI turns promises to its callers, key by key    *)
(* and without the bookkeeping of CliSessions: the turns of a key form a     *)
(* line, at most one of them holds the key, the key passes on in the order   *)
(* of arrival and only when its holder leaves, and every turn is answered    *)
(* at most once, with an answer that never changes.                          *)
EXTENDS SequencesExt

CONSTANTS Runs,    \* the turns submitted to the provider
          Keys,    \* the session keys
          KeyOf,   \* the key each turn is queued under
          NoRun    \* "nobody"

VARIABLES arrived,  \* the turns that have been submitted
          line,     \* line[k]: the turns waiting for key k, in order
          holder,   \* holder[k]: the turn whose child runs on key k
          answer    \* answer[r]: what the caller of turn r was told

vars == <<arrived, line, holder, answer>>

Answers == {"ok", "failed", "killed"}

Init ==
    /\ arrived = {}
    /\ line = [k \in Keys |-> <<>>]
    /\ holder = [k \in Keys |-> NoRun]
    /\ answer = [r \in Runs |-> "pending"]

(* The key k goes to the first turn of the waiting line l that can be        *)
(* started: the refused turns before it are told so.                         *)
PassOn(k, l, told) ==
    \E refused \in 0..Len(l) :
        /\ answer' = [r \in Runs |->
             IF \E i \in 1..refused : l[i] = r THEN "failed" ELSE told[r]]
        /\ holder' = [holder EXCEPT ![k] =
             IF refused < Len(l) THEN l[refused + 1] ELSE NoRun]
        /\ line' = [line EXCEPT ![k] = SubSeq(l, refused + 2, Len(l))]

Arrive(r) ==
    LET k == KeyOf[r] IN
    /\ r \notin arrived
    /\ arrived' = arrived \cup {r}
    /\ IF holder[k] = NoRun
         THEN PassOn(k, Append(line[k], r), answer)
         ELSE /\ line' = [line EXCEPT ![k] = Append(@, r)]
              /\ UNCHANGED <<holder, answer>>

(* The turn at place i of a line leaves it without having been started.      *)
Withdraw(k, i) ==
    /\ line' = [line EXCEPT ![k] = RemoveAt(@, i)]
    /\ answer' = [answer EXCEPT ![line[k][i]] = "killed"]
    /\ UNCHANGED <<arrived, holder>>

(* Everybody who waits is sent away.                                         *)
Disperse ==
    /\ line' = [k \in Keys |-> <<>>]
    /\ answer' = [r \in Runs |->
         IF \E i \in DOMAIN line[KeyOf[r]] : line[KeyOf[r]][i] = r
           THEN "killed" ELSE answer[r]]
    /\ UNCHANGED <<arrived, holder>>

(* The holder's caller is told the turn was killed while its child lingers.  *)
GiveUp(k) ==
    /\ holder[k] # NoRun
    /\ answer[holder[k]] = "pending"
    /\ answer' = [answer EXCEPT ![holder[k]] = "killed"]
    /\ UNCHANGED <<arrived, line, holder>>

(* The holder's child is gone: its caller has an answer, the key passes on.  *)
Leave(k) ==
    /\ holder[k] # NoRun
    /\ \E a \in Answers :
         /\ answer[holder[k]] \in {"pending", a}
         /\ PassOn(k, line[k], [answer EXCEPT ![holder[k]] = a])
    /\ UNCHANGED arrived

Next ==
    \/ \E r \in Runs : Arrive(r)
    \/ \E k \in Keys :
         \/ \E i \in DOMAIN line[k] : Withdraw(k, i)
         \/ GiveUp(k)
         \/ Leave(k)
    \/ Disperse

Spec == Init /\ [][Next]_vars
=============================================================================
