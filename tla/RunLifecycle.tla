---------------------------- MODULE RunLifecycle ----------------------------
(* What the engine promises about a run to those who watch its snapshot: the *)
(* status of the run, the status of each steer message it has accepted, and  *)
(* whether its execution is over. RunEngine implements this.                 *)
EXTENDS Naturals, Sequences

CONSTANT MaxSteers   \* steer messages a run accepts

VARIABLES
    status,   \* the status of the run
    steers,   \* steers[k]: the status of the k-th steer message
    quiet     \* the run is over and nothing of it executes

vars == <<status, steers, quiet>>

Terminal == {"done", "failed", "aborted"}
Working  == {"running", "gating"}
Open     == {"pending", "active"}
Closed   == {"reviewed", "superseded", "expired"}

TypeOK ==
    /\ status \in Terminal \cup Working \cup {"created"}
    /\ steers \in Seq(Open \cup Closed)
    /\ quiet \in BOOLEAN

Init ==
    /\ status = "created"
    /\ steers = <<>>
    /\ quiet = FALSE

-----------------------------------------------------------------------------
(* A user's steer message is accepted while the run is not over.             *)
Accept ==
    /\ status \notin Terminal
    /\ Len(steers) < MaxSteers
    /\ steers' = Append(steers, "pending")
    /\ UNCHANGED <<status, quiet>>

(* Messages are taken up in the order they came, one at a time.              *)
Activate(k) ==
    /\ ~quiet
    /\ steers[k] = "pending"
    /\ \A j \in 1..(k - 1) : steers[j] \in Closed
    /\ steers' = [steers EXCEPT ![k] = "active"]
    /\ UNCHANGED <<status, quiet>>

(* The message was carried out and reviewed, or its agent was stopped.       *)
Close(k) ==
    /\ status \notin Terminal
    /\ steers[k] = "active"
    /\ \/ /\ steers' = [steers EXCEPT ![k] = "reviewed"]
          /\ status' = "running"
       \/ /\ steers' = [steers EXCEPT ![k] = "superseded"]
          /\ UNCHANGED status
    /\ UNCHANGED quiet

(* The run moves between its stages and their gates.                         *)
Work ==
    /\ status \notin Terminal
    /\ status' \in Working
    /\ UNCHANGED <<steers, quiet>>

(* The run ends, and is not done before every message has been dealt with.   *)
End ==
    /\ status \notin Terminal
    /\ status' \in Terminal
    /\ status' = "done" => \A k \in DOMAIN steers : steers[k] \in Closed
    /\ UNCHANGED <<steers, quiet>>

(* The execution is over. Messages still open expire.                        *)
Rest ==
    /\ ~quiet
    /\ status \in Terminal
    /\ quiet' = TRUE
    /\ steers' = [k \in DOMAIN steers |->
                    IF steers[k] \in Open THEN "expired" ELSE steers[k]]
    /\ UNCHANGED status

(* The user retries the last stage of a run that is over.                    *)
Reopen ==
    /\ quiet
    /\ status' = "running"
    /\ quiet' = FALSE
    /\ UNCHANGED steers

Next ==
    \/ Accept
    \/ \E k \in DOMAIN steers : Activate(k) \/ Close(k)
    \/ Work \/ End \/ Rest \/ Reopen

Spec == Init /\ [][Next]_vars
=============================================================================
