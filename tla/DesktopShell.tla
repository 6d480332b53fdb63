----------------------------- MODULE DesktopShell -----------------------------
(* The desktop shell (desktop/src-tauri/src/main.rs): a thread starts the    *)
(* bundled server and waits for its port; the main thread stops it when a    *)
(* window closes or the application exits. The two share the slot of the     *)
(* child, under a mutex, and the flag `stopping`. When the main thread has   *)
(* returned, the process exits with whatever the other thread was doing.     *)
EXTENDS Naturals

CONSTANT MaxStops  \* bound: calls of stop before the last one

ASSUME ShellAssumption == MaxStops \in Nat

VARIABLES
    start,          \* where start_server is
    main,           \* where the main thread is, in `stop` or outside
    calls,          \* calls of stop so far
    last,           \* this call answers RunEvent::Exit
    stopping,       \* ServerProcess.stopping
    slot,           \* ServerProcess.child holds the child
    serverProcess,  \* the server process
    page            \* what the window shows

shellVars == <<start, main, calls, last, stopping, slot, serverProcess, page>>

ShellTypeOK ==
    /\ start \in {"validating", "binding", "bound", "passed", "spawned", "dropping",
                  "waiting", "answered", "unanswered", "over"}
    /\ main \in {"idle", "flagged", "terminating", "exited"}
    /\ calls \in 0..MaxStops + 1
    /\ last \in BOOLEAN /\ stopping \in BOOLEAN /\ slot \in BOOLEAN
    /\ serverProcess \in {"none", "alive", "signalled", "gone"}
    /\ page \in {"splash", "error", "server"}

ShellInit ==
    /\ start = "validating" /\ main = "idle" /\ calls = 0 /\ last = FALSE
    /\ stopping = FALSE /\ slot = FALSE /\ serverProcess = "none" /\ page = "splash"

Running == main # "exited"
StartAt(place) == Running /\ start = place
StartGoes(places) == start' \in places /\ UNCHANGED page

-----------------------------------------------------------------------------
(* start_server gives up with its reason on the page.                        *)
ShowError == start' = "over" /\ page' = "error"

(* Node is run for its version: it is missing, fails, says nothing that can  *)
(* be read or is too old, or it passes.                                      *)
ValidateNode ==
    /\ StartAt("validating") /\ (ShowError \/ StartGoes({"binding"}))
    /\ UNCHANGED <<main, calls, last, stopping, slot, serverProcess>>

(* A port is bound and let go of again, for the server to bind.              *)
FreePort ==
    /\ StartAt("binding") /\ (ShowError \/ StartGoes({"bound"}))
    /\ UNCHANGED <<main, calls, last, stopping, slot, serverProcess>>

(* The entry has to be there; then `stopping` is looked at.                  *)
CheckEntry ==
    /\ StartAt("bound")
    /\ ShowError \/ StartGoes(IF stopping THEN {"over"} ELSE {"passed"})
    /\ UNCHANGED <<main, calls, last, stopping, slot, serverProcess>>

SpawnServer ==
    /\ StartAt("passed")
    /\ \/ StartGoes({"spawned"}) /\ serverProcess' = "alive"
       \/ ShowError /\ UNCHANGED serverProcess
    /\ UNCHANGED <<main, calls, last, stopping, slot>>

(* Under the mutex, which a terminating main thread holds: `stopping` is     *)
(* looked at once more before the child is handed over.                      *)
TooLate == stopping
Register ==
    /\ StartAt("spawned") /\ main # "terminating"
    /\ IF TooLate THEN StartGoes({"dropping"}) /\ UNCHANGED slot
                  ELSE StartGoes({"waiting"}) /\ slot' = TRUE
    /\ UNCHANGED <<main, calls, last, stopping, serverProcess>>

(* terminate_child: SIGTERM for the group, SIGKILL after three seconds.      *)
Signal(proc) == IF proc = "alive" THEN "signalled" ELSE proc
DropServer ==
    /\ StartAt("dropping")
    /\ IF serverProcess = "alive" THEN serverProcess' = Signal(serverProcess) /\ UNCHANGED <<start, page>>
                           ELSE serverProcess' = "gone" /\ StartGoes({"over"})
    /\ UNCHANGED <<main, calls, last, stopping, slot>>

(* A turn of the loop: `stopping` is looked at, then the port is tried. It   *)
(* may answer although the server is gone: the port is anybody's by now.     *)
TryPort ==
    /\ StartAt("waiting")
    /\ StartGoes(IF stopping THEN {"over"} ELSE {"answered", "unanswered"})
    /\ UNCHANGED <<main, calls, last, stopping, slot, serverProcess>>

(* The port has answered: the window goes there, by one way or another.      *)
Navigate ==
    /\ StartAt("answered")
    /\ ShowError \/ (start' = "over" /\ page' = "server")
    /\ UNCHANGED <<main, calls, last, stopping, slot, serverProcess>>

(* It has not: a child that has exited ends the wait, and so does the end of *)
(* its time. The main thread may have taken the child.                       *)
TryWait ==
    /\ StartAt("unanswered") /\ main # "terminating"
    /\ ShowError \/ (~(slot /\ serverProcess = "gone") /\ StartGoes({"waiting"}))
    /\ UNCHANGED <<main, calls, last, stopping, slot, serverProcess>>

-----------------------------------------------------------------------------
(* stop, for a window that closes, an exit that is requested, or the exit.   *)
Stop(exit) ==
    /\ main = "idle" /\ (exit \/ calls < MaxStops)
    /\ stopping' = TRUE /\ main' = "flagged" /\ calls' = calls + 1 /\ last' = exit
    /\ UNCHANGED <<start, slot, serverProcess, page>>
Returned == main' = IF last THEN "exited" ELSE "idle"
TakeChild ==
    /\ main = "flagged"
    /\ IF slot THEN slot' = FALSE /\ main' = "terminating" ELSE UNCHANGED slot /\ Returned
    /\ UNCHANGED <<start, calls, last, stopping, serverProcess, page>>
NoPatience ==
    /\ main = "terminating" /\ serverProcess' = Signal(serverProcess) /\ Returned
    /\ UNCHANGED <<start, calls, last, stopping, slot, page>>
TerminateChild ==
    /\ main = "terminating"
    /\ IF serverProcess = "alive" THEN serverProcess' = Signal(serverProcess) /\ UNCHANGED main
                           ELSE serverProcess' = "gone" /\ Returned
    /\ UNCHANGED <<start, calls, last, stopping, slot, page>>

(* The server ends by itself.                                                *)
ServerEnds ==
    /\ serverProcess \in {"alive", "signalled"} /\ serverProcess' = "gone"
    /\ UNCHANGED <<start, main, calls, last, stopping, slot, page>>

ShellNext ==
    \/ ValidateNode \/ FreePort \/ CheckEntry \/ SpawnServer \/ Register
    \/ DropServer \/ TryPort \/ Navigate \/ TryWait
    \/ \E exit \in BOOLEAN : Stop(exit)
    \/ TakeChild \/ TerminateChild \/ ServerEnds
ShellSpec == ShellInit /\ [][ShellNext]_shellVars

-----------------------------------------------------------------------------
(* The application leaves no server behind, but for one that start_server    *)
(* had spawned and not yet handed over or got rid of when the process exited *)
(* (ServerProcess.stop, start_server).                                       *)
NoServerLeft ==
    main = "exited" /\ serverProcess \in {"alive", "signalled"} => start \in {"spawned", "dropping"}
=============================================================================
