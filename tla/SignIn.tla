------------------------------- MODULE SignIn --------------------------------
(* The in-app sign-in (providers/signin.ts), the codex account store it      *)
(* captures into (providers/codex/accounts.ts), the guards of the account    *)
(* routes (api/routes.ts) and the codex turns of the node runner next to it. *)
(* A credential is the account it belongs to and a version: a refresh token  *)
(* is used once, so only the newest version of an account is of any use.     *)
(*                                                                           *)
(* A step is the code between two macrotasks. The login child, the tokens an *)
(* app-server rotates and the clock are the environment. An account marked   *)
(* as in need of a login only refuses more turns; the mark is left out.      *)
EXTENDS Naturals, FiniteSets

CONSTANTS Logins,       \* calls of startSignIn
          CodexLogins,  \* those for codex; the others leave its files alone
          Accounts,
          First,        \* the account that is signed in at first
          Nobody,       \* no login, no account
          MaxVersion,   \* bound: versions of a credential
          Crashing      \* TRUE if the server may crash

ASSUME SignInAssumption ==
    /\ CodexLogins \subseteq Logins /\ First \in Accounts
    /\ Nobody \notin Logins \cup Accounts
    /\ MaxVersion \in Nat \ {0} /\ Crashing \in BOOLEAN

VARIABLES
    login,      \* login[l]: SignInSession of l
    active,     \* activeSession
    codexTurn,  \* the codex node: its place in runNode
    shared,     \* auth.json in the codex home
    snap,       \* snap[a]: auth.json in the directory of account a
    newest,     \* newest[a]: the newest version that was issued for a
    index,      \* the active account of codex-accounts.json
    server,     \* the account the app-server has loaded
    spoiled     \* history: see Rotate and SwitchAccount

signInVars == <<login, active, codexTurn, shared, snap, newest, index, server, spoiled>>

Credentials == [of : Accounts, v : 1..MaxVersion]
NoFile      == [of |-> Nobody, v |-> 0]

SignInTypeOK ==
    /\ login \in [Logins -> [
         ph     : {"new", "resolving", "live", "good", "failed", "probing", "over"},
         killed : BOOLEAN,   \* cancelled or timed out, while the child lives
         wrote  : BOOLEAN,   \* the child has written auth.json
         late   : BOOLEAN]]  \* an exit may still be reported
    /\ active \in Logins \cup {Nobody}
    /\ codexTurn \in {"idle", "resolving", "early", "running", "beside"}
    /\ shared \in Credentials \cup {NoFile}
    /\ snap \in [Accounts -> Credentials \cup {NoFile}]
    /\ newest \in [Accounts -> 1..MaxVersion]
    /\ index \in Accounts \cup {Nobody}
    /\ server \in Accounts \cup {Nobody}
    /\ spoiled \in BOOLEAN

NewLogin == [ph |-> "new", killed |-> FALSE, wrote |-> FALSE, late |-> FALSE]
SignInInit ==
    /\ login = [l \in Logins |-> NewLogin] /\ active = Nobody
    /\ codexTurn = "idle" /\ server = Nobody
    /\ shared = [of |-> First, v |-> 1]
    /\ newest = [a \in Accounts |-> 1]
    /\ snap = [a \in Accounts |-> [of |-> a, v |-> 1]]
    /\ index = First /\ spoiled = FALSE

-----------------------------------------------------------------------------
(* The account store.                                                        *)
Missing(f) == f = NoFile

(* The accounts the index lists are those with a snapshot.                   *)
Known == {a \in Accounts : ~Missing(snap[a])}

(* captureCurrent: whatever account the shared file names becomes the active *)
(* one, with a fresh snapshot.                                               *)
CaptureCurrent ==
    IF Missing(shared) THEN UNCHANGED <<snap, index>>
      ELSE snap' = [snap EXCEPT ![shared.of] = shared] /\ index' = shared.of

(* syncActiveFromSharedHome, when the server shuts down.                     *)
SyncActive ==
    IF Missing(shared) THEN index' = Nobody /\ UNCHANGED snap
      ELSE CaptureCurrent

(* switchAccount copies three files in turn; `done` is how many steps are    *)
(* made before the server crashes, 3 if it does not. The outgoing snapshot   *)
(* is taken under the name the index calls active, which spoils it if the    *)
(* shared file is adrift: it holds somebody else's credential.               *)
Switchable(a) == a \in Known /\ ~(index = a /\ ~Missing(shared))
Adrift == /\ ~Missing(shared) /\ shared.of # index
          /\ index # Nobody \/ shared.of \in Known
SkippedOutgoing(a) == {}
Outgoing(a) == IF Missing(shared) THEN {} ELSE {index} \ {a, Nobody}
CopyAccounts(a, done) ==
    /\ snap' = [b \in Accounts |->
                  IF done >= 1 /\ b \in Outgoing(a) THEN shared ELSE snap[b]]
    /\ shared' = IF done >= 2 THEN snap[a] ELSE shared
    /\ index' = IF done >= 3 THEN a ELSE index
    /\ spoiled' = (spoiled \/ Adrift)

-----------------------------------------------------------------------------
(* The account routes refuse while a sign-in is active or a turn is running. *)
TurnBusy == codexTurn \in {"running", "beside"}
AccountsFree == active = Nobody /\ ~TurnBusy

Capture ==
    /\ AccountsFree /\ CaptureCurrent
    /\ UNCHANGED <<login, active, codexTurn, shared, newest, server, spoiled>>

(* A switch recycles the app-server.                                         *)
SwitchAccount(a) ==
    /\ AccountsFree
    /\ \/ Switchable(a) /\ CopyAccounts(a, 3)
       \/ /\ index = a /\ ~Missing(shared)
          /\ CaptureCurrent /\ UNCHANGED <<shared, spoiled>>
    /\ server' = Nobody
    /\ UNCHANGED <<login, active, codexTurn, newest>>

RemoveAccount(a) ==
    /\ AccountsFree /\ a \in Known
    /\ snap' = [snap EXCEPT ![a] = NoFile]
    /\ index' = IF index = a THEN Nobody ELSE index
    /\ UNCHANGED <<login, active, codexTurn, shared, newest, server, spoiled>>

-----------------------------------------------------------------------------
(* A sign-in. The reservation is made before the first await.                *)
CodexActive == active \in CodexLogins
Refused(l) == active # Nobody \/ (l \in CodexLogins /\ TurnBusy)
StartSignIn(l) ==
    /\ login[l].ph = "new" /\ ~Refused(l)
    /\ active' = l
    /\ login' = [login EXCEPT ![l].ph = "resolving"]
    /\ codexTurn' = IF l \in CodexLogins /\ codexTurn = "resolving" THEN "early" ELSE codexTurn
    /\ IF l \in CodexLogins THEN CaptureCurrent ELSE UNCHANGED <<snap, index>>
    /\ UNCHANGED <<shared, newest, server, spoiled>>

(* commandForRecipe has resolved: the child is spawned, or that throws. A    *)
(* codex login discards the login it replaces.                               *)
SpawnLogin(l) ==
    /\ login[l].ph = "resolving"
    /\ \/ /\ login' = [login EXCEPT ![l].ph = "live"] /\ UNCHANGED active
          /\ shared' = IF l \in CodexLogins THEN NoFile ELSE shared
       \/ /\ login' = [login EXCEPT ![l].ph = "over"] /\ UNCHANGED shared
          /\ active' = IF active = l THEN Nobody ELSE active
    /\ UNCHANGED <<codexTurn, snap, newest, index, server, spoiled>>

(* The child could not be started: `error` settles the session at once, and  *)
(* `exit` may still come.                                                    *)
ForgetfulReleasedBy(l) == active
ReleasedBy(l) == IF active = l THEN Nobody ELSE active
LoginError(l) ==
    /\ login[l].ph = "resolving"
    /\ login' = [login EXCEPT ![l] = [@ EXCEPT !.ph = "over", !.late = TRUE]]
    /\ active' = ReleasedBy(l)
    /\ UNCHANGED <<codexTurn, shared, snap, newest, index, server, spoiled>>
LateExit(l) ==
    /\ login[l].late
    /\ login' = [login EXCEPT ![l].late = FALSE]
    /\ active' = ReleasedBy(l)
    /\ UNCHANGED <<codexTurn, shared, snap, newest, index, server, spoiled>>

(* The child (external) signs in with some account; then, or without it, it  *)
(* ends. Output may hold a word that means failure even on a clean exit.     *)
ChildSignsIn(l, a) ==
    /\ login[l].ph = "live" /\ l \in CodexLogins /\ ~login[l].wrote
    /\ newest[a] < MaxVersion
    /\ newest' = [newest EXCEPT ![a] = @ + 1]
    /\ shared' = [of |-> a, v |-> newest[a] + 1]
    /\ login' = [login EXCEPT ![l].wrote = TRUE]
    /\ UNCHANGED <<active, codexTurn, snap, index, server, spoiled>>
ChildExits(l, end) ==
    /\ login[l].ph = "live"
    /\ end = "good" => ~login[l].killed /\ (login[l].wrote \/ l \notin CodexLogins)
    /\ login' = [login EXCEPT ![l] = [NewLogin EXCEPT !.ph = end]]
    /\ UNCHANGED <<active, codexTurn, shared, snap, newest, index, server, spoiled>>

(* cancelSignIn, no URL in time, or the time limit of the ceremony: the      *)
(* child gets SIGTERM, and SIGKILL later.                                    *)
KillLogin(l) ==
    /\ login[l].ph = "live" /\ ~login[l].killed
    /\ login' = [login EXCEPT ![l].killed = TRUE]
    /\ UNCHANGED <<active, codexTurn, shared, snap, newest, index, server, spoiled>>

(* settleSession, 50 ms after the exit: a good exit is probed, anything else *)
(* is a failure, whatever the child has written.                             *)
SettleSession(l) ==
    /\ \/ /\ login[l].ph = "good" /\ login' = [login EXCEPT ![l].ph = "probing"]
          /\ UNCHANGED active
       \/ /\ login[l].ph = "failed" /\ login' = [login EXCEPT ![l].ph = "over"]
          /\ active' = ReleasedBy(l)
    /\ UNCHANGED <<codexTurn, shared, snap, newest, index, server, spoiled>>

(* The status probe answers. A verified codex login is captured, and the     *)
(* app-server recycled, which ends a turn that runs there all the same.      *)
Probed(l, verified) ==
    /\ login[l].ph = "probing"
    /\ login' = [login EXCEPT ![l].ph = "over"]
    /\ active' = ReleasedBy(l)
    /\ IF verified /\ l \in CodexLogins
         THEN /\ CaptureCurrent /\ server' = Nobody
              /\ codexTurn' = IF TurnBusy THEN "idle" ELSE codexTurn
         ELSE UNCHANGED <<snap, index, server, codexTurn>>
    /\ UNCHANGED <<shared, newest, spoiled>>

-----------------------------------------------------------------------------
(* A codex node. The sign-in is looked at before the runtime is looked up,   *)
(* which takes an await, and not after it.                                   *)
CheckSignIn ==
    /\ codexTurn = "idle" /\ ~CodexActive /\ codexTurn' = "resolving"
    /\ UNCHANGED <<login, active, shared, snap, newest, index, server, spoiled>>
StartTurn ==
    /\ codexTurn \in {"resolving", "early"}
    /\ codexTurn' = IF codexTurn = "early" THEN "beside" ELSE "running"
    /\ server' = IF server = Nobody THEN shared.of ELSE server
    /\ UNCHANGED <<login, active, shared, snap, newest, index, spoiled>>
EndTurn ==
    /\ TurnBusy /\ codexTurn' = "idle"
    /\ UNCHANGED <<login, active, shared, snap, newest, index, server, spoiled>>

(* The app-server (external) uses its refresh token and saves the next one,  *)
(* which spoils the shared file if a login child is at work there.           *)
Rotate ==
    /\ TurnBusy /\ server # Nobody /\ newest[server] < MaxVersion
    /\ newest' = [newest EXCEPT ![server] = @ + 1]
    /\ shared' = [of |-> server, v |-> newest[server] + 1]
    /\ spoiled' = (spoiled \/ CodexActive \/ shared.of # server)
    /\ UNCHANGED <<login, active, codexTurn, snap, index, server>>

-----------------------------------------------------------------------------
(* The server ends. An orderly shutdown ends the turn and syncs the account; *)
(* a crash does not, and may come in the middle of a switch. Login children  *)
(* end with the server.                                                      *)
Restarted ==
    /\ active' = Nobody /\ codexTurn' = "idle" /\ server' = Nobody
    /\ login' = [l \in Logins |-> IF login[l].ph = "new" THEN login[l]
                                    ELSE [NewLogin EXCEPT !.ph = "over"]]
Shutdown ==
    /\ Restarted /\ SyncActive
    /\ UNCHANGED <<shared, newest, spoiled>>
Crash ==
    /\ Crashing /\ Restarted /\ UNCHANGED newest
    /\ \/ UNCHANGED <<shared, snap, index, spoiled>>
       \/ \E a \in Accounts, done \in 1..2 :
             AccountsFree /\ Switchable(a) /\ CopyAccounts(a, done)

SignInNext ==
    \/ \E l \in Logins :
         \/ StartSignIn(l) \/ SpawnLogin(l) \/ LoginError(l) \/ LateExit(l)
         \/ KillLogin(l) \/ SettleSession(l)
         \/ \E a \in Accounts : ChildSignsIn(l, a)
         \/ \E end \in {"good", "failed"} : ChildExits(l, end)
         \/ \E verified \in BOOLEAN : Probed(l, verified)
    \/ \E a \in Accounts : SwitchAccount(a) \/ RemoveAccount(a)
    \/ Capture \/ CheckSignIn \/ StartTurn \/ EndTurn \/ Rotate
    \/ Shutdown \/ Crash
SignInSpec == SignInInit /\ [][SignInNext]_signInVars

(* The lookup of a command ends, a ceremony has a time limit, a signalled    *)
(* child ends (SIGKILL), settling and the probe have timers.                 *)
Ended(l) == login[l].killed /\ ChildExits(l, "failed")
SignInFairness ==
    \A l \in Logins :
        /\ WF_signInVars(SpawnLogin(l)) /\ WF_signInVars(KillLogin(l))
        /\ WF_signInVars(Ended(l)) /\ WF_signInVars(SettleSession(l))
        /\ WF_signInVars(\E verified \in BOOLEAN : Probed(l, verified))

-----------------------------------------------------------------------------
(* As long as nothing was spoiled, no account loses its newest credential:   *)
(* it is in the shared file or in the account's own snapshot (captureCurrent,*)
(* switchAccount, the crash of a switch).                                    *)
CredentialsKept ==
    ~spoiled => \A a \in Known :
        LET fresh == [of |-> a, v |-> newest[a]] IN fresh \in {shared, snap[a]}

(* "switching away re-snapshots the outgoing account first" (switchAccount): *)
(* a snapshot holds the credential of its own account.                       *)
SnapshotIsOwn == \A a \in Accounts : snap[a].of \in {a, Nobody}

(* Every ceremony ends, so that the next one can start (settleSession, the   *)
(* timers of startSignIn).                                                   *)
CeremonyEnds == active # Nobody ~> active = Nobody
=============================================================================
