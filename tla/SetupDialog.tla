----------------------------- MODULE SetupDialog -----------------------------
(* The setup dialog of a provider in the page (ProviderSetup.tsx): its       *)
(* sign-in ceremony, its accounts, and its install, update and recheck       *)
(* buttons, each a chain of requests whose replies come in any order or not  *)
(* at all. The server is what these requests see of signin.ts and of the     *)
(* accounts; SignIn has the rest of it.                                      *)
EXTENDS Naturals

CONSTANTS MaxLogins,    \* ceremonies
          MaxRequests   \* requests that begin a chain

ASSUME DialogAssumption == {MaxLogins, MaxRequests} \subseteq Nat

VARIABLES
    mode,            \* the provider's ceremony: paste-code, or device
    phase, loginId,  \* signInProgress; none and 0 when undefined
    acting,          \* installing, updating or rechecking
    held,            \* accountBusy
    shown,           \* version of the accounts on display
    dialogCalls,     \* requests under way
    made,            \* chains begun
    ceremony,        \* server: state of each sign-in session
    working,         \* server: activeSession, 0 when undefined
    version,         \* server: version of the accounts
    settled,         \* history: version the dialog's own last change led to
    adrift           \* history: a request that counts was lost, a reply met another
                     \* ceremony or was older than what it replaced

dialogVars == <<mode, phase, loginId, acting, held, shown, dialogCalls, made, ceremony,
                working, version, settled, adrift>>
serverVars == <<ceremony, working, version>>
displayVars   == <<mode, phase, loginId, acting, held, shown, settled, adrift>>

Logins == 1..MaxLogins
Kinds  == {"start", "code", "status", "cancel", "mutate", "recipe", "providers", "accounts"}
Pages  == {"awaiting-code", "device-pending", "submitting"}

DialogTypeOK ==
    /\ mode \in {"paste-code", "device"}
    /\ phase \in Pages \cup {"none", "starting", "failed"} /\ loginId \in 0..MaxLogins
    /\ acting \in BOOLEAN /\ held \in BOOLEAN /\ shown \in Nat
    /\ made \in 0..MaxRequests
    /\ dialogCalls \subseteq [kind : Kinds, login : 0..MaxLogins,
                        then : {"last", "accounts", "idle", "free"},
                        ok : {"none", "yes", "no", "pending"}, saw : Nat]
    /\ ceremony \in [Logins -> {"unborn", "pending", "dying", "succeeded", "failed"}]
    /\ working \in 0..MaxLogins /\ version \in Nat /\ settled \in Nat
    /\ adrift \in BOOLEAN

(* A request of the dialog; then says what its reply is for.                 *)
Request(kind, l, then) ==
    [kind |-> kind, login |-> l, then |-> then, ok |-> "none", saw |-> 0]

(* The dialog has just been opened, and asked for the accounts.              *)
DialogInit ==
    /\ mode \in {"paste-code", "device"}
    /\ phase = "none" /\ loginId = 0 /\ acting = FALSE /\ held = FALSE
    /\ shown = 0 /\ dialogCalls = {Request("accounts", 0, "last")} /\ made = 0
    /\ ceremony = [l \in Logins |-> "unborn"] /\ working = 0 /\ version = 0
    /\ settled = 0 /\ adrift = FALSE

-----------------------------------------------------------------------------
(* A request leaves, if there is none like it on its way to the server.      *)
Issued(others, kind, l, then) ==
    /\ made < MaxRequests /\ made' = made + 1
    /\ Request(kind, l, then) \notin others
    /\ dialogCalls' = others \cup {Request(kind, l, then)}

(* The buttons. A provider is found, so that it can sign in, or it is not    *)
(* and can be installed or looked for again; an update waits for a ceremony. *)
StartSignIn ==
    /\ phase = "failed" \/ (phase = "none" /\ ~acting)
    /\ phase' = "starting" /\ loginId' = 0 /\ Issued(dialogCalls, "start", 0, "last")
    /\ UNCHANGED <<mode, acting, held, shown, settled, adrift, serverVars>>
SubmitCode ==
    /\ phase = "awaiting-code"
    /\ phase' = "submitting" /\ Issued(dialogCalls, "code", loginId, "last")
    /\ UNCHANGED <<mode, loginId, acting, held, shown, settled, adrift, serverVars>>
CancelSignInFlow ==
    /\ phase \in Pages
    /\ phase' = "none" /\ loginId' = 0 /\ Issued(dialogCalls, "cancel", loginId, "last")
    /\ UNCHANGED <<mode, acting, held, shown, settled, adrift, serverVars>>
MutateCodexAccount ==
    /\ ~held /\ held' = TRUE /\ Issued(dialogCalls, "mutate", 0, "last")
    /\ UNCHANGED <<mode, phase, loginId, acting, shown, settled, adrift, serverVars>>
DialogAct ==
    /\ ~acting /\ phase = "none" /\ acting' = TRUE
    /\ Issued(dialogCalls, "recipe", 0, "last") \/ Issued(dialogCalls, "providers", 0, "idle")
    /\ UNCHANGED <<mode, phase, loginId, held, shown, settled, adrift, serverVars>>

(* The interval of the ceremony on display; another ceremony, or none, stops *)
(* it, and with it what its polls still bring.                               *)
NeverStopped(l) == loginId = 0
Stopped(l) == phase # "device-pending" \/ loginId # l
Poll ==
    /\ phase = "device-pending"
    /\ Issued(dialogCalls, "status", loginId, "last") /\ UNCHANGED <<displayVars, serverVars>>

-----------------------------------------------------------------------------
(* The server answers: startSignIn, with a URL or without one, submitCode    *)
(* only when the session has settled, and the others at once.                *)
DialogAnswered(c, ok, l) ==
    dialogCalls' = (dialogCalls \ {c}) \cup {[c EXCEPT !.ok = ok, !.login = l, !.saw = version']}
AnswerStart(c) ==
    \/ /\ working # 0 /\ UNCHANGED serverVars /\ DialogAnswered(c, "no", 0)
    \/ /\ working = 0 /\ \E l \in Logins :
          /\ ceremony[l] = "unborn" /\ \A k \in Logins : k < l => ceremony[k] # "unborn"
          /\ working' = l /\ UNCHANGED version
          /\ \/ ceremony' = [ceremony EXCEPT ![l] = "pending"] /\ DialogAnswered(c, "yes", l)
             \/ ceremony' = [ceremony EXCEPT ![l] = "dying"] /\ DialogAnswered(c, "no", l)
Ended(l) == ceremony[l] \in {"succeeded", "failed"}
AnswerAbout(c) ==
    /\ UNCHANGED serverVars
    /\ \/ c.kind = "code" /\ Ended(c.login)
       \/ c.kind = "status"
    /\ DialogAnswered(c, IF ceremony[c.login] = "succeeded" THEN "yes"
                   ELSE IF Ended(c.login) THEN "no" ELSE "pending", c.login)
AnswerCancel(c) ==
    /\ ceremony' = IF ceremony[c.login] = "pending"
                   THEN [ceremony EXCEPT ![c.login] = "dying"] ELSE ceremony
    /\ UNCHANGED <<working, version>> /\ dialogCalls' = dialogCalls \ {c}
AnswerMutate(c) ==
    \/ working = 0 /\ version' = version + 1 /\ UNCHANGED <<ceremony, working>>
       /\ DialogAnswered(c, "yes", 0)
    \/ UNCHANGED serverVars /\ DialogAnswered(c, "no", 0)
AnswerAccounts(c) == UNCHANGED serverVars /\ DialogAnswered(c, "yes", 0)
Answer ==
    /\ \E c \in dialogCalls :
         /\ c.ok = "none"
         /\ \/ c.kind = "start" /\ AnswerStart(c)
            \/ AnswerAbout(c)
            \/ c.kind = "cancel" /\ AnswerCancel(c)
            \/ c.kind = "mutate" /\ AnswerMutate(c)
            \/ c.kind = "accounts" /\ AnswerAccounts(c)
    /\ UNCHANGED <<displayVars, made>>

(* The ceremony's child ends, which for a device is its own doing and for a  *)
(* pasted code an answer to it; timeouts end it as well.                     *)
Settle(l) ==
    /\ ceremony[l] \in {"pending", "dying"} /\ working' = 0
    /\ \/ /\ ceremony[l] = "pending"
          /\ mode = "device" \/ \E c \in dialogCalls : c.kind = "code" /\ c.login = l
          /\ ceremony' = [ceremony EXCEPT ![l] = "succeeded"] /\ version' = version + 1
       \/ ceremony' = [ceremony EXCEPT ![l] = "failed"] /\ UNCHANGED version
    /\ UNCHANGED <<displayVars, dialogCalls, made>>

-----------------------------------------------------------------------------
(* What a reply does; "lost" stands for a request that fails on its way.     *)
Shows(p, l) == phase' = p /\ loginId' = l
Same == UNCHANGED <<phase, loginId>>
StartArrives(ok, l) ==
    IF ok = "yes" THEN Shows(IF mode = "device" THEN "device-pending"
                             ELSE "awaiting-code", l)
                  ELSE Shows("failed", IF ok = "lost" THEN 0 ELSE l)

(* Success closes the ceremony on display, whichever it is.                  *)
CodeArrives(ok) ==
    IF ok = "yes" THEN Shows("none", 0)
    ELSE IF phase = "none" THEN Same ELSE Shows("failed", loginId)
StatusArrives(ok, l) ==
    IF Stopped(l) \/ ok \in {"pending", "lost"} THEN Same
    ELSE IF ok = "yes" THEN Shows("none", 0)
    ELSE IF loginId = l THEN Shows("failed", l) ELSE Same

(* The next request of the chain: providers and accounts after a success,    *)
(* accounts after a change of them, providers after an install or update.    *)
Continued(c, ok, others) ==
    LET heard == ok = "yes" /\ (c.kind = "code" \/ (c.kind = "status" /\ ~Stopped(c.login)))
    IN others \cup
       IF heard                     THEN {Request("providers", 0, "accounts")}
       ELSE IF c.kind = "recipe"    THEN {Request("providers", 0, "idle")}
       ELSE IF c.kind = "mutate"    THEN {Request("accounts", 0, "free")}
       ELSE IF c.then = "accounts"  THEN {Request("accounts", 0, "last")} ELSE {}

(* Without these the dialog cannot know what the server does: its comments   *)
(* leave an abandoned ceremony to the server's timeout.                      *)
Counts == {"start", "code", "cancel", "accounts"}

(* The effect falls on another ceremony, or on what is newer.                *)
Crosses(c) ==
    \/ /\ c.kind = "code" /\ loginId # c.login
       /\ <<phase', loginId'>> # <<phase, loginId>>
    \/ c.kind = "start" /\ phase # "starting"
    \/ c.kind = "accounts" /\ c.saw < shown
Arrive(c, ok) ==
    /\ CASE c.kind = "start"  -> StartArrives(ok, c.login)
         [] c.kind = "code"   -> CodeArrives(ok)
         [] c.kind = "status" -> StatusArrives(ok, c.login)
         [] OTHER             -> Same
    /\ dialogCalls' = Continued(c, ok, dialogCalls \ {c})
    /\ shown' = (IF c.kind = "accounts" /\ ok = "yes" THEN c.saw ELSE shown)
    /\ settled' = (IF c.kind = "mutate" /\ ok = "yes" THEN c.saw ELSE settled)
    /\ held' = (held /\ c.then # "free") /\ acting' = (acting /\ c.then # "idle")
    /\ adrift' = (Crosses(c) \/ (ok = "lost" /\ c.kind \in Counts))
    /\ UNCHANGED <<mode, made, serverVars>>
DialogReplied(c) == c.ok # "none" \/ c.kind \in {"recipe", "providers"}
ReplyArrives == \E c \in dialogCalls : DialogReplied(c) /\ Arrive(c, c.ok)
RequestFails == \E c \in dialogCalls : Arrive(c, "lost")

(* What is adrift is followed no further.                                    *)
DialogNext ==
    /\ ~adrift
    /\ \/ StartSignIn \/ SubmitCode \/ CancelSignInFlow \/ MutateCodexAccount \/ DialogAct
       \/ Poll \/ Answer \/ ReplyArrives \/ RequestFails
       \/ \E l \in Logins : Settle(l)
DialogSpec == DialogInit /\ [][DialogNext]_dialogVars

-----------------------------------------------------------------------------
(* A ceremony the server works on is on display, where it can be cancelled,  *)
(* or a request that will show or end it is under way.                       *)
CeremonyIsShown ==
    \A l \in Logins : ceremony[l] = "pending" =>
        \/ phase \in Pages /\ loginId = l
        \/ \E c \in dialogCalls : c.kind \in {"start", "cancel"} /\ c.login = l

(* What disables a button is owned by a request that will enable it.         *)
BusyIsOwned ==
    /\ acting => \E c \in dialogCalls : c.kind = "recipe" \/ c.then = "idle"
    /\ held => \E c \in dialogCalls : c.kind = "mutate" \/ c.then = "free"
    /\ phase = "starting" => \E c \in dialogCalls : c.kind = "start"
    /\ phase = "submitting" => \E c \in dialogCalls : c.kind = "code" /\ c.login = loginId

(* When the buttons of the accounts are enabled again, the change they made  *)
(* is on display.                                                            *)
AccountsFollow == ~held => shown >= settled

DialogFollows ==
    DialogTypeOK /\ (adrift \/ (CeremonyIsShown /\ BusyIsOwned /\ AccountsFollow))
=============================================================================
