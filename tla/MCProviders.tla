---------------------------- MODULE MCProviders -----------------------------
(* The parts of the providers that run by themselves, in one run: turns on   *)
(* the shared Codex app-server, the connection underneath, and the sign-in   *)
(* with the account store. One part moves in a behaviour, the others rest in *)
(* their initial states, in which none of their fair actions is enabled.     *)
EXTENDS MCCodex, CodexConnection, SignIn

VARIABLE part

providerVars == <<part, vars, connVars, signInVars>>

Init ==
    /\ part \in {"threads", "connection", "sign-in"}
    /\ CodexInit /\ ConnectionInit /\ SignInInit

Next ==
    \/ part = "threads" /\ CodexNext /\ UNCHANGED <<part, connVars, signInVars>>
    \/ part = "connection" /\ ConnectionNext /\ UNCHANGED <<part, vars, signInVars>>
    \/ part = "sign-in" /\ SignInNext /\ UNCHANGED <<part, vars, connVars>>

Spec == Init /\ [][Next]_providerVars /\ CodexFairness /\ SignInFairness
=============================================================================
