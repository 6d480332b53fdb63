----------------------------- MODULE MCAccounts ------------------------------
(* Sign-ins and account switches of two codex accounts, without crashes.     *)
EXTENDS SignIn

Spec == SignInInit /\ [][SignInNext]_signInVars
=============================================================================
