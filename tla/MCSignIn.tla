------------------------------ MODULE MCSignIn ------------------------------
(* Small instances of SignIn for TLC. *)
EXTENDS SignIn

CONSTANTS
  MaxStarts,  \* connections built in a launch and kills, together
  MaxTurns    \* ends of the sign-ins, and share runs in a launch, together

Few == Len(conns') + kills' <= MaxStarts /\ (gen' - 1) + runs' <= MaxTurns

MCSpec == Init /\ [][Next /\ Few]_vars /\ WF_vars(Progress /\ Few)
=============================================================================
